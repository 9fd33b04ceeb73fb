--------------------------- MODULE MC_PageTable ---------------------------
(***************************************************************************)
(* Tables of 4 entries, so 256 pages; the upper 128 are the kernel's, and  *)
(* map the physical pages from 0 on.  The loader left two huge pages, a    *)
(* table of small ones and a hole.                                         *)
(***************************************************************************)
EXTENDS PageTable, Sequences, TLC

E(base, huge) == IF huge THEN Huge(base, FALSE) ELSE Table(base, FALSE)
T(f) == [i \in Index |-> IF i \in DOMAIN f THEN f[i] ELSE Empty]

MCBootTable ==
    [x \in 300 .. 303 |->
        CASE x = 300 -> T(2 :> E(301, FALSE))
          [] x = 301 -> T(0 :> E(302, FALSE))
          [] x = 302 -> T(0 :> E(0, TRUE) @@ 1 :> E(4, TRUE) @@ 2 :> E(303, FALSE))
          [] x = 303 -> T(0 :> E(8, FALSE) @@ 1 :> E(9, FALSE))]

MCPool == 200 .. 213

\* A 4 KiB page in a huge one (the XSDP), a huge page again, from within (the XSDT) and
\* over a table (an I/O APIC), a 4 KiB page where nothing was (the APIC).
MCKernelMaps == {<<1, 129, 1, P4Kib>>, <<5, 133, 1, P2Mib>>, <<8, 136, 1, P2Mib>>,
                 <<60, 188, 1, P4Kib>>}

\* Two pages of text, over a table's edge, and the stack under the top.
MCTaskMaps == {<<40, 19, 2, P4Kib>>, <<48, 120, 2, P2Mib>>}

\* Every page of those maps, and what shares a table with it.
MCWatch == (16 .. 23) \cup (118 .. 143) \cup (187 .. 191)

Symmetry == Permutations(Task)
=============================================================================
