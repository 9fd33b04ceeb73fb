---------------------------- MODULE MC_Platform ----------------------------
(* Machines, files and the boots alone, for TLC. *)
EXTENDS Interrupts

Lapic(i)      == [type |-> "lapic", length |-> 8, id |-> i]
IOApic(b, n)  == [type |-> "ioapic", length |-> 12, base |-> b, answer |-> n]
Iso(s, g)     == [type |-> "iso", length |-> 10, source |-> s, gsi |-> g]
Other(n)      == [type |-> "other", length |-> n]

\* The header of the next table, whose second letter counts as a length.
Behind == <<Other(80), Lapic(7)>>

Table(entries) == [entries |-> <<Lapic(0), Lapic(1)>> \o entries,
                   beyond |-> Behind, lapic_id |-> <<0, 1, 2, 3>>]

\* One chip that also has the pin of system calls.
Wide_Firmware == {Table(<<IOApic(0, 119), Iso(96, 20), Iso(20, 21), Iso(0, 16)>>)}

\* The second core has the number 0.
Turned_Firmware == {[Table(<<IOApic(0, 23), Iso(0, 2)>>) EXCEPT !.lapic_id = <<1, 0, 2, 3>>]}

\* What follows the table at once looks like one more processor.
Followed_Firmware == {[Table(<<IOApic(0, 23), Iso(0, 2)>>) EXCEPT !.beyond = <<Lapic(7)>>]}

MC_Firmware == {
    Table(<<IOApic(0, 23), Iso(0, 2), Iso(9, 9), Other(6)>>),
    Table(<<IOApic(0, 0), Iso(0, 2)>>),
    Table(<<IOApic(0, 0), Other(6), Other(6)>>),
    Table(<<Iso(0, 2), IOApic(24, 71), IOApic(0, 23), IOApic(96, 31), Iso(5, 5)>>)} \cup Wide_Firmware

Boots_Firmware == MC_Firmware \cup Turned_Firmware

Header(type, offset, address, filesz, memsz) ==
    [p_type |-> type, p_vaddr |-> address, p_paddr |-> address, p_filesz |-> filesz, p_memsz |-> memsz]

File(entry, headers) == [e_Magic |-> E!ELF_MAGIC, e_Entry |-> entry, headers |-> headers]

One_File == {File(9, <<Header(1, 0, 8, 3, 3)>>)}

MC_File == One_File \cup {
    File(12, <<Header(6, 0, 0, 2, 2), Header(1, 0, 8, 4, 4), Header(1, 4, 12, 2, 4)>>),
    File(14, <<Header(1, 4, 13, 4, 9), Header(1, 0, 10, 2, 3)>>),
    [e_Magic |-> 0]}

\* The boots without the timers' interrupts, which come to no core before its
\* requests are done: what they add is to the cores that run.
BootNext == \E c \in Cores : Boot(c) \/ WakeUp(c)
BootSpec == Init /\ [][BootNext]_vars

(* However the cores' accesses come between each other, each pin gets what was
   registered for it.  It does not hold for the pin of system calls
   (PlatformContended.cfg). *)
EveryRouteIsExact ==
    (\A c \in Cores : at[c] \notin {"low", "next", "high", "enable", "again", "stray"}) =>
    \A i \in DOMAIN apic.ioapic : \A pin \in 0 .. apic.ioapic[i].answer :
        LET r == 16 + 2 * pin IN
        r \in DOMAIN redirection[i] =>
            \E a \in Asked : /\ a[2] \in Irq(apic.ioapic[i].base + pin)
                             /\ redirection[i][r] = a[1] /\ redirection[i][r + 1] = 0
=============================================================================
