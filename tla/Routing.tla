------------------------------ MODULE Routing ------------------------------
(***************************************************************************)
(* The interrupt controllers' part of the boot: what the kernel reads of   *)
(* the firmware's MADT and how register_ioapic writes an entry of an I/O   *)
(* APIC through its pair of registers, a select and a window, one access   *)
(* at a time.  A core's request is <<vector, irq>>; at[c] says which       *)
(* access of it comes next.                                                *)
(***************************************************************************)
EXTENDS Integers, SequencesExt

CONSTANTS Cores, BSP

CLOCK         == 32
SYSCALL       == 128
APIC_ERROR    == 156
APIC_SPURIOUS == 157

HEADER == 44        \* bytes of the MADT before its first entry
CHIPS  == 8         \* the I/O APICs that Apic has room for

VARIABLES
    firmware,       \* the tables the machine comes with
    apic,           \* what MADT::MADT filled: core_count, ioapic, iso
    select,         \* the select register of each I/O APIC
    redirection,    \* [I/O APIC -> [register -> value or Reset]]
    msr,            \* the stray MSR writes of enable
    at,             \* where each core is
    todo            \* its requests left

routing == <<apic, select, redirection, msr>>

Reset == "reset"
-----------------------------------------------------------------------------
(* The loop of MADT::MADT counts from the first entry up to the length of the
   whole table, so it also reads what comes behind it. *)
Memory(f) == f.entries \o f.beyond
Offset(f) ==
    LET o[k \in 1 .. Len(Memory(f)) + 1] == IF k = 1 THEN 0 ELSE o[k - 1] + Memory(f)[k - 1].length
    IN  o
Length(f) == HEADER + Offset(f)[Len(f.entries) + 1]
Visited(f) == {k \in DOMAIN Memory(f) : Offset(f)[k] <= Length(f)}

\* The entries of a type that the loop comes to, in their order.
Nth(S, i) == CHOOSE k \in S : Cardinality({j \in S : j < k}) = i - 1
Found(f, type)  == {k \in Visited(f) : Memory(f)[k].type = type}
OfType(f, type) == [i \in 1 .. Cardinality(Found(f, type)) |-> Memory(f)[Nth(Found(f, type), i)]]

madt(f) == [core_count |-> Len(OfType(f, "lapic")),
            ioapic     |-> OfType(f, "ioapic"),
            iso        |-> OfType(f, "iso")]

NoApic == [core_count |-> 0, ioapic |-> <<>>, iso |-> <<>>]

\* irq_count is taken from the byte behind the select register, not from the
\* version register: `answer` is what the chip gives there.
irq_count(ioapic) == ioapic.answer + 1

find_ioapic(gsi) ==
    LET found == {i \in DOMAIN apic.ioapic :
                     /\ gsi >= apic.ioapic[i].base
                     /\ gsi < apic.ioapic[i].base + irq_count(apic.ioapic[i])}
    IN  IF found = {} THEN 0 ELSE Min(found)

\* register_ioapic: the last override of the irq wins.
gsi_of(irq) ==
    LET of == {i \in DOMAIN apic.iso : apic.iso[i].source = irq}
    IN  IF of = {} THEN irq ELSE apic.iso[Max(of)].gsi

vector(c) == Head(todo[c])[1]
chip(c)   == find_ioapic(gsi_of(Head(todo[c])[2]))
Flat_ioredtbl(c) == 16 + gsi_of(Head(todo[c])[2]) * 2
ioredtbl(c) == 16 + (gsi_of(Head(todo[c])[2]) - apic.ioapic[chip(c)].base) * 2
\* The identity goes to bits 32 and up; the destination is bits 56 to 63.
destination(c) == firmware.lapic_id[c] \div 2^24

RoutingInit ==
    /\ apic = NoApic /\ msr = {}
    /\ select = [i \in 1 .. CHIPS |-> 0]
    /\ redirection = [i \in 1 .. CHIPS |-> <<>>]

MADT == apic' = madt(firmware) /\ UNCHANGED <<select, redirection, msr>>

\* The select register of the core's chip is set to r.
Select(c, r) ==
    /\ select' = [select EXCEPT ![chip(c)] = r]
    /\ UNCHANGED <<apic, redirection, msr>>

\* The window writes whatever register is selected when it comes.
Window(c, value) ==
    /\ redirection' = [redirection EXCEPT ![chip(c)] =
           [r \in DOMAIN @ \cup {select[chip(c)]} |->
               IF r = select[chip(c)] THEN value ELSE @[r]]]
    /\ UNCHANGED <<apic, select, msr>>

\* enable reads, clears the mask in its copy and writes an MSR instead.
Stray(c) ==
    /\ msr' = msr \cup {<<chip(c) - 1, 16 + (vector(c) - 32) * 2>>}
    /\ UNCHANGED <<apic, select, redirection>>

Pop(c) == todo' = [todo EXCEPT ![c] = Tail(@)]
Go(c, next) == at' = [at EXCEPT ![c] = next]

(* One step of register_ioapic: find_ioapic, the four accesses of write, the
   two selects of read, the MSR write of enable. *)
Register(c) ==
    /\ todo[c] # <<>>
    /\ \/ at[c] = "route" /\ chip(c) = 0 /\ Pop(c) /\ UNCHANGED <<at, routing>>
       \/ /\ at[c] = "route" /\ chip(c) # 0
          /\ Select(c, ioredtbl(c)) /\ Go(c, "low") /\ UNCHANGED todo
       \/ at[c] = "low" /\ Window(c, vector(c)) /\ Go(c, "next") /\ UNCHANGED todo
       \/ at[c] = "next" /\ Select(c, ioredtbl(c) + 1) /\ Go(c, "high") /\ UNCHANGED todo
       \/ at[c] = "high" /\ Window(c, destination(c)) /\ Go(c, "enable") /\ UNCHANGED todo
       \/ at[c] = "enable" /\ Select(c, chip(c)) /\ Go(c, "again") /\ UNCHANGED todo
       \/ at[c] = "again" /\ Select(c, chip(c) - 1) /\ Go(c, "stray") /\ UNCHANGED todo
       \/ at[c] = "stray" /\ Stray(c) /\ Go(c, "route") /\ Pop(c)
-----------------------------------------------------------------------------
\* What the firmware says, read without the kernel's loop.
Listed(f, type) == {k \in DOMAIN f.entries : f.entries[k].type = type}
Says(type) == {firmware.entries[k] : k \in Listed(firmware, type)}

(* The kernel knows as many processors, I/O APICs and overrides as the table
   has: the loop misses none and, where nothing of a kept type begins in the
   44 bytes that it reads behind the table's end (Plausible), adds none. *)
TableIsReadExactly ==
    apic # NoApic =>
        /\ apic.core_count = Cardinality(Listed(firmware, "lapic"))
        /\ {<<e.base, e.answer>> : e \in Range(apic.ioapic)} = {<<e.base, e.answer>> : e \in Says("ioapic")}
        /\ {<<e.source, e.gsi>> : e \in Range(apic.iso)} = {<<e.source, e.gsi>> : e \in Says("iso")}

\* The interrupt a pin of a chip stands for, and the irq the table gives it.
Irq(gsi) == LET from == {e.source : e \in {o \in Says("iso") : o.gsi = gsi}}
            IN  IF from # {} THEN from
                ELSE IF \E o \in Says("iso") : o.source = gsi THEN {} ELSE {gsi}

Asked == {<<CLOCK, 0>>, <<APIC_ERROR, 124>>, <<APIC_SPURIOUS, 125>>, <<SYSCALL, 96>>}

(* The tables of which FirmwareIsObeyed speaks: entries have a length, and what
   begins in the HEADER bytes behind the table is none that the loop keeps,
   which nothing in the code sees to; Apic has room for the I/O APICs and the
   overrides; the chips have apart interrupts, no more than the select register
   can name; an irq has one override, and none leads to the pin of another irq
   that the kernel asks for. *)
Plausible(f) ==
    LET isos == Listed(f, "iso")  chips == Listed(f, "ioapic")
        Gsis(k) == f.entries[k].base .. f.entries[k].base + f.entries[k].answer
    IN
    /\ \A s \in {f.entries, f.beyond} : Len(s) \in Nat /\ s = [k \in 1 .. Len(s) |-> s[k]]
    /\ \A k \in DOMAIN Memory(f) : Memory(f)[k].length \in Nat \ {0}
    /\ \A k \in Visited(f) :
           k > Len(f.entries) => Memory(f)[k].type \notin {"lapic", "ioapic", "iso"}
    /\ Cardinality(chips) <= CHIPS /\ Cardinality(isos) <= 64
    /\ \A k \in chips : f.entries[k].base \in Nat /\ f.entries[k].answer \in 0 .. 119
    /\ \A k, j \in chips : k # j => Gsis(k) \cap Gsis(j) = {}
    /\ \A k \in isos : f.entries[k].source \in Nat /\ f.entries[k].gsi \in Nat
    /\ \A k, j \in isos : f.entries[k].source = f.entries[j].source => k = j
    /\ \A a \in Asked :
           (\E k \in isos : f.entries[k].source = a[2]) \/ (\A k \in isos : f.entries[k].gsi # a[2])
    /\ \A c \in Cores : f.lapic_id[c] \in 0 .. 2^24 - 1

\* Two cores besides the boot processor may register system calls at once.
Contended == \E c, d \in Cores \ {BSP} : c # d

\* The pin they then both write, which may get anything.
Loose(i, pin) == Contended /\ 96 \in Irq(apic.ioapic[i].base + pin)

\* The registers of chip i that are written: its pins', and, when the window of
\* one core finds the select that another one's enable left, those two.
Written(i) == (16 .. 16 + 2 * irq_count(apic.ioapic[i]) - 1) \cup (IF Contended THEN {i - 1, i} ELSE {})

(* While no core is about to write an entry, each pin delivers the vector that
   was registered for the irq the firmware puts there, and the rest are as
   they were reset: no request, and no other core's access to the pair of
   registers, has gone to another pin.  Cores that register system calls at
   once spoil the pin of system calls and the registers enable selects, and of
   those nothing is said; they spoil no other pin. *)
RoutesAreExact ==
    (\A c \in Cores : at[c] \notin {"low", "next", "high", "enable", "again", "stray"}) =>
    \A i \in DOMAIN apic.ioapic :
        /\ DOMAIN redirection[i] \subseteq Written(i)
        /\ \A pin \in 0 .. apic.ioapic[i].answer : ~Loose(i, pin) =>
               LET r == 16 + 2 * pin
                   for == {a \in Asked : a[2] \in Irq(apic.ioapic[i].base + pin)}
               IN  IF r \in DOMAIN redirection[i]
                   THEN \E a \in for : redirection[i][r] = a[1] /\ redirection[i][r + 1] = 0
                   ELSE at[BSP] = "run" => for = {}

\* What the kernel knows of the machine, and tells it, is what the firmware says.
FirmwareIsObeyed == TableIsReadExactly /\ RoutesAreExact
=============================================================================
