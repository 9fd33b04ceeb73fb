-------------------------------- MODULE Elf --------------------------------
(***************************************************************************)
(* load_elf_file: the pages that a module's segments are copied to, and    *)
(* what PCB's constructor maps of them.  Addresses count small units, PAGE *)
(* of them to a page; a file is a record of its magic, its entry and its   *)
(* program headers, whose contents are named by header and place.          *)
(***************************************************************************)
EXTENDS Integers, Sequences, FiniteSetsExt

CONSTANTS PAGE, TEXT_SEGMENT

ELF_MAGIC   == 1179403647
ELF_PT_LOAD == 1
Zero == <<0, 0>>

Loads(file) == {i \in DOMAIN file.headers : file.headers[i].p_type = ELF_PT_LOAD}
low_address(file)  == Min({file.headers[i].p_paddr : i \in Loads(file)})
high_address(file) == Max({file.headers[i].p_paddr + file.headers[i].p_memsz : i \in Loads(file)})
Short_page_count(file) == (high_address(file) - low_address(file)) \div PAGE
page_count(file)   == (high_address(file) - low_address(file)) \div PAGE + 1

\* memcpy of one segment, whose first byte goes to base + p_vaddr - low_address
Place(file, i) == file.headers[i].p_vaddr - low_address(file)
Bytes(file, i) == Place(file, i) .. Place(file, i) + file.headers[i].p_filesz - 1

check_elf_magic(file) == file.e_Magic = ELF_MAGIC

\* Of a file with another magic: no place, no length.
NoInformation == [memory |-> <<>>, outside |-> {}, length |-> 0, entry |-> 0]

\* The bytes from the first page on, and the ones written outside the pages.
Copy(file) ==
    LET pages   == 0 .. page_count(file) * PAGE - 1
        From(a) == {i \in Loads(file) : a \in Bytes(file, i)}
    IN  [memory  |-> [a \in pages |->
                         IF From(a) = {} THEN Zero
                         ELSE <<Max(From(a)), a - Place(file, Max(From(a)))>>],
         outside |-> (UNION {Bytes(file, i) : i \in Loads(file)}) \ pages,
         length  |-> high_address(file) - low_address(file),
         entry   |-> file.e_Entry - low_address(file)]

load_elf_file(file) == IF check_elf_magic(file) THEN Copy(file) ELSE NoInformation

\* PCB::PCB maps the whole pages that hold loadsegment_length bytes.
mapped(info)  == ((info.length + (PAGE - 1)) \div PAGE) * PAGE
rip(info)     == TEXT_SEGMENT + info.entry
Fetch(info, address) ==
    IF address - TEXT_SEGMENT \in 0 .. mapped(info) - 1 \cap DOMAIN info.memory
    THEN info.memory[address - TEXT_SEGMENT] ELSE Zero
-----------------------------------------------------------------------------
Segment(file, i) ==
    file.headers[i].p_vaddr .. file.headers[i].p_vaddr + file.headers[i].p_memsz - 1

\* What a linker writes: segments apart, to be loaded where they were linked
\* to, and no longer in the file than in memory.  load_elf_file checks none of it.
LaidOut(file) ==
    /\ Loads(file) # {} /\ file.headers = [i \in 1 .. Len(file.headers) |-> file.headers[i]]
    /\ Len(file.headers) \in Nat /\ file.e_Entry \in Nat
    /\ \A i \in Loads(file) :
          LET h == file.headers[i] IN
          /\ {h.p_vaddr, h.p_filesz, h.p_memsz} \subseteq Nat
          /\ h.p_paddr = h.p_vaddr /\ h.p_filesz <= h.p_memsz
    /\ \A i, j \in Loads(file) : i # j => Segment(file, i) \cap Segment(file, j) = {}

WellFormed(file) == check_elf_magic(file) => LaidOut(file)

\* What the headers say of a virtual address: a byte of the file, or zero up
\* to the segment's size in memory.
Said(file, v) ==
    LET in == {i \in Loads(file) : v \in Segment(file, i)}
    IN  IF in = {} THEN Zero
        ELSE LET i == Max(in)
                 k == v - file.headers[i].p_vaddr
             IN  IF k < file.headers[i].p_filesz THEN <<i, k>> ELSE Zero

Spans(file) == UNION {Segment(file, i) : i \in Loads(file)}

(* Every address of a segment, counted from the lowest, reads what the header
   says, none of the copy goes beside the pages, and the first instruction is
   the entry's. *)
Shows(file, info) ==
    /\ info.outside = {}
    /\ \A v \in Spans(file) :
           /\ v - low_address(file) < mapped(info)
           /\ Fetch(info, TEXT_SEGMENT + v - low_address(file)) = Said(file, v)
    /\ Fetch(info, rip(info)) = Said(file, file.e_Entry)

(* The new task sees the file's segments in its text segment, and nothing of
   what is no ELF file. *)
IsFile(file, info) == IF check_elf_magic(file) THEN Shows(file, info) ELSE mapped(info) = 0
=============================================================================
