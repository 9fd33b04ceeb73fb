--------------------------- MODULE PageAllocator ---------------------------
(***************************************************************************)
(* The physical page allocator of one page size (Page::allocator<Type>):   *)
(* zones of PAGES pages with a bitmap each, arrays of zones ("zones") with  *)
(* a head, and the tree of all zones by their base.  Addresses are counted *)
(* in pages.  A call holds the page lock from beginning to end and is one  *)
(* step.                                                                   *)
(***************************************************************************)
EXTENDS Integers, FiniteSets

CONSTANTS
    PAGES,     \* page_descriptor_count: the pages of a zone
    WORD,      \* the bits of a word of its bitmap
    ZONES,     \* zones of the static array that initialize fills
    Map,       \* reserved entries of the memory map: <<start, end>>
    Bases,     \* what the allocator of the next size returns to a new array
    Sizes,     \* the page counts that are asked for
    Client,    \* who holds a block
    MaxCount,  \* bound on free_page, which can grow for ever
    None

Boot == {k * PAGES : k \in 0 .. ZONES - 1}

\* An entry begins in the static zones, and what of it goes past its zone is
\* written into the 48 bytes of padding behind the bitmap, 3/8 of its length:
\* a longer one would be written over the next zone's node.  A base is a
\* multiple of the next size's page, which is half a zone; what is asked for
\* is at most two zones, as in the kernel.
ASSUME PageAssumption ==
    /\ PAGES \in Nat \ {0} /\ WORD \in Nat \ {0} /\ ZONES \in Nat \ {0}
    /\ Map \subseteq Nat \X Nat
    /\ \A e \in Map :
          /\ e[1] < e[2] /\ e[1] < ZONES * PAGES
          /\ 8 * (e[2] - ((e[1] \div PAGES) * PAGES + PAGES)) <= 3 * PAGES
    /\ Bases \subseteq Nat
    /\ Sizes \subseteq 1 .. 2 * PAGES
    /\ MaxCount \in Nat
    /\ None \notin Nat \X Nat

Bit  == 0 .. PAGES - 1
Zone == Boot \cup Bases \cup {b + PAGES : b \in Bases}

VARIABLES
    zone_tree,   \* the keys of the tree: bases of the zones there are
    head,        \* those whose owner is null: the first of an array
    zone_count,  \* zone_count[h]: the zones of the array of h
    free_page,   \* free_page[h], as the head keeps it
    pages,       \* pages[z]: the bits that are set in z's bitmap
    held         \* held[c]: the block <<address, page_count>> c was given

vars == <<zone_tree, head, zone_count, free_page, pages, held>>

-----------------------------------------------------------------------------
(* The bitmap *)

\* The word of bit j has no clear bit: find passes over it.
FullWord(S, j) == \A k \in Bit : k \div WORD = j \div WORD => k \in S

\* Variant: the last bit is not looked at.
Short_Fits(S, n, s) ==
    \E e \in s .. PAGES - 2 :
        /\ {s, e} \cap S = {}
        /\ \A j \in s .. e : j \in S => FullWord(S, j)
        /\ Cardinality((s .. e) \ S) = n

\* n clear bits are counted from s on, without a set bit in between other
\* than those of full words, which do not end a run.
Fits(S, n, s) ==
    \E e \in s .. PAGES - 1 :
        /\ {s, e} \cap S = {}
        /\ \A j \in s .. e : j \in S => FullWord(S, j)
        /\ Cardinality((s .. e) \ S) = n

\* The first of S, as the member of a set: no member, no first.
Least(S) == {m \in S : \A k \in S : m <= k}

\* What find<false>(n) returns; empty for -1.
find(S, n) == Least({s \in Bit : Fits(S, n, s)})

\* count_from_high<false> and count_from_low<false>.
First(S) == CHOOSE m \in S : m \in Least(S)
ClearAtTop(S)    == First({k \in 0 .. PAGES : k = PAGES \/ PAGES - 1 - k \in S})
ClearAtBottom(S) == First({k \in 0 .. PAGES : k = PAGES \/ k \in S})

-----------------------------------------------------------------------------
(* initialize *)

\* Variant: the last page of an entry is left out.
Short_Marked(z) == {j \in Bit : \E e \in Map : e[1] \div PAGES = z \div PAGES
                                                  /\ z + j \in e[1] .. e[2] - 2}

\* The bits of zone z that the entries of the map set.  An entry is marked
\* in the zone it begins in; what goes past its bitmap is lost in the padding.
Marked(z) == {j \in Bit : \E e \in Map : e[1] \div PAGES = z \div PAGES
                                            /\ z + j \in e[1] .. e[2] - 1}

Init ==
    /\ zone_tree = Boot
    /\ head = {0}
    /\ zone_count = [z \in Zone |-> IF z = 0 THEN ZONES ELSE 0]
    /\ free_page = [z \in Zone |-> IF z = 0 THEN ZONES * PAGES ELSE 0]
    /\ pages = [z \in Zone |-> IF z \in Boot THEN Marked(z) ELSE {}]
    /\ held = [c \in Client |-> None]

-----------------------------------------------------------------------------
(* _allocate *)

\* The i-th zone of the array of h.
At(h, i) == h + i * PAGES
Index(h) == 0 .. zone_count[h] - 1

\* The zones of h that hold n pages on their own.
Single(h, n) == {i \in Index(h) : n <= PAGES /\ \E s \in Bit : Fits(pages[At(h, i)], n, s)}

\* The zones of h at whose top a block of n pages may begin.  Behind the
\* last zone there is no zone, and what is read there is anything.
Span(h, n, lucky) ==
    {i \in Index(h) :
        LET top == ClearAtTop(pages[At(h, i)]) IN
        /\ top # 0
        /\ i + (n - top + PAGES - 1) \div PAGES <= zone_count[h]
        /\ IF i + 1 = zone_count[h] THEN h \in lucky
           ELSE ClearAtBottom(pages[At(h, i + 1)]) >= (n - top) % PAGES}

\* The arrays that can serve n, in the order of the tree the first is taken.
Able(n, lucky) ==
    {h \in head : free_page[h] >= n /\ (Single(h, n) # {} \/ Span(h, n, lucky) # {})}

\* Only the head's count is ever read.
Taken(h, i, n) ==
    free_page' = IF i = 0 THEN [free_page EXCEPT ![h] = @ - n] ELSE free_page

\* Variants: the bits are not set; one too many is.
Unset_AllocateInZone(c, n) ==
    /\ held[c] = None
    /\ \E lucky \in SUBSET head : \E h \in Least(Able(n, lucky)) :
       \E i \in Least(Single(h, n)) : \E s \in find(pages[At(h, i)], n) :
          /\ Taken(h, i, n)
          /\ held' = [held EXCEPT ![c] = <<At(h, i) + s, n>>]
    /\ UNCHANGED <<zone_tree, head, zone_count, pages>>
Long_AllocateInZone(c, n) ==
    /\ held[c] = None
    /\ \E lucky \in SUBSET head : \E h \in Least(Able(n, lucky)) :
       \E i \in Least(Single(h, n)) : \E s \in find(pages[At(h, i)], n) :
          /\ pages' = [pages EXCEPT ![At(h, i)] = @ \cup (s .. s + n)]
          /\ Taken(h, i, n)
          /\ held' = [held EXCEPT ![c] = <<At(h, i) + s, n>>]
    /\ UNCHANGED <<zone_tree, head, zone_count>>

AllocateInZone(c, n) ==
    /\ held[c] = None
    /\ \E lucky \in SUBSET head : \E h \in Least(Able(n, lucky)) :
       \E i \in Least(Single(h, n)) : \E s \in find(pages[At(h, i)], n) :
          /\ pages' = [pages EXCEPT ![At(h, i)] = @ \cup (s .. s + n - 1)]
          /\ Taken(h, i, n)
          /\ held' = [held EXCEPT ![c] = <<At(h, i) + s, n>>]
    /\ UNCHANGED <<zone_tree, head, zone_count>>

\* Variant: the tail is not marked.
Tailless_AllocateSpan(c, n) ==
    /\ held[c] = None
    /\ \E lucky \in SUBSET head : \E h \in Least(Able(n, lucky)) :
       \E i \in Least(Span(h, n, lucky)) :
          LET top == ClearAtTop(pages[At(h, i)]) IN
          /\ Single(h, n) = {}
          /\ pages' = [pages EXCEPT ![At(h, i)] = @ \cup (PAGES - top .. PAGES - 1)]
          /\ Taken(h, i, n)
          /\ held' = [held EXCEPT ![c] = <<At(h, i) + PAGES - top, n>>]
    /\ UNCHANGED <<zone_tree, head, zone_count>>

\* Head and tail of the block; a trunk of whole zones is not marked, nor
\* what is behind the last zone.
AllocateSpan(c, n) ==
    /\ held[c] = None
    /\ \E lucky \in SUBSET head : \E h \in Least(Able(n, lucky)) :
       \E i \in Least(Span(h, n, lucky)) :
          LET top == ClearAtTop(pages[At(h, i)])
              set == [pages EXCEPT ![At(h, i)] = @ \cup (PAGES - top .. PAGES - 1)]
          IN
          /\ Single(h, n) = {}
          /\ pages' = IF i + 1 = zone_count[h] THEN set
                      ELSE [set EXCEPT ![At(h, i + 1)] =
                                @ \cup (0 .. ((n - top) % PAGES) - 1)]
          /\ Taken(h, i, n)
          /\ held' = [held EXCEPT ![c] = <<At(h, i) + PAGES - top, n>>]
    /\ UNCHANGED <<zone_tree, head, zone_count>>

ZonesFor(n) == (n + PAGES - 1) \div PAGES
NewZones(b, n) == {b + k * PAGES : k \in 0 .. ZonesFor(n) - 1}
Apart(y, z) == y + PAGES <= z \/ z + PAGES <= y

\* Variant: the block that made the array grow is not marked in it.
Unmarked_Grow(c, n) ==
    /\ held[c] = None
    /\ \E lucky \in SUBSET head : Able(n, lucky) = {}
    /\ \E b \in Bases :
        /\ \A y \in NewZones(b, n) : \A z \in zone_tree : Apart(y, z)
        /\ zone_tree' = zone_tree \cup NewZones(b, n)
        /\ head' = head \cup {b}
        /\ zone_count' = [zone_count EXCEPT ![b] = ZonesFor(n)]
        /\ free_page' = [free_page EXCEPT ![b] = ZonesFor(n) * PAGES - n]
        /\ held' = [held EXCEPT ![c] = <<b, n>>]
    /\ UNCHANGED pages

\* A new array for n pages, on memory that the next allocator gives.  That it
\* gives none which is in a zone already is what NoOverlap says of it.
Grow(c, n) ==
    /\ held[c] = None
    /\ \E lucky \in SUBSET head : Able(n, lucky) = {}
    /\ \E b \in Bases :
        /\ \A y \in NewZones(b, n) : \A z \in zone_tree : Apart(y, z)
        /\ zone_tree' = zone_tree \cup NewZones(b, n)
        /\ head' = head \cup {b}
        /\ zone_count' = [zone_count EXCEPT ![b] = ZonesFor(n)]
        /\ free_page' = [free_page EXCEPT ![b] = ZonesFor(n) * PAGES - n]
        /\ pages' = [z \in Zone |->
                        IF z \notin NewZones(b, n) THEN pages[z]
                        ELSE IF z = b + (ZonesFor(n) - 1) * PAGES THEN 0 .. (n % PAGES) - 1
                        ELSE Bit]
        /\ held' = [held EXCEPT ![c] = <<b, n>>]

-----------------------------------------------------------------------------
(* _deallocate *)

\* The zone whose base is the address rounded down to a multiple of the size
\* of a zone, if there is one with that base.
Masked(a) == a - (a % PAGES)

\* The head of the array that zone z is in, and its zones.
Owner(z)   == CHOOSE h \in head : z \in {At(h, i) : i \in Index(h)}
ArrayOf(z) == {At(Owner(z), i) : i \in Index(Owner(z))}

\* Variant: the count is not moved.
Ungiven(z, n) == UNCHANGED free_page

\* free_page of zone z, which is read only if z is a head, becomes n more.
Given(z, n) ==
    /\ z \in head => free_page[z] + n <= MaxCount
    /\ free_page' = IF z \in head THEN [free_page EXCEPT ![z] = @ + n] ELSE free_page

\* Variant: the bits stay set.
Kept_DeallocateInZone(c) ==
    LET a == held[c][1]  n == held[c][2] IN
    /\ held[c] # None
    /\ Masked(a) \in zone_tree
    /\ (a % PAGES) + n <= PAGES
    /\ Given(Masked(a), n)
    /\ held' = [held EXCEPT ![c] = None]
    /\ UNCHANGED <<zone_tree, head, zone_count, pages>>

DeallocateInZone(c) ==
    LET a == held[c][1]  n == held[c][2] IN
    /\ held[c] # None
    /\ Masked(a) \in zone_tree
    /\ (a % PAGES) + n <= PAGES
    /\ pages' = [pages EXCEPT ![Masked(a)] = @ \ (a % PAGES .. (a % PAGES) + n - 1)]
    /\ Given(Masked(a), n)
    /\ held' = [held EXCEPT ![c] = None]
    /\ UNCHANGED <<zone_tree, head, zone_count>>

\* Variant: only the first zone's part is given back.
Headonly_DeallocateSpan(c) ==
    LET a == held[c][1]  n == held[c][2]  z == Masked(a) IN
    /\ held[c] # None
    /\ z \in zone_tree
    /\ (a % PAGES) + n > PAGES
    /\ pages' = [pages EXCEPT ![z] = @ \ (a % PAGES .. PAGES - 1)]
    /\ Given(Owner(z), n)
    /\ held' = [held EXCEPT ![c] = None]
    /\ UNCHANGED <<zone_tree, head, zone_count>>

\* Behind the last zone of its array the rest is cleared where no zone is.
DeallocateSpan(c) ==
    LET a == held[c][1]  n == held[c][2]
        z == Masked(a)
        rest == n - (PAGES - (a % PAGES))
        cleared == [pages EXCEPT ![z] = @ \ (a % PAGES .. PAGES - 1)]
    IN
    /\ held[c] # None
    /\ z \in zone_tree
    /\ (a % PAGES) + n > PAGES
    /\ pages' = IF z + PAGES \in ArrayOf(z)
                THEN [cleared EXCEPT ![z + PAGES] = @ \ (0 .. (rest % PAGES) - 1)]
                ELSE cleared
    /\ Given(Owner(z), n)
    /\ held' = [held EXCEPT ![c] = None]
    /\ UNCHANGED <<zone_tree, head, zone_count>>

\* No zone has that base: nothing is done.
DeallocateNothing(c) ==
    /\ held[c] # None
    /\ Masked(held[c][1]) \notin zone_tree
    /\ held' = [held EXCEPT ![c] = None]
    /\ UNCHANGED <<zone_tree, head, zone_count, free_page, pages>>

-----------------------------------------------------------------------------
(* Specification *)

Allocate(c)   == \E n \in Sizes : AllocateInZone(c, n) \/ AllocateSpan(c, n) \/ Grow(c, n)
Deallocate(c) == DeallocateInZone(c) \/ DeallocateSpan(c) \/ DeallocateNothing(c)

Next == \E c \in Client : Allocate(c) \/ Deallocate(c)
Spec == Init /\ [][Next]_vars

\* The kernel while nothing is given back, as during its boot.
BootNext == \E c \in Client : Allocate(c)
BootSpec == Init /\ [][BootNext]_vars

-----------------------------------------------------------------------------
(* Properties *)

TypeOK ==
    /\ zone_tree \in SUBSET Zone
    /\ head \in SUBSET zone_tree
    /\ zone_count \in [Zone -> Nat]
    /\ free_page \in [Zone -> Nat]
    /\ pages \in [Zone -> SUBSET Bit]
    /\ held \in [Client -> (Nat \X Nat) \cup {None}]

Block(c) == IF held[c] = None THEN {} ELSE held[c][1] .. held[c][1] + held[c][2] - 1

\* No page is given to two clients, however allocations, releases and new
\* zones follow on one another.
NoOverlap == \A c, d \in Client : c # d => Block(c) \cap Block(d) = {}

\* Every page a client holds is in a zone of the tree and is marked there:
\* no later call can give it away, and no release clears another's bit.
HeldMarked ==
    \A c \in Client : \A p \in Block(c) :
        \E z \in zone_tree : p - z \in Bit /\ p - z \in pages[z]

\* No page the memory map reserves is given to a client.
ReservedSafe ==
    \A c \in Client : \A e \in Map : Block(c) \cap (e[1] .. e[2] - 1) = {}

\* In the zones that _deallocate finds, a page is marked only if somebody
\* has a use for it.
NothingLeaks ==
    \A z \in zone_tree : z % PAGES = 0 =>
        \A j \in pages[z] : \/ \E c \in Client : z + j \in Block(c)
                            \/ \E e \in Map : z + j \in e[1] .. e[2] - 1

\* The head's free_page, kept for the whole array but moved only by some of
\* the allocations from it, never turns away what the array could serve.
CountNeverShort ==
    \A h \in head :
        LET clear == UNION {{At(h, i) + j : j \in Bit \ pages[At(h, i)]} : i \in Index(h)}
        IN free_page[h] >= Cardinality(clear)

\* New memory is taken only if no zone has the pages: the search of the
\* tree misses none.
GrowsOnlyWhenFull ==
    [][zone_tree' # zone_tree =>
          \E c \in Client : \E n \in Sizes :
              /\ held[c] = None /\ held'[c] # None /\ held'[c][2] = n
              /\ \A z \in zone_tree : \A s \in Bit :
                    ~(s + n <= PAGES /\ (s .. s + n - 1) \cap pages[z] = {})]_vars

-----------------------------------------------------------------------------
(* Where the allocator goes wrong *)

\* A run that find reports for n pages is clear: no full word lies in it.
SearchIsRight(n) ==
    \A z \in zone_tree : \A s \in find(pages[z], n) :
        s + n <= PAGES /\ (s .. s + n - 1) \cap pages[z] = {}

\* A block that no zone of an array holds on its own lies in two of its zones.
SpanIsRight(n) ==
    \A h \in head : free_page[h] >= n /\ Single(h, n) = {} =>
        \A i \in Least(Span(h, n, head)) :
            i + 1 < zone_count[h] /\ n - ClearAtTop(pages[At(h, i)]) < PAGES

\* The request that a step serves, if it serves one, is served rightly.
Sound ==
    \A c \in Client : held[c] = None /\ held'[c] # None =>
        SearchIsRight(held'[c][2]) /\ SpanIsRight(held'[c][2])

\* Every step is sound.
AllSound == [][Sound]_vars

\* The allocator for as long as that is so.
SoundSpec == Init /\ [][Next /\ Sound]_vars

-----------------------------------------------------------------------------
(* What comments say of the allocator, and the code refutes *)

\* "Is there free room in each zone of the group" (page.hpp:124): the room
\* that find reports is free.
RoomIsFree == NoOverlap
=============================================================================
