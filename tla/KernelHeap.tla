----------------------------- MODULE KernelHeap -----------------------------
(***************************************************************************)
(* The kernel heap: slab caches over pages of 2 MiB (KernelHeap::allocator) *)
(* and the operators new and delete that hand its objects out.  A call of  *)
(* new or delete holds kheap_lock from beginning to end and is one step:   *)
(* the lock of allocator<void>, which is not that of the containers' other *)
(* instances (kheap.hpp:75), so they are no part of the model.             *)
(* A slab is named by its page; the page size, the object sizes, the word  *)
(* of a colour map and the size of a Slab are parameters.                  *)
(***************************************************************************)
EXTENDS Integers, Sequences, FiniteSets, SequencesExt

CONSTANTS
    Size,     \* cache_size: the object size of each cache, a sequence
    SMALL,    \* sizes up to this one keep their Slab inside the page
    PAGE,     \* __page_size__ of Type::P2Mib
    LIMIT,    \* the largest request, 1_MB in the code
    WORD,     \* the bits of a word of a colour map, 64 in the code
    BYTES,    \* its bytes, 8 in the code
    SLAB,     \* sizeof(Slab)
    Page,     \* what _allocate(1) of the page allocator may return
    Request,  \* the sizes that are asked for
    Null

Cache == DOMAIN Size

\* traversal_to_get_slab: the first cache whose objects are large enough.
CacheFor(n) == CHOOSE c \in Cache : Size[c] >= n /\ \A d \in 1 .. c - 1 : Size[d] < n

Small(c) == Size[c] <= SMALL

\* color_length: the bytes of a colour map of n slots.
Length(n) == ((n + WORD - 1) \div WORD) * BYTES

\* The bytes that a page with its own Slab sets apart for the colour map.
Reserved(c) == (PAGE \div Size[c]) \div 8

\* The Slab and the colour map of a slab of large objects are themselves
\* small objects: that is why growing nests once only.
ASSUME HeapAssumption ==
    /\ Size \in Seq(Nat \ {0}) /\ Size # <<>>
    /\ \A c, d \in Cache : c < d => Size[c] < Size[d]
    /\ {PAGE, WORD, BYTES, SLAB, SMALL, LIMIT} \subseteq Nat \ {0}
    /\ Size[Len(Size)] = LIMIT /\ \E c \in Cache : Size[c] = SMALL
    /\ SLAB <= SMALL /\ \A c \in Cache : SLAB + Reserved(c) <= PAGE
    /\ \A c \in Cache : Small(c) => Size[c] + SLAB + Reserved(c) <= PAGE
    /\ \A c \in Cache : PAGE % Size[c] = 0
    /\ \A c \in Cache : Small(c) \/ Length(PAGE \div Size[c]) <= SMALL
    /\ Page \subseteq Nat /\ IsFiniteSet(Page) /\ Cardinality(Page) >= Len(Size)
    /\ Request \subseteq Nat \ {0}
    /\ Null \notin Nat \X Nat

VARIABLES
    heap,   \* the slab caches, see Init
    held,   \* objects given by new and not given back: <<address, size>>
    meta,   \* slab -> the objects that are its Slab and its colour map
    lost,   \* objects given to the sized delete
    fault   \* a null pointer was followed: the lock stays taken

vars == <<heap, held, meta, lost, fault>>

-----------------------------------------------------------------------------
(* initialize *)

\* One slab for each cache, from the first pages there are.
Pool(c) == CHOOSE p \in Page : Cardinality({q \in Page : q < p}) = c - 1

FreshSlab(c, n, used, container) ==
    [cache |-> c, color_count |-> n, free_count |-> n, using_count |-> 0,
     color_map |-> used, container |-> container]

Init ==
    /\ heap = [slab |-> [s \in {Pool(c) : c \in Cache} |->
                            LET c == CHOOSE d \in Cache : Pool(d) = s IN
                            FreshSlab(c, PAGE \div Size[c], {}, TRUE)],
               pool_list |-> [c \in Cache |-> <<Pool(c)>>],
               total_free |-> [c \in Cache |-> PAGE \div Size[c]],
               total_using |-> [c \in Cache |-> 0],
               pages |-> Page \ {Pool(c) : c \in Cache}]
    /\ held = {} /\ lost = {} /\ fault = FALSE
    /\ meta = [s \in {} |-> {}]

-----------------------------------------------------------------------------
(* _allocate: what it makes of the heap and what it returns.  An answer is *)
(* a record; fault means that it followed a null pointer.                  *)

Answer(h, object, m) == [heap |-> h, object |-> object, meta |-> m, fault |-> FALSE]
Fault(h) == [Answer(h, Null, meta) EXCEPT !.fault = TRUE]

Clear(s) == (0 .. s.color_count - 1) \ s.color_map

\* Variant: the slot's bit is not set.
Blank_Colour(h, s, m) ==
    LET S == h.slab[s] IN
    IF Clear(S) = {} THEN Answer(h, Null, m)
    ELSE LET i == CHOOSE j \in Clear(S) : \A k \in Clear(S) : j <= k
         IN Answer([h EXCEPT !.slab[s].using_count = @ + 1, !.slab[s].free_count = @ - 1,
                             !.total_free[S.cache] = @ - 1, !.total_using[S.cache] = @ + 1],
                   <<s * PAGE + i * Size[S.cache], Size[S.cache]>>, m)

\* Variant: the slots of every cache lie as close as those of the first.
Close_Colour(h, s, m) ==
    LET S == h.slab[s] IN
    IF Clear(S) = {} THEN Answer(h, Null, m)
    ELSE LET i == CHOOSE j \in Clear(S) : \A k \in Clear(S) : j <= k
         IN Answer([h EXCEPT !.slab[s].color_map = @ \cup {i},
                             !.slab[s].using_count = @ + 1, !.slab[s].free_count = @ - 1,
                             !.total_free[S.cache] = @ - 1, !.total_using[S.cache] = @ + 1],
                   <<s * PAGE + i * Size[1], Size[S.cache]>>, m)

\* The first clear bit of the colour map, and the four counters with it.
Colour(h, s, m) ==
    LET S == h.slab[s] IN
    IF Clear(S) = {} THEN Answer(h, Null, m)
    ELSE LET i == CHOOSE j \in Clear(S) : \A k \in Clear(S) : j <= k
         IN Answer([h EXCEPT !.slab[s].color_map = @ \cup {i},
                             !.slab[s].using_count = @ + 1, !.slab[s].free_count = @ - 1,
                             !.total_free[S.cache] = @ - 1, !.total_using[S.cache] = @ + 1],
                   <<s * PAGE + i * Size[S.cache], Size[S.cache]>>, m)

\* Slabs that are listed, but whose node names no Slab: growing constructs
\* the node anew and does not set its container as initialize does.
Nameless(h, s) == ~ h.slab[s].container

\* The walk along pool_list stops at the first slab with a free slot, or
\* faults at a node without a container; without a stop it is cache_pool.
Walk(h, c, m) ==
    LET list == h.pool_list[c]
        stops == {k \in DOMAIN list : Nameless(h, list[k]) \/ h.slab[list[k]].free_count # 0}
        s == IF stops = {} THEN Pool(c) ELSE list[CHOOSE k \in stops : \A j \in stops : k <= j]
    IN IF Nameless(h, s) THEN Fault(h) ELSE Colour(h, s, m)

\* _allocate(1) of the page allocator: its first free page, not marked by
\* anything of the heap's.
Supply(h) == CHOOSE p \in h.pages : \A q \in h.pages : p <= q
Taken(h)  == [h EXCEPT !.pages = @ \ {Supply(h)}]

\* Puts a new slab before cache_pool and takes a slot of it.
Insert(h, s, S, m) ==
    LET c == S.cache
        list == h.pool_list[c]
        at == CHOOSE k \in DOMAIN list : list[k] = Pool(c)
    IN Colour([h EXCEPT !.slab = [q \in DOMAIN @ \cup {s} |-> IF q = s THEN S ELSE @[q]],
                        !.pool_list[c] = InsertAt(@, at, s),
                        !.total_free[c] = @ + S.color_count], s, m)

\* The slots of a slab whose Slab is in its page: the last division should
\* take in the whole sum, so nearly every byte counts as a slot.
SmallCount(c) == PAGE - Reserved(c) - SLAB \div Size[c]

\* The memory that the growth of a small cache writes for page s: the Slab and
\* the colour map, which is filled and cleared for all those slots.
Scribbled(s, c) ==
    <<s * PAGE + PAGE - Reserved(c) - SLAB, SLAB + Length(SmallCount(c))>>

\* Of that, what lies in the page and was meant.
Header(s, c) == <<Scribbled(s, c)[1], SLAB + Reserved(c)>>

\* The slabs that a growth made with a Slab in the page; none is given back.
GrownSmall(h) == {s \in DOMAIN h.slab : Nameless(h, s) /\ Small(h.slab[s].cache)}

AllocateSmall(h, c, m) ==
    IF h.total_free[c] # 0 THEN Walk(h, c, m)
    ELSE IF h.pages = {} THEN Answer(h, Null, m)
    ELSE Insert(Taken(h), Supply(h), FreshSlab(c, SmallCount(c), {}, FALSE), m)

\* The bits of a large slab's map after it was filled and then cleared slot
\* by slot, always in its first word: bit b is flipped once for each slot
\* of that place in a word.
LargeMap(n) ==
    {i \in 0 .. n - 1 : i >= WORD
                            \/ Cardinality({j \in 0 .. n - 1 : j % WORD = i}) % 2 = 0}

\* Growing a cache of large objects: the page, the Slab, its colour map.
GrowLarge(h, c, m) ==
    LET n == PAGE \div Size[c]
        p == Supply(h)
        a == AllocateSmall(Taken(h), CacheFor(SLAB), m)
        b == AllocateSmall(a.heap, CacheFor(Length(n)), m)
    IN IF h.pages = {} THEN Answer(h, Null, m)
       ELSE IF a.fault \/ a.object = Null \/ b.fault \/ b.object = Null THEN Fault(b.heap)
       ELSE Insert(b.heap, p, FreshSlab(c, n, LargeMap(n), FALSE),
                   [q \in DOMAIN m \cup {p} |-> IF q = p THEN {a.object, b.object} ELSE m[q]])

_allocate(h, n, m) ==
    LET c == CacheFor(n) IN
    IF n > LIMIT THEN Answer(h, Null, m)
    ELSE IF Small(c) THEN AllocateSmall(h, c, m)
    ELSE IF h.total_free[c] # 0 THEN Walk(h, c, m)
    ELSE GrowLarge(h, c, m)

-----------------------------------------------------------------------------
(* _deallocate *)

\* traversal_to_find_page_base looks at every slab of the caches in turn
\* until it meets the one of page s, and faults at a node without a container.
FindFaults(h, s) ==
    LET c == h.slab[s].cache
        at == CHOOSE k \in DOMAIN h.pool_list[c] : h.pool_list[c][k] = s
    IN \/ \E d \in 1 .. c - 1 : \E k \in DOMAIN h.pool_list[d] : Nameless(h, h.pool_list[d][k])
       \/ \E k \in 1 .. at : Nameless(h, h.pool_list[c][k])

Flip(S, i) == IF i \in S THEN S \ {i} ELSE S \cup {i}

\* Variant: the slot is looked up by the address and not by the offset.
Base_Uncolour(h, a) ==
    LET s == a \div PAGE
        c == h.slab[s].cache
    IN [h EXCEPT !.slab[s].color_map = Flip(@, a \div Size[c]),
                 !.slab[s].free_count = @ + 1, !.slab[s].using_count = @ - 1,
                 !.total_free[c] = @ + 1, !.total_using[c] = @ - 1]

\* Variant: the cache does not hear of the free slot.
Unheard_Uncolour(h, a) ==
    LET s == a \div PAGE
        c == h.slab[s].cache
    IN [h EXCEPT !.slab[s].color_map = Flip(@, (a - s * PAGE) \div Size[c]),
                 !.slab[s].free_count = @ + 1, !.slab[s].using_count = @ - 1]

\* Flips the bit of the slot at address a and moves the counters.
Uncolour(h, a) ==
    LET s == a \div PAGE
        c == h.slab[s].cache
    IN [h EXCEPT !.slab[s].color_map = Flip(@, (a - s * PAGE) \div Size[c]),
                 !.slab[s].using_count = @ - 1, !.slab[s].free_count = @ + 1,
                 !.total_free[c] = @ + 1, !.total_using[c] = @ - 1]

\* An empty slab goes back when its cache has plenty of free slots; the
\* slab of initialize never does.
GivesBack(h, s) ==
    LET S == h.slab[s] IN
    /\ S.using_count = 0 /\ s # Pool(S.cache)
    /\ h.total_free[S.cache] >= (S.color_count * 3) \div 2

Unlist(h, s) ==
    LET S == h.slab[s] IN
    [h EXCEPT !.slab = [q \in DOMAIN @ \ {s} |-> @[q]],
              !.pool_list[S.cache] = SelectSeq(@, LAMBDA q : q # s),
              !.total_free[S.cache] = @ - S.color_count, !.pages = @ \cup {s}]

\* Of an object whose slab keeps its Slab in the page; a page that is no
\* slab's is passed over.
DeallocateSmall(h, a) ==
    LET s == a \div PAGE
        u == Uncolour(h, a)
    IN IF s \notin DOMAIN h.slab THEN Answer(h, Null, meta)
       ELSE IF FindFaults(h, s) THEN Fault(h)
       ELSE Answer(IF GivesBack(u, s) THEN Unlist(u, s) ELSE u, Null, meta)

\* A large slab that goes back takes its colour map and its Slab with it.
_deallocate(h, a) ==
    LET s == a \div PAGE
        u == Uncolour(h, a)
        Back(r, o) == IF r.fault THEN r ELSE DeallocateSmall(r.heap, o[1])
    IN IF s \in DOMAIN h.slab /\ ~ FindFaults(h, s) /\ ~ Small(h.slab[s].cache) /\ GivesBack(u, s)
       THEN FoldSet(LAMBDA o, r : Back(r, o), Answer(Unlist(u, s), Null, meta), meta[s])
       ELSE DeallocateSmall(h, a)

-----------------------------------------------------------------------------
(* operator new, operator delete *)

new(n) ==
    /\ ~ fault
    /\ LET r == _allocate(heap, n, meta) IN
        /\ heap' = r.heap /\ meta' = r.meta /\ fault' = r.fault
        /\ held' = IF r.object = Null THEN held ELSE held \cup {r.object}
    /\ UNCHANGED lost

delete(o) ==
    /\ ~ fault
    /\ LET r == _deallocate(heap, o[1]) IN
        heap' = r.heap /\ fault' = r.fault
    /\ held' = held \ {o}
    /\ UNCHANGED <<meta, lost>>

\* The sized delete does nothing: the object is lost.
sized_delete(o) ==
    /\ ~ fault
    /\ held' = held \ {o} /\ lost' = lost \cup {o}
    /\ UNCHANGED <<heap, meta, fault>>

Next ==
    \/ \E n \in Request : new(n)
    \/ \E o \in held : delete(o)
    \/ \E o \in held : sized_delete(o)

Spec == Init /\ [][Next]_vars

-----------------------------------------------------------------------------
(* Properties *)

Slab == [cache : Cache, color_count : Nat, free_count : Nat, using_count : Nat,
         color_map : SUBSET Nat, container : BOOLEAN]

\* The types of the variables; no counter, unsigned in the code, wraps.
TypeOK ==
    /\ DOMAIN heap.slab \subseteq Page \ heap.pages
    /\ \A s \in DOMAIN heap.slab : heap.slab[s] \in Slab
    /\ heap.pool_list \in [Cache -> Seq(Page)]
    /\ heap.total_free \in [Cache -> Nat] /\ heap.total_using \in [Cache -> Nat]
    /\ held \cup lost \subseteq Nat \X Nat
    /\ DOMAIN meta \subseteq Page /\ fault \in BOOLEAN

Grown(c) == Len(heap.pool_list[c]) > 1
Metadata == UNION {meta[s] : s \in DOMAIN meta}
InUse == held \cup lost \cup Metadata

Apart(o, q) == o[1] + o[2] <= q[1] \/ q[1] + q[2] <= o[1]

Headers(h) == {Header(s, h.slab[s].cache) : s \in GrownSmall(h)}

\* No two objects share a byte, be they a client's or the Slab and map of a
\* large slab, nor an object and what the page of a grown small slab sets apart
\* for its own, and what the next request would be given is nobody's yet,
\* however allocations, releases and growths follow each other (kheap.hpp:130,
\* 154, 203, 206, 242).  What a growth writes behind its page is not spoken
\* of here, but in GrowthInPage.
ObjectsApart ==
    /\ \A o, q \in InUse : o # q => Apart(o, q)
    /\ \A o \in InUse, q \in Headers(heap) : Apart(o, q)
    /\ \A n \in Request :
          LET r == _allocate(heap, n, meta)
              given == ({r.object} \cup UNION {r.meta[p] : p \in DOMAIN r.meta \ DOMAIN meta})
                           \ {Null}
          IN fault \/ r.fault \/ \A o \in given, q \in InUse \cup Headers(r.heap) : Apart(o, q)

\* The growth of a small cache writes nothing outside its page.  It is so
\* neither in the code nor here (kheap.hpp:155, 162): HeapGrowth.cfg.
GrowthInPage ==
    \A s \in GrownSmall(heap) :
        LET w == Scribbled(s, heap.slab[s].cache) IN w[1] + w[2] <= (s + 1) * PAGE

\* While a cache has its first slab only, the set bits of that slab are the
\* slots in use and no others, and all four counters agree with them
\* (kheap.hpp:213-217, 242-246): nothing is lost but by the sized delete.
MapExact ==
    /\ TypeOK
    /\ \A c \in Cache : ~ Grown(c) /\ ~ fault =>
        LET S == heap.slab[Pool(c)]
            used == {(o[1] - Pool(c) * PAGE) \div Size[c] :
                        o \in {q \in InUse : q[1] \div PAGE = Pool(c)}}
        IN /\ S.color_map = used
           /\ S.using_count = Cardinality(used) /\ S.free_count = S.color_count - S.using_count
           /\ heap.total_using[c] = S.using_count /\ heap.total_free[c] = S.free_count

\* A null pointer is followed only once a cache has grown, whose new node
\* names no Slab (kheap.hpp:161, 185), or by a large cache that grows when no
\* page is left for its metadata (kheap.hpp:177).
FaultAfterGrowth ==
    fault => heap.pages = {} \/ \E c \in Cache : Grown(c)

\* What is small enough is refused only when no slab of its cache has a
\* clear bit left (kheap.hpp:129, 139, 206): the counters, which alone decide
\* between a walk and a growth, never hide a clear bit.  In the map of a grown
\* large slab a set bit need not be an object (kheap.hpp:188).
RefusesOnlyWhenFull ==
    fault \/ \A n \in Request :
        LET r == _allocate(heap, n, meta) IN
        n <= LIMIT /\ ~ r.fault /\ r.object = Null =>
            \A s \in DOMAIN heap.slab : heap.slab[s].cache = CacheFor(n) => Clear(heap.slab[s]) = {}

\* A request gets an object, but for a lack of slots or a cache that grew.
RequestsAreMet == RefusesOnlyWhenFull /\ FaultAfterGrowth

\* The heap implements what its clients rely on: the objects they hold.
O == INSTANCE Objects WITH Address <- {p * PAGE + i : p \in Page, i \in 0 .. PAGE - 1},
                           Size <- {Size[c] : c \in Cache}
ImplementsObjects == O!Spec
=============================================================================
