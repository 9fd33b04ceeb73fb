----------------------------- MODULE HeapProofs -----------------------------
(***************************************************************************)
(* The kernel heap, for any sizes, pages and requests.  The invariant is   *)
(* stated of a heap and a set of objects, so that it holds of the heap in  *)
(* the middle of a growth, which allocates twice, as well as between calls. *)
(***************************************************************************)
EXTENDS KernelHeap, TLAPS, WellFoundedInduction, FiniteSetTheorems

Top(h, c) == h.slab[Pool(c)]

Longer(h, c) == Len(h.pool_list[c]) > 1

Typed(h) ==
    /\ h = [slab |-> h.slab, pool_list |-> h.pool_list, total_free |-> h.total_free,
            total_using |-> h.total_using, pages |-> h.pages]
    /\ h.pages \subseteq Page /\ DOMAIN h.slab \subseteq Page \ h.pages
    /\ h.slab \in [DOMAIN h.slab -> Slab]
    /\ h.pool_list \in [Cache -> Seq(Page)]
    /\ h.total_free \in [Cache -> Nat] /\ h.total_using \in [Cache -> Nat]

\* The slab of initialize: its counters count its map.
PoolsAgree(h) ==
    \A c \in Cache :
        LET S == Top(h, c) IN
        /\ Pool(c) \in DOMAIN h.slab
        /\ S.cache = c /\ S.container /\ S.color_count = PAGE \div Size[c]
        /\ S.color_map \subseteq 0 .. S.color_count - 1
        /\ S.using_count = Cardinality(S.color_map)
        /\ S.free_count = S.color_count - S.using_count

\* It ends the list, and whatever was inserted before it has no container.
PoolsAreLast(h) ==
    \A c \in Cache :
        LET list == h.pool_list[c] IN
        /\ Len(list) > 0 /\ list[Len(list)] = Pool(c)
        /\ Longer(h, c) => list[1] \in DOMAIN h.slab /\ Nameless(h, list[1])

SlabsAreListed(h) ==
    \A s \in DOMAIN h.slab :
        LET c == h.slab[s].cache IN
        /\ \E k \in DOMAIN h.pool_list[c] : h.pool_list[c][k] = s
        /\ ~ Nameless(h, s) => s = Pool(c)

TotalsAgree(h) ==
    \A c \in Cache : ~ Longer(h, c) =>
        h.total_free[c] = Top(h, c).free_count /\ h.total_using[c] = Top(h, c).using_count

NothingHidden(h) ==
    \A s \in DOMAIN h.slab : h.total_free[h.slab[s].cache] = 0 => Clear(h.slab[s]) = {}

\* The slot i of slab s.
Slot(h, s, i) == LET z == Size[h.slab[s].cache] IN <<s * PAGE + i * z, z>>

Placed(h, U) ==
    \A o \in U : \E s \in DOMAIN h.slab : \E i \in h.slab[s].color_map :
        o = Slot(h, s, i) /\ (i + 1) * Size[h.slab[s].cache] <= PAGE

Sound(h, U) ==
    /\ Typed(h) /\ PoolsAgree(h) /\ PoolsAreLast(h) /\ SlabsAreListed(h)
    /\ TotalsAgree(h) /\ NothingHidden(h) /\ Placed(h, U)

\* A set bit of the slab of initialize is an object.
Exact(h, U) == \A c \in Cache : \A i \in Top(h, c).color_map : Slot(h, Pool(c), i) \in U

Disjoint ==
    held \cap lost = {} /\ held \cap Metadata = {} /\ lost \cap Metadata = {}

IInv ==
    /\ Sound(heap, InUse) /\ (fault \/ Exact(heap, InUse))
    /\ Disjoint /\ DOMAIN meta \subseteq DOMAIN heap.slab /\ fault \in BOOLEAN
    /\ FaultAfterGrowth

-----------------------------------------------------------------------------
(* Numbers *)

\* What is less than a divisor does not change the quotient.
LEMMA Quotient ==
  ASSUME NEW P \in Nat \ {0}, NEW a \in Nat, NEW r \in 0 .. P - 1
  PROVE  (a * P + r) \div P = a
<1> DEFINE q == (a * P + r) \div P
<1>1. a * P \in Nat
  OBVIOUS
<1>2. q \in Int /\ q * P <= a * P + r /\ a * P + r < q * P + P
  BY <1>1, SMT
<1> HIDE DEF q
<1>3. CASE q < a
  <2>1. (q + 1) * P <= a * P
    BY <1>2, <1>3, SMT
  <2>2. QED BY <1>1, <1>2, <2>1, SMT
<1>4. CASE q > a
  <2>1. (a + 1) * P <= q * P
    BY <1>2, <1>4, SMT
  <2>2. QED BY <1>1, <1>2, <2>1, SMT
<1> QED BY <1>2, <1>3, <1>4 DEF q

LEMMA Exactly ==
  ASSUME NEW z \in Nat \ {0}, NEW i \in Nat
  PROVE  (i * z) \div z = i
<1>1. (i * z + 0) \div z = i
  BY Quotient
<1>2. QED BY <1>1

LEMMA Divides ==
  ASSUME NEW P \in Nat \ {0}, NEW z \in Nat \ {0}, P % z = 0
  PROVE  P \div z \in Nat \ {0} /\ (P \div z) * z = P
<1>1. P \div z \in Int /\ P = z * (P \div z) + (P % z)
  OBVIOUS
<1> DEFINE q == P \div z
<1>2. q * z = P
  BY <1>1
<1> HIDE DEF q
<1>3. q \in Int
  BY <1>1 DEF q
<1>4. q > 0
  <2>1. CASE q <= 0
    <3>1. q * z <= 0
      BY <1>3, <2>1
    <3>2. QED BY <1>2, <3>1
  <2>2. QED BY <1>3, <2>1
<1>5. QED BY <1>2, <1>3, <1>4 DEF q

\* The slots of a size that fit in a page lie in it, one after the other.
Lies(P, z, s, i) ==
    /\ i * z \in 0 .. P - 1 /\ s * P + i * z \in Nat
    /\ s * P <= s * P + i * z /\ s * P + i * z + z <= (s + 1) * P
    /\ (s * P + i * z) \div P = s
    /\ (s * P + i * z - s * P) \div z = i

LEMMA Inside ==
  ASSUME NEW P \in Nat, P > 0, NEW z \in Nat, z > 0, NEW s \in Nat, NEW i \in Nat, (i + 1) * z <= P
  PROVE  Lies(P, z, s, i)
<1>1. i * z \in Nat /\ s * P \in Nat /\ i * z + z = (i + 1) * z /\ (s + 1) * P = s * P + P
  OBVIOUS
<1> DEFINE r == i * z
<1>2. r \in 0 .. P - 1
  BY <1>1
<1>3. (s * P + r) \div P = s
  BY <1>2, Quotient
<1>4. s * P + i * z - s * P = i * z
  BY <1>1
<1>5. (i * z) \div z = i
  BY Exactly
<1>6. QED BY <1>1, <1>2, <1>3, <1>4, <1>5 DEF Lies

LEMMA InOrder ==
  ASSUME NEW P \in Nat, NEW i \in Nat, NEW j \in Nat, i < j
  PROVE  i * P + P <= j * P
<1>1. (j - i - 1) * P >= 0
  OBVIOUS
<1>2. QED BY <1>1

LEMMA FitsBelow ==
  ASSUME NEW n \in Nat, NEW z \in Nat, NEW i \in Nat, i < n
  PROVE  (i + 1) * z <= n * z
<1>1. i * z + z <= n * z /\ (i + 1) * z = i * z + z
  BY InOrder
<1>2. QED BY <1>1

LEMMA Later ==
  ASSUME NEW P \in Nat, NEW z \in Nat, NEW y \in Nat,
         NEW s \in Nat, NEW i \in Nat, NEW t \in Nat, NEW j \in Nat,
         (i + 1) * z <= P, s < t \/ (s = t /\ i < j /\ z = y)
  PROVE  s * P + i * z + z <= t * P + j * y
<1>1. i * z \in Nat /\ j * y \in Nat /\ s * P \in Nat /\ t * P \in Nat
  OBVIOUS
<1>2. CASE s < t
  <2>1. s * P + P <= t * P
    BY <1>2, InOrder
  <2>2. i * z + z <= P
    OBVIOUS
  <2>3. QED BY <1>1, <2>1, <2>2
<1>3. CASE s = t /\ i < j /\ z = y
  <2>1. i * z + z <= j * z
    BY <1>3, InOrder
  <2>2. QED BY <1>1, <1>3, <2>1
<1>4. QED BY <1>2, <1>3

\* Every set of numbers has a least one.
Less == {p \in Nat \X Nat : p[1] < p[2]}
LEMMA LessWF == IsWellFoundedOn(Less, Nat)
<1>1. Less = OpToRel(<, Nat)
  BY DEF Less, OpToRel
<1> QED
  BY <1>1, NatLessThanWellFounded DEF Less, OpToRel

LEMMA LeastNat ==
  ASSUME NEW T \in SUBSET Nat, T # {}
  PROVE  \E x \in T : \A y \in T : x <= y
<1>1. PICK x \in T : \A y \in T : ~ (<<y, x>> \in Less)
  BY LessWF, WFMin
<1>2. \A y \in T : ~ (y < x)
  BY <1>1 DEF Less
<1> QED
  BY <1>1, <1>2

\* The k-th page, in ascending order: there are as many as there are pages.
Below(p) == {q \in Page : q < p}

LEMMA Ranked ==
  ASSUME HeapAssumption, NEW k \in Nat, k < Cardinality(Page)
  PROVE  \E p \in Page : Cardinality(Below(p)) = k
<1>1. Page \subseteq Nat /\ IsFiniteSet(Page) /\ Cardinality(Page) \in Nat
  BY FS_CardinalityType DEF HeapAssumption
<1> DEFINE Bad == {j \in Nat : j < Cardinality(Page) /\ ~ \E p \in Page : Cardinality(Below(p)) = j}
<1>2. SUFFICES ASSUME Bad # {} PROVE FALSE
  OBVIOUS
<1>3. PICK j \in Bad : \A i \in Bad : j <= i
  BY <1>2, LeastNat
<1>4. j \in Nat /\ j < Cardinality(Page) /\ \A p \in Page : Cardinality(Below(p)) # j
  BY <1>3
<1>5. CASE j = 0
  <2>1. Page # {}
    BY <1>4, FS_EmptySet, SMTT(40)
  <2>2. PICK p \in Page : \A q \in Page : p <= q
    BY <1>1, <2>1, LeastNat
  <2>3. Below(p) = {}
    <3>1. \A q \in Page : p \in Nat /\ q \in Nat /\ p <= q
      BY <1>1, <2>2
    <3>2. \A q \in Page : ~ (q < p)
      BY <3>1
    <3>3. QED BY <3>2 DEF Below
  <2>4. QED BY <1>4, <1>5, <2>3, FS_EmptySet
<1>6. CASE j # 0
  <2>1. j - 1 \in Nat /\ j - 1 < Cardinality(Page) /\ j - 1 \notin Bad
    BY <1>1, <1>3, <1>4, <1>6
  <2>2. PICK p \in Page : Cardinality(Below(p)) = j - 1
    BY <2>1
  <2> DEFINE B == Below(p) \cup {p}
  <2>3. IsFiniteSet(Below(p)) /\ p \notin Below(p) /\ B \subseteq Page
    BY <1>1, FS_Subset DEF Below
  <2>4. Cardinality(B) = Cardinality(Below(p)) + 1
    BY <2>3, FS_AddElement
  <2>5. Cardinality(B) = j
    BY <1>4, <2>2, <2>4
  <2>6. Page \ B # {}
    <3>1. B = Page => Cardinality(Page) = j
      BY <2>5, Zenon
    <3>2. B # Page
      BY <1>4, <3>1
    <3>3. QED BY <2>3, <3>2
  <2>7. PICK r \in Page \ B : \A q \in Page \ B : r <= q
    BY <1>1, <2>6, LeastNat
  <2>8. Below(r) = B
    <3>1. p \in Nat /\ r \in Nat /\ Page \subseteq Nat /\ ~ (r < p) /\ r # p
      BY <1>1, <2>7 DEF Below
    <3>2. ASSUME NEW q \in Page PROVE q < r <=> q \in B
      <4>1. q \in B <=> q <= p
        BY <3>1 DEF Below
      <4>2. q \notin B => r <= q
        BY <2>7
      <4>3. QED BY <3>1, <4>1, <4>2
    <3>3. QED BY <2>3, <3>2 DEF Below
  <2>9. QED BY <1>4, <2>5, <2>7, <2>8
<1>7. QED BY <1>5, <1>6

\* The caches have pages of their own.
LEMMA Pools ==
  ASSUME HeapAssumption
  PROVE  /\ \A c \in Cache : Pool(c) \in Page
         /\ \A c, d \in Cache : Pool(c) = Pool(d) => c = d
<1>1. Cache = 1 .. Len(Size) /\ Len(Size) \in Nat /\ Cardinality(Page) \in Nat
  BY FS_CardinalityType DEF HeapAssumption, Cache
<1>2. ASSUME NEW c \in Cache
      PROVE  Pool(c) \in Page /\ Cardinality(Below(Pool(c))) = c - 1
  <2>1. c - 1 \in Nat /\ c - 1 < Cardinality(Page)
    BY <1>1 DEF HeapAssumption
  <2>2. \E p \in Page : Cardinality(Below(p)) = c - 1
    BY <2>1, Ranked
  <2>3. QED BY <2>2 DEF Pool, Below
<1>3. \A c, d \in Cache : c - 1 = d - 1 => c = d
  BY <1>1
<1>4. QED BY <1>2, <1>3

LEMMA Sizes ==
  ASSUME HeapAssumption
  PROVE  /\ Cache = 1 .. Len(Size) /\ Len(Size) \in Nat \ {0}
         /\ Size \in [Cache -> Nat \ {0}] /\ Cache \subseteq Nat
         /\ PAGE \in Nat \ {0} /\ Page \subseteq Nat
  BY DEF HeapAssumption, Cache

LEMMA Counts ==
  ASSUME HeapAssumption, NEW c \in Cache
  PROVE  PAGE \div Size[c] \in Nat \ {0} /\ (PAGE \div Size[c]) * Size[c] = PAGE
<1>1. PAGE % Size[c] = 0
  BY DEF HeapAssumption
<1>2. PAGE \in Nat \ {0} /\ Size[c] \in Nat \ {0}
  BY Sizes
<1>3. QED BY <1>1, <1>2, Divides

\* The first cache that is large enough.
LEMMA CacheOf ==
  ASSUME HeapAssumption, NEW n \in Nat, n <= LIMIT
  PROVE  CacheFor(n) \in Cache /\ Size[CacheFor(n)] >= n
<1> DEFINE Large == {c \in Cache : Size[c] >= n}
<1>1. Len(Size) \in Large
  BY Sizes DEF HeapAssumption
<1>2. PICK c \in Large : \A d \in Large : c <= d
  BY <1>1, Sizes, LeastNat
<1>3. ASSUME NEW d \in 1 .. c - 1 PROVE Size[d] < n
  <2>1. d \in Cache /\ ~ (c <= d)
    <3>1. c \in 1 .. Len(Size) /\ Len(Size) \in Nat /\ Cache = 1 .. Len(Size)
      BY <1>2, Sizes
    <3>2. QED BY <3>1
  <2>2. d \notin Large
    BY <1>2, <2>1
  <2>3. Size[d] \in Nat /\ ~ (Size[d] >= n)
    BY <2>1, <2>2, Sizes
  <2>4. QED BY <2>3
<1>4. \E e \in Cache : Size[e] >= n /\ \A d \in 1 .. e - 1 : Size[d] < n
  BY <1>2, <1>3
<1>5. QED BY <1>4 DEF CacheFor

LEMMA Within ==
  ASSUME HeapAssumption
  PROVE  SMALL \in Nat /\ SLAB \in Nat /\ SLAB <= LIMIT /\ SMALL <= LIMIT
<1>1. PICK c \in Cache : Size[c] = SMALL
  BY DEF HeapAssumption
<1>2. c <= Len(Size) /\ c \in Cache /\ Len(Size) \in Cache
  <2>1. c \in 1 .. Len(Size) /\ Len(Size) \in Nat \ {0} /\ Cache = 1 .. Len(Size)
    BY Sizes
  <2>2. QED BY <2>1
<1>3. Size[c] <= Size[Len(Size)]
  <2>1. CASE c = Len(Size)
    BY <2>1, <1>2, Sizes
  <2>2. CASE c < Len(Size)
    <3>1. Size[c] < Size[Len(Size)]
      BY <1>2, <2>2 DEF HeapAssumption
    <3>2. Size[c] \in Nat /\ Size[Len(Size)] \in Nat
      BY <1>2, Sizes
    <3>3. QED BY <3>1, <3>2
  <2>3. c \in Int /\ Len(Size) \in Int
    BY <1>2, Sizes
  <2>4. QED BY <1>2, <2>1, <2>2, <2>3
<1>4. QED BY <1>1, <1>3 DEF HeapAssumption

\* The map of a large slab is a small object.
LEMMA MapIsSmall ==
  ASSUME HeapAssumption, NEW c \in Cache, ~ Small(c)
  PROVE  Length(PAGE \div Size[c]) \in Nat /\ Length(PAGE \div Size[c]) <= LIMIT
<1>1. Length(PAGE \div Size[c]) <= SMALL
  BY DEF HeapAssumption
<1>2. WORD \in Nat \ {0} /\ PAGE \div Size[c] \in Nat
  BY Counts DEF HeapAssumption
<1>3. Length(PAGE \div Size[c]) \in Nat
  <2>1. \A n \in Nat : \A w \in Nat \ {0} : (n + w - 1) \div w \in Nat
    OBVIOUS
  <2>2. \A i, j \in Nat : i * j \in Nat
    OBVIOUS
  <2>3. BYTES \in Nat
    BY DEF HeapAssumption
  <2>4. QED BY <1>2, <2>1, <2>2, <2>3, Zenon DEF Length
<1>4. QED BY <1>1, <1>3, Within, SMTT(40)

\* The Slab and the map of a grown page leave some of it.
LEMMA CountOfSmall ==
  ASSUME HeapAssumption, NEW c \in Cache
  PROVE  SmallCount(c) \in Nat
<1> DEFINE n == PAGE \div Size[c]
           b == Reserved(c)
           a == SLAB \div Size[c]
<1>1. n \in Nat /\ Size[c] \in Nat \ {0} /\ SLAB \in Nat /\ PAGE \in Nat
  BY Sizes, Counts, Within
<1>2. b \in Nat /\ SLAB + b <= PAGE
  <2>1. b \in Nat
    BY <1>1, SMTT(40) DEF Reserved
  <2>2. QED BY <2>1 DEF HeapAssumption
<1>3. a \in Nat /\ a <= SLAB
  <2> DEFINE z == Size[c]
  <2> HIDE DEF z
  <2>1. \A x \in Nat : \A y \in Nat \ {0} : x \div y \in Nat /\ (x \div y) * y <= x
    OBVIOUS
  <2>2. a \in Nat /\ a * Size[c] <= SLAB
    BY <1>1, <2>1
  <2>3. \A x \in Nat : \A y \in Nat \ {0} : x <= x * y /\ x * y \in Nat
    OBVIOUS
  <2>4. a <= a * Size[c] /\ a * Size[c] \in Nat
    BY <1>1, <2>2, <2>3, Zenon
  <2> HIDE DEF a
  <2>5. QED BY <1>1, <2>2, <2>4
<1> HIDE DEF a, b
<1>4. PAGE - b - a \in Nat
  BY <1>1, <1>2, <1>3
<1>5. QED BY <1>4 DEF SmallCount, a, b

-----------------------------------------------------------------------------
(* Slots *)

LEMMA SlabFields ==
  ASSUME NEW S \in Slab
  PROVE  /\ S = [cache |-> S.cache, color_count |-> S.color_count, free_count |-> S.free_count,
                 using_count |-> S.using_count, color_map |-> S.color_map,
                 container |-> S.container]
         /\ S.cache \in Cache /\ S.color_count \in Nat /\ S.free_count \in Nat
         /\ S.using_count \in Nat /\ S.color_map \subseteq Nat /\ S.container \in BOOLEAN
         /\ Clear(S) \subseteq Nat
  BY DEF Slab, Clear

LEMMA SlabOf ==
  ASSUME NEW h, Typed(h), NEW s \in DOMAIN h.slab
  PROVE  h.slab[s] \in Slab /\ h.slab[s].cache \in Cache /\ s \in Page
  BY SlabFields DEF Typed

\* The objects are slots of their slabs, in bytes of their own.
SlotLies(h, s, i) ==
    LET o == Slot(h, s, i)
        z == Size[h.slab[s].cache]
    IN /\ o \in Nat \X Nat /\ o[1] = s * PAGE + i * z /\ o[2] = z
       /\ s * PAGE <= o[1] /\ o[1] + o[2] <= (s + 1) * PAGE
       /\ o[1] \div PAGE = s /\ (o[1] - s * PAGE) \div z = i
       /\ i * z \in 0 .. PAGE - 1

LEMMA SlotsLie ==
  ASSUME HeapAssumption, NEW h, Typed(h), NEW s \in DOMAIN h.slab, NEW i \in Nat,
         (i + 1) * Size[h.slab[s].cache] <= PAGE
  PROVE  SlotLies(h, s, i)
<1>1. s \in Nat /\ PAGE \in Nat \ {0} /\ Size[h.slab[s].cache] \in Nat \ {0}
  BY SlabOf, Sizes
<1> DEFINE z == Size[h.slab[s].cache]
           a == s * PAGE + i * z
<1>2. /\ i * z \in 0 .. PAGE - 1 /\ a \in Nat
      /\ s * PAGE <= a /\ a + z <= (s + 1) * PAGE
      /\ a \div PAGE = s /\ (a - s * PAGE) \div z = i
  <2>1. /\ PAGE \in Nat /\ PAGE > 0 /\ z \in Nat /\ z > 0 /\ s \in Nat
        /\ (i + 1) * z <= PAGE
    BY <1>1
  <2> HIDE DEF z
  <2>2. Lies(PAGE, z, s, i)
    BY <2>1, Inside, Zenon
  <2>3. QED BY <2>2 DEF Lies
<1>3. Slot(h, s, i) = <<a, z>>
  BY DEF Slot
<1>4. Slot(h, s, i)[1] = a /\ Slot(h, s, i)[2] = z
  BY <1>3
<1>5. z \in Nat
  BY <1>1
<1>6. Slot(h, s, i) \in Nat \X Nat
  BY <1>2, <1>3, <1>5
<1> HIDE DEF a
<1>7. QED BY <1>2, <1>4, <1>6, Zenon DEF a, SlotLies

LEMMA SlotsApart ==
  ASSUME HeapAssumption, NEW h, Typed(h),
         NEW s \in DOMAIN h.slab, NEW i \in Nat, (i + 1) * Size[h.slab[s].cache] <= PAGE,
         NEW t \in DOMAIN h.slab, NEW j \in Nat, (j + 1) * Size[h.slab[t].cache] <= PAGE,
         s < t \/ (s = t /\ i < j)
  PROVE  Slot(h, s, i)[1] + Slot(h, s, i)[2] <= Slot(h, t, j)[1]
<1> DEFINE z == Size[h.slab[s].cache]
           y == Size[h.slab[t].cache]
<1>1. s \in Nat /\ t \in Nat /\ PAGE \in Nat /\ z \in Nat /\ y \in Nat
  BY SlabOf, Sizes
<1>2. s < t \/ (s = t /\ i < j /\ z = y)
  OBVIOUS
<1>3. s * PAGE + i * z + z <= t * PAGE + j * y
  BY <1>1, <1>2, Later, Zenon
<1>4. Slot(h, s, i)[1] = s * PAGE + i * z /\ Slot(h, s, i)[2] = z
  BY DEF Slot
<1>5. Slot(h, t, j)[1] = t * PAGE + j * y
  BY DEF Slot
<1> HIDE DEF z, y
<1>6. QED BY <1>3, <1>4, <1>5, Zenon

LEMMA PlacedApart ==
  ASSUME HeapAssumption, NEW h, NEW U, Typed(h), Placed(h, U)
  PROVE  /\ \A o \in U : o \in Nat \X Nat
         /\ \A o, q \in U : o # q => Apart(o, q)
<1>1. ASSUME NEW o \in U
      PROVE  \E s \in DOMAIN h.slab : \E i \in Nat :
                 o = Slot(h, s, i) /\ (i + 1) * Size[h.slab[s].cache] <= PAGE
  <2>1. PICK s \in DOMAIN h.slab : \E i \in h.slab[s].color_map :
            o = Slot(h, s, i) /\ (i + 1) * Size[h.slab[s].cache] <= PAGE
    BY DEF Placed
  <2>2. h.slab[s].color_map \subseteq Nat
    BY SlabOf, SlabFields
  <2>3. QED BY <2>1, <2>2
<1>2. ASSUME NEW o \in U PROVE o \in Nat \X Nat
  <2>1. PICK s \in DOMAIN h.slab, i \in Nat :
            o = Slot(h, s, i) /\ (i + 1) * Size[h.slab[s].cache] <= PAGE
    BY <1>1
  <2>2. Slot(h, s, i) \in Nat \X Nat
    BY <2>1, SlotsLie, Zenon DEF SlotLies
  <2>3. QED BY <2>1, <2>2
<1>3. ASSUME NEW o \in U, NEW q \in U, o # q PROVE Apart(o, q)
  <2>1. PICK s \in DOMAIN h.slab, i \in Nat :
            o = Slot(h, s, i) /\ (i + 1) * Size[h.slab[s].cache] <= PAGE
    BY <1>1
  <2>2. PICK t \in DOMAIN h.slab, j \in Nat :
            q = Slot(h, t, j) /\ (j + 1) * Size[h.slab[t].cache] <= PAGE
    BY <1>1
  <2>3. s \in Nat /\ t \in Nat
    BY SlabOf, Sizes
  <2>4. ~ (s = t /\ i = j)
    BY <1>3, <2>1, <2>2
  <2>5. s < t \/ (s = t /\ i < j) \/ t < s \/ (t = s /\ j < i)
    BY <2>3, <2>4
  <2>6. CASE s < t \/ (s = t /\ i < j)
    BY <2>1, <2>2, <2>6, SlotsApart DEF Apart
  <2>7. CASE t < s \/ (t = s /\ j < i)
    BY <2>1, <2>2, <2>7, SlotsApart DEF Apart
  <2>8. QED BY <2>5, <2>6, <2>7
<1>4. QED BY <1>2, <1>3

\* A slot whose bit is clear is nobody's.
LEMMA ClearIsFree ==
  ASSUME HeapAssumption, NEW h, NEW U, Typed(h), Placed(h, U),
         NEW s \in DOMAIN h.slab, NEW i \in Nat, i \notin h.slab[s].color_map,
         (i + 1) * Size[h.slab[s].cache] <= PAGE
  PROVE  Slot(h, s, i) \notin U
<1> SUFFICES ASSUME Slot(h, s, i) \in U PROVE FALSE
  OBVIOUS
<1>0. PICK t \in DOMAIN h.slab : \E j \in h.slab[t].color_map :
          Slot(h, s, i) = Slot(h, t, j) /\ (j + 1) * Size[h.slab[t].cache] <= PAGE
  BY DEF Placed
<1>1. PICK j \in h.slab[t].color_map :
          Slot(h, s, i) = Slot(h, t, j) /\ (j + 1) * Size[h.slab[t].cache] <= PAGE
  BY <1>0
<1>2. j \in Nat
  BY SlabOf, SlabFields
<1>3. SlotLies(h, s, i)
  BY SlotsLie, Zenon
<1>4. SlotLies(h, t, j)
  BY <1>1, <1>2, SlotsLie, Zenon
<1>5. s = t
  BY <1>1, <1>3, <1>4, Zenon DEF SlotLies
<1>6. i = j
  BY <1>1, <1>3, <1>4, <1>5, Zenon DEF SlotLies
<1>7. QED BY <1>5, <1>6

-----------------------------------------------------------------------------
(* A slot is taken *)

First(S) == CHOOSE j \in Clear(S) : \A k \in Clear(S) : j <= k

LEMMA FirstIsLeast ==
  ASSUME NEW S \in Slab, Clear(S) # {}
  PROVE  /\ First(S) \in Clear(S) /\ First(S) \in Nat /\ First(S) \notin S.color_map
         /\ First(S) < S.color_count
         /\ \A k \in Clear(S) : First(S) <= k
<1>1. Clear(S) \subseteq Nat /\ S.color_count \in Nat
  BY SlabFields
<1>2. \E j \in Clear(S) : \A k \in Clear(S) : j <= k
  BY <1>1, LeastNat
<1>3. First(S) \in Clear(S) /\ \A k \in Clear(S) : First(S) <= k
  BY <1>2 DEF First
<1>4. QED BY <1>1, <1>3 DEF Clear

\* Writing three fields of a slab and two of its cache's counters.
Write(h, s, x, y, z, tf, tu) ==
    [h EXCEPT !.slab[s].color_map = x, !.slab[s].using_count = y, !.slab[s].free_count = z,
              !.total_free[h.slab[s].cache] = tf, !.total_using[h.slab[s].cache] = tu]

Written(h, s, x, y, z, tf, tu) ==
    LET S == h.slab[s]  c == S.cache IN
    [slab |-> [h.slab EXCEPT ![s] =
                  [cache |-> c, color_count |-> S.color_count, free_count |-> z,
                   using_count |-> y, color_map |-> x, container |-> S.container]],
     pool_list |-> h.pool_list,
     total_free |-> [h.total_free EXCEPT ![c] = tf],
     total_using |-> [h.total_using EXCEPT ![c] = tu],
     pages |-> h.pages]

LEMMA Writing ==
  ASSUME NEW h, Typed(h), NEW s \in DOMAIN h.slab,
         NEW x, NEW y, NEW z, NEW tf, NEW tu
  PROVE  Write(h, s, x, y, z, tf, tu) = Written(h, s, x, y, z, tf, tu)
<1> DEFINE S == h.slab[s]
           c == S.cache
           R(i, j, k) == [cache |-> c, color_count |-> S.color_count, free_count |-> k,
                          using_count |-> j, color_map |-> i, container |-> S.container]
           A(r) == [h.slab EXCEPT ![s] = r]
           G(i, j, k) == [slab |-> i, pool_list |-> h.pool_list, total_free |-> j,
                          total_using |-> k, pages |-> h.pages]
           g1 == [h EXCEPT !.slab[s].color_map = x]
           g2 == [g1 EXCEPT !.slab[s].using_count = y]
           g3 == [g2 EXCEPT !.slab[s].free_count = z]
           g4 == [g3 EXCEPT !.total_free[c] = tf]
           g5 == [g4 EXCEPT !.total_using[c] = tu]
<1>1. S = R(S.color_map, S.using_count, S.free_count)
  BY SlabOf, SlabFields
<1>2. h = G(h.slab, h.total_free, h.total_using)
  BY DEF Typed
<1>3. Write(h, s, x, y, z, tf, tu) = g5
  BY Zenon DEF Write
<1>4. g1 = G(A(R(x, S.using_count, S.free_count)), h.total_free, h.total_using)
  BY <1>1, <1>2
<1> HIDE DEF g1
<1>5. g2 = G(A(R(x, y, S.free_count)), h.total_free, h.total_using)
  BY <1>4
<1> HIDE DEF g2
<1>6. g3 = G(A(R(x, y, z)), h.total_free, h.total_using)
  BY <1>5
<1> HIDE DEF g3
<1>7. g4 = G(A(R(x, y, z)), [h.total_free EXCEPT ![c] = tf], h.total_using)
  BY <1>6
<1> HIDE DEF g4
<1>8. g5 = G(A(R(x, y, z)), [h.total_free EXCEPT ![c] = tf], [h.total_using EXCEPT ![c] = tu])
  BY <1>7
<1> HIDE DEF g5
<1>9. QED BY <1>3, <1>8, Zenon DEF Written

Filled(h, s, i) ==
    LET S == h.slab[s] IN
    Written(h, s, S.color_map \cup {i}, S.using_count + 1, S.free_count - 1,
            h.total_free[S.cache] - 1, h.total_using[S.cache] + 1)

LEMMA ColourFills ==
  ASSUME NEW h, Typed(h), NEW s \in DOMAIN h.slab, NEW m, Clear(h.slab[s]) # {}
  PROVE  LET i == First(h.slab[s]) IN
         Colour(h, s, m) = Answer(Filled(h, s, i), Slot(h, s, i), m)
<1> DEFINE S == h.slab[s]
           i == First(S)
           g == [h EXCEPT !.slab[s].color_map = @ \cup {i},
                          !.slab[s].using_count = @ + 1, !.slab[s].free_count = @ - 1,
                          !.total_free[h.slab[s].cache] = @ - 1,
                          !.total_using[h.slab[s].cache] = @ + 1]
<1>1. g = Filled(h, s, i)
  <2> DEFINE x == S.color_map \cup {i}
             y == S.using_count + 1
             z == S.free_count - 1
             tf == h.total_free[S.cache] - 1
             tu == h.total_using[S.cache] + 1
  <2>1. g = Write(h, s, x, y, z, tf, tu)
    BY Zenon DEF Write
  <2>2. Filled(h, s, i) = Written(h, s, x, y, z, tf, tu)
    BY Zenon DEF Filled
  <2> HIDE DEF x, y, z, tf, tu, g
  <2>3. QED BY <2>1, <2>2, Writing
<1>2. Colour(h, s, m) = Answer(g, Slot(h, s, i), m)
  BY Zenon DEF Colour, Slot, First
<1>3. QED BY <1>1, <1>2

\* What is written is typed when its parts are, and the rest stays.
Wrote(h, g, s, x, y, z, tf, tu) ==
    LET S == h.slab[s]
        c == S.cache
    IN /\ Typed(g) /\ DOMAIN g.slab = DOMAIN h.slab
       /\ g.pool_list = h.pool_list /\ g.pages = h.pages
       /\ g.slab[s] = [cache |-> c, color_count |-> S.color_count, free_count |-> z,
                       using_count |-> y, color_map |-> x, container |-> S.container]
       /\ \A q \in DOMAIN h.slab \ {s} : g.slab[q] = h.slab[q]
       /\ g.total_free[c] = tf /\ g.total_using[c] = tu
       /\ \A d \in Cache \ {c} : /\ g.total_free[d] = h.total_free[d]
                                 /\ g.total_using[d] = h.total_using[d]

LEMMA WrittenFields ==
  ASSUME NEW h, Typed(h), NEW s \in DOMAIN h.slab,
         NEW x \in SUBSET Nat, NEW y \in Nat, NEW z \in Nat, NEW tf \in Nat, NEW tu \in Nat
  PROVE  Wrote(h, Written(h, s, x, y, z, tf, tu), s, x, y, z, tf, tu)
<1> DEFINE g == Written(h, s, x, y, z, tf, tu)
           S == h.slab[s]
           c == S.cache
           r == [cache |-> c, color_count |-> S.color_count, free_count |-> z,
                 using_count |-> y, color_map |-> x, container |-> S.container]
<1>1. c \in Cache /\ S \in Slab
  BY SlabOf
<1>2. r \in Slab
  <2>1. S.color_count \in Nat /\ S.container \in BOOLEAN
    BY <1>1, SlabFields
  <2>2. QED BY <1>1, <2>1 DEF Slab
<1>3. g.slab = [h.slab EXCEPT ![s] = r] /\ DOMAIN g.slab = DOMAIN h.slab
  BY DEF Written
<1> HIDE DEF r
<1>4. g.slab \in [DOMAIN g.slab -> Slab]
  BY <1>2, <1>3 DEF Typed
<1>5. g.pool_list = h.pool_list /\ g.pages = h.pages
  BY DEF Written
<1>6. g.total_free = [h.total_free EXCEPT ![c] = tf] /\ g.total_using = [h.total_using EXCEPT ![c] = tu]
  BY DEF Written
<1>7. h.total_free \in [Cache -> Nat] /\ h.total_using \in [Cache -> Nat]
  BY DEF Typed
<1>8. g = [slab |-> g.slab, pool_list |-> g.pool_list, total_free |-> g.total_free,
           total_using |-> g.total_using, pages |-> g.pages]
  BY DEF Written
<1> HIDE DEF g
<1>9. g.total_free \in [Cache -> Nat] /\ g.total_using \in [Cache -> Nat]
  BY <1>1, <1>6, <1>7
<1>10. Typed(g)
  BY <1>3, <1>4, <1>5, <1>8, <1>9 DEF Typed
<1>11. g.slab[s] = r /\ \A q \in DOMAIN h.slab \ {s} : g.slab[q] = h.slab[q]
  BY <1>3
<1>12. /\ g.total_free[c] = tf /\ g.total_using[c] = tu
       /\ \A d \in Cache \ {c} : /\ g.total_free[d] = h.total_free[d]
                                 /\ g.total_using[d] = h.total_using[d]
  BY <1>1, <1>6, <1>7
<1>13. QED BY <1>3, <1>5, <1>10, <1>11, <1>12, Zenon DEF g, r, Wrote

\* The slot can be taken: the counters have it, and if it is the last one that
\* they have then it is the last one.
Ready(h, s, i) ==
    LET c == h.slab[s].cache IN
    /\ s \in DOMAIN h.slab /\ i \in Clear(h.slab[s])
    /\ (i + 1) * Size[c] <= PAGE
    /\ h.slab[s].free_count > 0 /\ h.total_free[c] > 0
    /\ h.total_free[c] = 1 =>
          \A q \in DOMAIN h.slab : h.slab[q].cache = c =>
              Clear(h.slab[q]) \subseteq (IF q = s THEN {i} ELSE {})

LEMMA PoolSlab ==
  ASSUME HeapAssumption, NEW h, Typed(h), PoolsAgree(h), NEW c \in Cache
  PROVE  /\ Pool(c) \in DOMAIN h.slab /\ h.slab[Pool(c)] \in Slab /\ h.slab[Pool(c)].cache = c
         /\ IsFiniteSet(h.slab[Pool(c)].color_map)
<1>1. Pool(c) \in DOMAIN h.slab /\ h.slab[Pool(c)].cache = c
  BY DEF PoolsAgree, Top
<1>2. h.slab[Pool(c)] \in Slab
  BY <1>1, SlabOf
<1>3. h.slab[Pool(c)].color_map \subseteq 0 .. h.slab[Pool(c)].color_count - 1
  BY DEF PoolsAgree, Top
<1>4. h.slab[Pool(c)].color_count \in Nat
  BY <1>2, SlabFields
<1>5. IsFiniteSet(0 .. h.slab[Pool(c)].color_count - 1)
  <2>1. 0 \in Int /\ h.slab[Pool(c)].color_count - 1 \in Int
    BY <1>4
  <2>2. QED BY <2>1, FS_Interval
<1>6. QED BY <1>1, <1>2, <1>3, <1>5, FS_Subset

LEMMA FillSound ==
  ASSUME HeapAssumption, NEW h, NEW U, Sound(h, U), NEW s, NEW i, Ready(h, s, i)
  PROVE  LET g == Filled(h, s, i) IN
         /\ Sound(g, U \cup {Slot(h, s, i)})
         /\ Exact(h, U) => Exact(g, U \cup {Slot(h, s, i)})
         /\ Slot(h, s, i) \notin U
<1> DEFINE S == h.slab[s]
           c == S.cache
           g == Filled(h, s, i)
           o == Slot(h, s, i)
<1>1. s \in DOMAIN h.slab /\ S \in Slab /\ c \in Cache /\ Typed(h)
  BY SlabOf DEF Ready, Sound
<1>2. /\ S.color_count \in Nat /\ S.free_count \in Nat /\ S.using_count \in Nat
      /\ S.color_map \subseteq Nat /\ h.total_free[c] \in Nat /\ h.total_using[c] \in Nat
  BY <1>1, SlabFields DEF Typed
<1>fits. (i + 1) * Size[c] <= PAGE
  BY DEF Ready
<1>3. /\ i \in Nat /\ i \notin S.color_map /\ i < S.color_count
      /\ S.free_count > 0 /\ h.total_free[c] > 0
  <2>1. i \in Clear(S) /\ Clear(S) \subseteq Nat
    BY <1>1, SlabFields DEF Ready
  <2>2. QED BY <1>2, <2>1, SMTT(40) DEF Ready, Clear
<1>4. /\ Typed(g) /\ DOMAIN g.slab = DOMAIN h.slab
      /\ g.pool_list = h.pool_list /\ g.pages = h.pages
      /\ g.slab[s] = [cache |-> c, color_count |-> S.color_count, free_count |-> S.free_count - 1,
                      using_count |-> S.using_count + 1, color_map |-> S.color_map \cup {i},
                      container |-> S.container]
      /\ \A q \in DOMAIN h.slab \ {s} : g.slab[q] = h.slab[q]
      /\ g.total_free[c] = h.total_free[c] - 1 /\ g.total_using[c] = h.total_using[c] + 1
      /\ \A d \in Cache \ {c} : /\ g.total_free[d] = h.total_free[d]
                                /\ g.total_using[d] = h.total_using[d]
  <2>1. S.color_map \cup {i} \in SUBSET Nat
    BY <1>2, <1>3
  <2>2. \A n \in Nat : n + 1 \in Nat /\ (n > 0 => n - 1 \in Nat)
    OBVIOUS
  <2>3. /\ S.using_count + 1 \in Nat /\ S.free_count - 1 \in Nat
        /\ h.total_free[c] - 1 \in Nat /\ h.total_using[c] + 1 \in Nat
    BY <1>2, <1>3, <2>2, Zenon
  <2> DEFINE x == S.color_map \cup {i}
             y == S.using_count + 1
             z == S.free_count - 1
             tf == h.total_free[c] - 1
             tu == h.total_using[c] + 1
  <2>4. g = Written(h, s, x, y, z, tf, tu)
    BY Zenon DEF Filled
  <2>5. x \in SUBSET Nat /\ y \in Nat /\ z \in Nat /\ tf \in Nat /\ tu \in Nat
    BY <2>1, <2>3
  <2> HIDE DEF x, y, z, tf, tu
  <2>6. Wrote(h, Written(h, s, x, y, z, tf, tu), s, x, y, z, tf, tu)
    BY <1>1, <2>5, WrittenFields
  <2> HIDE DEF g
  <2>7. Wrote(h, g, s, x, y, z, tf, tu)
    BY <2>4, <2>6, Zenon
  <2>8. QED BY <2>7, Zenon DEF Wrote, x, y, z, tf, tu
<1> HIDE DEF g
<1>5. \A q \in DOMAIN h.slab : /\ g.slab[q].cache = h.slab[q].cache
                               /\ g.slab[q].container = h.slab[q].container
                               /\ g.slab[q].color_count = h.slab[q].color_count
                               /\ h.slab[q].color_map \subseteq g.slab[q].color_map
  <2> SUFFICES ASSUME NEW q \in DOMAIN h.slab
               PROVE  /\ g.slab[q].cache = h.slab[q].cache
                      /\ g.slab[q].container = h.slab[q].container
                      /\ g.slab[q].color_count = h.slab[q].color_count
                      /\ h.slab[q].color_map \subseteq g.slab[q].color_map
    OBVIOUS
  <2>1. CASE q # s
    BY <1>4, <2>1
  <2>2. CASE q = s
    <3> HIDE DEF S
    <3>1. /\ g.slab[s].cache = c /\ g.slab[s].container = S.container
          /\ g.slab[s].color_count = S.color_count /\ g.slab[s].color_map = S.color_map \cup {i}
      BY <1>4
    <3>2. QED BY <2>2, <3>1 DEF S
  <2>3. QED BY <2>1, <2>2
<1>6. \A d \in Cache : Longer(g, d) <=> Longer(h, d)
  BY <1>4 DEF Longer
<1>7. PoolsAgree(g)
  <2> SUFFICES ASSUME NEW d \in Cache
               PROVE  LET T == g.slab[Pool(d)] IN
                      /\ Pool(d) \in DOMAIN g.slab
                      /\ T.cache = d /\ T.container /\ T.color_count = PAGE \div Size[d]
                      /\ T.color_map \subseteq 0 .. T.color_count - 1
                      /\ T.using_count = Cardinality(T.color_map)
                      /\ T.free_count = T.color_count - T.using_count
    BY DEF PoolsAgree, Top
  <2> DEFINE H == h.slab[Pool(d)]
  <2>1. /\ Pool(d) \in DOMAIN h.slab /\ H \in Slab /\ IsFiniteSet(H.color_map)
        /\ H.cache = d /\ H.container /\ H.color_count = PAGE \div Size[d]
        /\ H.color_map \subseteq 0 .. H.color_count - 1
        /\ H.using_count = Cardinality(H.color_map)
        /\ H.free_count = H.color_count - H.using_count
    BY PoolSlab DEF Sound, PoolsAgree, Top
  <2>2. CASE Pool(d) # s
    <3>1. g.slab[Pool(d)] = H
      BY <1>4, <2>1, <2>2
    <3>2. QED BY <1>4, <2>1, <3>1
  <2>3. CASE Pool(d) = s
    <3>1. Cardinality(H.color_map \cup {i}) = Cardinality(H.color_map) + 1
      BY <1>3, <2>1, <2>3, FS_AddElement, ZenonT(40)
    <3>2. H = S /\ c = d
      BY <2>1, <2>3
    <3>3. S.free_count - 1 = S.color_count - (S.using_count + 1)
      <4>1. S.free_count = S.color_count - S.using_count
        BY <2>1, <3>2, Zenon
      <4>2. S.color_count \in Nat /\ S.using_count \in Nat
        BY <1>2
      <4> HIDE DEF S
      <4>3. QED BY <4>1, <4>2
    <3>4. S.color_map \cup {i} \subseteq 0 .. S.color_count - 1
      <4>1. \A x, y \in Nat : y < x => y \in 0 .. x - 1
        OBVIOUS
      <4>2. i \in 0 .. S.color_count - 1
        BY <1>2, <1>3, <4>1, Zenon
      <4>3. QED BY <2>1, <3>2, <4>2, Zenon
    <3> DEFINE T == g.slab[s]
    <3>5. /\ T.cache = c /\ T.color_count = S.color_count /\ T.free_count = S.free_count - 1
          /\ T.using_count = S.using_count + 1 /\ T.color_map = S.color_map \cup {i}
          /\ T.container = S.container
      <4> HIDE DEF S, c
      <4>1. QED BY <1>4
    <3> HIDE DEF T
    <3>6. T.color_map \subseteq 0 .. T.color_count - 1
      BY <3>4, <3>5, Zenon
    <3>7. T.using_count = Cardinality(T.color_map) /\ T.free_count = T.color_count - T.using_count
      BY <2>1, <3>1, <3>2, <3>3, <3>5, ZenonT(40)
    <3>8. /\ T.cache = d /\ T.container /\ T.color_count = PAGE \div Size[d]
          /\ Pool(d) \in DOMAIN g.slab
      BY <1>4, <2>1, <3>2, <3>5, Zenon
    <3>9. QED BY <2>3, <3>6, <3>7, <3>8, Zenon DEF T
  <2>4. QED BY <2>2, <2>3
<1>8. PoolsAreLast(g)
  <2> SUFFICES ASSUME NEW d \in Cache
               PROVE  LET list == h.pool_list[d] IN
                      /\ Len(list) > 0 /\ list[Len(list)] = Pool(d)
                      /\ Longer(h, d) => list[1] \in DOMAIN h.slab /\ ~ g.slab[list[1]].container
    BY <1>4, <1>6, Zenon DEF PoolsAreLast, Nameless
  <2>1. LET list == h.pool_list[d] IN
        /\ Len(list) > 0 /\ list[Len(list)] = Pool(d)
        /\ Longer(h, d) => list[1] \in DOMAIN h.slab /\ ~ h.slab[list[1]].container
    BY Zenon DEF Sound, PoolsAreLast, Nameless
  <2>2. QED BY <1>5, <2>1, Zenon
<1>9. SlabsAreListed(g)
  <2>1. SlabsAreListed(h)
    BY DEF Sound
  <2>2. /\ g.pool_list = h.pool_list /\ DOMAIN g.slab = DOMAIN h.slab
        /\ \A q \in DOMAIN h.slab : /\ g.slab[q].cache = h.slab[q].cache
                                    /\ g.slab[q].container = h.slab[q].container
    BY <1>4, <1>5
  <2> HIDE DEF g
  <2>3. QED BY <2>1, <2>2, Zenon DEF SlabsAreListed, Nameless
<1>10. TotalsAgree(g)
  <2> SUFFICES ASSUME NEW d \in Cache, ~ Longer(h, d)
               PROVE  /\ g.total_free[d] = g.slab[Pool(d)].free_count
                      /\ g.total_using[d] = g.slab[Pool(d)].using_count
    BY <1>6 DEF TotalsAgree, Top
  <2>1. /\ h.total_free[d] = h.slab[Pool(d)].free_count
        /\ h.total_using[d] = h.slab[Pool(d)].using_count
        /\ Pool(d) \in DOMAIN h.slab /\ h.slab[Pool(d)].cache = d
    BY PoolSlab DEF Sound, TotalsAgree, Top
  <2>2. CASE d # c
    <3>1. Pool(d) # s
      BY <2>1, <2>2
    <3>2. g.slab[Pool(d)] = h.slab[Pool(d)]
      BY <1>4, <2>1, <3>1
    <3>3. QED BY <1>4, <2>1, <2>2, <3>2
  <2>3. CASE d = c
    <3>1. PICK k \in DOMAIN h.pool_list[d] : h.pool_list[d][k] = s
      BY <1>1, <2>3 DEF Sound, SlabsAreListed
    <3>2. h.pool_list[d] \in Seq(Page) /\ Len(h.pool_list[d]) = 1 /\ h.pool_list[d][1] = Pool(d)
      <4>1. h.pool_list[d] \in Seq(Page)
        BY DEF Sound, Typed
      <4>2. /\ Len(h.pool_list[d]) > 0 /\ h.pool_list[d][Len(h.pool_list[d])] = Pool(d)
            /\ ~ (Len(h.pool_list[d]) > 1)
        BY DEF Sound, PoolsAreLast, Longer
      <4>3. Len(h.pool_list[d]) \in Nat
        BY <4>1
      <4>4. Len(h.pool_list[d]) = 1
        <5>1. \A n \in Nat : n > 0 /\ ~ (n > 1) => n = 1
          OBVIOUS
        <5>2. QED BY <4>2, <4>3, <5>1, Zenon
      <4>5. QED BY <4>1, <4>2, <4>4, Zenon
    <3>3. s = Pool(d)
      <4>1. \A l \in Seq(Page) : \A j \in DOMAIN l : Len(l) = 1 => j = 1
        OBVIOUS
      <4>2. QED BY <3>1, <3>2, <4>1, Zenon
    <3>4. g.slab[s].free_count = S.free_count - 1 /\ g.slab[s].using_count = S.using_count + 1
      <4> HIDE DEF S, c
      <4>1. QED BY <1>4
    <3>5. h.total_free[c] = S.free_count /\ h.total_using[c] = S.using_count
      BY <2>1, <2>3, <3>3, Zenon
    <3>6. g.total_free[c] = g.slab[s].free_count /\ g.total_using[c] = g.slab[s].using_count
      BY <1>4, <3>4, <3>5, Zenon
    <3>7. QED BY <2>3, <3>3, <3>6, Zenon
  <2>4. QED BY <2>2, <2>3
<1>11. NothingHidden(g)
  <2> SUFFICES ASSUME NEW q \in DOMAIN h.slab, g.total_free[h.slab[q].cache] = 0
               PROVE  Clear(g.slab[q]) = {}
    BY <1>4, <1>5, ZenonT(40) DEF NothingHidden
  <2>1. Clear(g.slab[q]) \subseteq Clear(h.slab[q])
    BY <1>5 DEF Clear
  <2>2. CASE h.slab[q].cache = c
    <3>1. h.total_free[c] = 1
      <4>1. \A n \in Nat : n - 1 = 0 => n = 1
        OBVIOUS
      <4>2. g.total_free[c] = 0
        BY <2>2, Zenon
      <4>3. QED BY <1>2, <1>4, <4>1, <4>2, Zenon
    <3>2. Clear(h.slab[q]) \subseteq (IF q = s THEN {i} ELSE {})
      BY <2>2, <3>1 DEF Ready
    <3>3. CASE q = s
      <4>1. i \notin Clear(g.slab[q])
        BY <1>4, <3>3 DEF Clear
      <4>2. QED BY <2>1, <3>2, <3>3, <4>1
    <3>4. QED BY <2>1, <3>2, <3>3
  <2>3. CASE h.slab[q].cache # c
    <3>1. h.total_free[h.slab[q].cache] = 0
      BY <1>1, <1>4, <2>3, SlabOf
    <3>2. QED BY <2>1, <3>1 DEF Sound, NothingHidden
  <2>4. QED BY <2>2, <2>3
<1>12. \A q \in DOMAIN h.slab : \A j : Slot(g, q, j) = Slot(h, q, j)
  BY <1>5 DEF Slot
<1>13. Placed(g, U \cup {o})
  <2> SUFFICES ASSUME NEW x \in U \cup {o}
               PROVE  \E q \in DOMAIN h.slab : \E j \in g.slab[q].color_map :
                          x = Slot(h, q, j) /\ (j + 1) * Size[h.slab[q].cache] <= PAGE
    <3>1. \A q \in DOMAIN h.slab : \A j : /\ Slot(g, q, j) = Slot(h, q, j)
                                         /\ g.slab[q].cache = h.slab[q].cache
      BY <1>5, <1>12, Zenon
    <3>2. DOMAIN g.slab = DOMAIN h.slab
      BY <1>4
    <3>3. QED BY <3>1, <3>2 DEF Placed
  <2>1. CASE x = o
    <3>1. i \in g.slab[s].color_map
      BY <1>4
    <3>2. QED BY <1>1, <1>fits, <1>3, <2>1, <3>1
  <2>2. CASE x \in U
    <3>1. PICK q \in DOMAIN h.slab : \E j \in h.slab[q].color_map :
              x = Slot(h, q, j) /\ (j + 1) * Size[h.slab[q].cache] <= PAGE
      BY <2>2 DEF Sound, Placed
    <3>2. h.slab[q].color_map \subseteq g.slab[q].color_map
      BY <1>5
    <3>3. QED BY <3>1, <3>2
  <2>3. QED BY <2>1, <2>2
<1>14. Exact(h, U) => Exact(g, U \cup {o})
  <2> SUFFICES ASSUME Exact(h, U), NEW d \in Cache, NEW j \in g.slab[Pool(d)].color_map
               PROVE  Slot(g, Pool(d), j) \in U \cup {o}
    BY DEF Exact, Top
  <2>1. Pool(d) \in DOMAIN h.slab
    BY PoolSlab DEF Sound
  <2>2. Slot(g, Pool(d), j) = Slot(h, Pool(d), j)
    BY <1>12, <2>1
  <2>3. CASE j \in h.slab[Pool(d)].color_map
    BY <2>2, <2>3 DEF Exact, Top
  <2>4. CASE j \notin h.slab[Pool(d)].color_map
    <3>1. Pool(d) = s /\ j = i
      BY <1>4, <2>1, <2>4
    <3>2. QED BY <2>2, <3>1
  <2>5. QED BY <2>3, <2>4
<1>15. o \notin U
  BY <1>1, <1>fits, <1>3, ClearIsFree DEF Sound
<1>16. QED
  BY <1>4, <1>7, <1>8, <1>9, <1>10, <1>11, <1>13, <1>14, <1>15 DEF Sound, g

-----------------------------------------------------------------------------
(* An allocation from the slabs that are there *)

Given(r) == {r.object} \ {Null}

\* What an allocation leaves of the heap and only adds to.
Keeps(h, g) ==
    /\ g.pages \subseteq h.pages
    /\ DOMAIN h.slab \subseteq DOMAIN g.slab /\ DOMAIN g.slab \subseteq DOMAIN h.slab \cup h.pages
    /\ \A d \in Cache : Longer(h, d) => Longer(g, d)

SomeLonger(h) == \E d \in Cache : Longer(h, d)

\* An answer r of an allocation for cache c from heap h, whose objects are U.
Sane(h, U, c, m, r) ==
    LET V == U \cup Given(r) IN
    /\ Sound(r.heap, V) /\ (Exact(h, U) => Exact(r.heap, V))
    /\ Given(r) \cap U = {} /\ Keeps(h, r.heap) /\ r.fault \in BOOLEAN
    /\ r.fault => r.heap = h /\ r.object = Null /\ r.meta = meta /\ SomeLonger(h)
    /\ ~ r.fault => r.meta = m
    /\ r.object = Null /\ ~ r.fault =>
          h.total_free[c] = 0 /\ (r.heap.pages = {} \/ SomeLonger(r.heap))

\* An answer that is a slot of a slab of the heap.
Took(h, U, m, r) ==
    /\ Sound(r.heap, U \cup Given(r)) /\ (Exact(h, U) => Exact(r.heap, U \cup Given(r)))
    /\ Given(r) \cap U = {} /\ Keeps(h, r.heap)
    /\ DOMAIN r.heap.slab = DOMAIN h.slab /\ r.heap.pages = h.pages
    /\ r.heap.pool_list = h.pool_list
    /\ r.fault = FALSE /\ r.meta = m /\ r.object # Null

LEMMA FillOutcome ==
  ASSUME HeapAssumption, NEW h, NEW U, Sound(h, U), NEW s, NEW i, Ready(h, s, i),
         i = First(h.slab[s]), NEW m
  PROVE  Took(h, U, m, Colour(h, s, m))
<1> DEFINE g == Filled(h, s, i)
           o == Slot(h, s, i)
           r == Colour(h, s, m)
<1>1. s \in DOMAIN h.slab /\ Typed(h) /\ Clear(h.slab[s]) # {}
  BY DEF Ready, Sound
<1>2. r = Answer(g, o, m)
  BY <1>1, ColourFills, Zenon
<1>3. r.heap = g /\ r.object = o /\ r.meta = m /\ r.fault = FALSE
  BY <1>2 DEF Answer
<1>4. Sound(g, U \cup {o}) /\ (Exact(h, U) => Exact(g, U \cup {o})) /\ o \notin U
  BY FillSound, Zenon
<1>5. DOMAIN g.slab = DOMAIN h.slab /\ g.pages = h.pages /\ g.pool_list = h.pool_list
  BY <1>1 DEF Filled, Written
<1> HIDE DEF g, o, r
<1>6. o \in Nat \X Nat
  BY <1>4, PlacedApart DEF Sound
<1>7. Given(r) = {o} /\ o # Null
  BY <1>3, <1>6 DEF HeapAssumption, Given
<1>8. Keeps(h, g)
  BY <1>5 DEF Keeps, Longer
<1>9. QED BY <1>3, <1>4, <1>5, <1>7, <1>8 DEF r, Took

LEMMA Single ==
  ASSUME HeapAssumption, NEW h, Typed(h), PoolsAreLast(h), NEW c \in Cache, ~ Longer(h, c)
  PROVE  /\ Len(h.pool_list[c]) = 1 /\ DOMAIN h.pool_list[c] = {1}
         /\ h.pool_list[c][1] = Pool(c)
<1> DEFINE l == h.pool_list[c]
<1>1. l \in Seq(Page) /\ Len(l) > 0 /\ ~ (Len(l) > 1) /\ l[Len(l)] = Pool(c)
  BY DEF Typed, PoolsAreLast, Longer
<1> HIDE DEF l
<1>2. Len(l) = 1 /\ DOMAIN l = {1}
  <2>1. \A n \in Nat : n > 0 /\ ~ (n > 1) => n = 1
    OBVIOUS
  <2>2. Len(l) \in Nat /\ DOMAIN l = 1 .. Len(l)
    BY <1>1
  <2>3. Len(l) = 1
    BY <1>1, <2>1, <2>2, Zenon
  <2>4. QED BY <2>2, <2>3
<1>3. QED BY <1>1, <1>2 DEF l

\* The bits of the slab of initialize that are clear are as many as it says.
LEMMA ClearCounted ==
  ASSUME HeapAssumption, NEW h, Typed(h), PoolsAgree(h), NEW c \in Cache
  PROVE  LET S == h.slab[Pool(c)] IN
         /\ IsFiniteSet(Clear(S)) /\ Cardinality(Clear(S)) = S.free_count
<1> DEFINE S == h.slab[Pool(c)]
           all == 0 .. S.color_count - 1
<1>1. /\ S.color_map \subseteq all /\ S.using_count = Cardinality(S.color_map)
      /\ S.free_count = S.color_count - S.using_count
  BY DEF PoolsAgree, Top
<1>2. S.color_count \in Nat /\ S.using_count \in Nat
  BY PoolSlab, SlabFields
<1> HIDE DEF S
<1>3. IsFiniteSet(all) /\ Cardinality(all) = S.color_count
  <2>1. 0 \in Int /\ S.color_count - 1 \in Int
    BY <1>2
  <2>2. /\ IsFiniteSet(all)
        /\ Cardinality(all) = IF 0 > S.color_count - 1 THEN 0 ELSE S.color_count - 1 - 0 + 1
    BY <2>1, FS_Interval
  <2>3. QED BY <1>2, <2>2
<1>4. all \cap S.color_map = S.color_map
  BY <1>1
<1> HIDE DEF all
<1>5. /\ IsFiniteSet(all \ S.color_map)
      /\ Cardinality(all \ S.color_map) = Cardinality(all) - Cardinality(all \cap S.color_map)
  BY <1>3, FS_Difference
<1>6. Clear(S) = all \ S.color_map
  BY DEF Clear, all
<1>7. QED BY <1>1, <1>3, <1>4, <1>5, <1>6 DEF S

\* A cache that has its first slab only takes a slot of that one.
LEMMA PoolReady ==
  ASSUME HeapAssumption, NEW h, NEW U, Sound(h, U), NEW c \in Cache,
         ~ Longer(h, c), h.total_free[c] # 0
  PROVE  Ready(h, Pool(c), First(h.slab[Pool(c)]))
<1> DEFINE p == Pool(c)
           S == h.slab[p]
           i == First(S)
<1>1. p \in DOMAIN h.slab /\ S \in Slab /\ S.cache = c
  BY PoolSlab DEF Sound
<1>2. S.color_count = PAGE \div Size[c] /\ h.total_free[c] = S.free_count
  BY DEF Sound, PoolsAgree, TotalsAgree, Top
<1>3. IsFiniteSet(Clear(S)) /\ Cardinality(Clear(S)) = S.free_count
  BY ClearCounted DEF Sound
<1>4. S.free_count \in Nat /\ S.free_count > 0
  <2>1. S.free_count \in Nat /\ S.free_count # 0
    BY <1>1, <1>2, SlabFields
  <2>2. QED BY <2>1
<1>5. Clear(S) # {}
  <2>1. Cardinality(Clear(S)) # 0
    BY <1>3, <1>4
  <2>2. QED BY <2>1, FS_EmptySet, Zenon
<1>6. i \in Clear(S) /\ i \in Nat /\ i < S.color_count
  BY <1>1, <1>5, FirstIsLeast
<1>7. (i + 1) * Size[c] <= PAGE
  <2>1. PAGE \div Size[c] \in Nat /\ (PAGE \div Size[c]) * Size[c] = PAGE /\ Size[c] \in Nat
    BY Counts, Sizes
  <2>3. i < PAGE \div Size[c]
    BY <1>2, <1>6, Zenon
  <2>4. (i + 1) * Size[c] <= (PAGE \div Size[c]) * Size[c]
    BY <1>6, <2>1, <2>3, FitsBelow, Zenon
  <2>5. QED BY <2>1, <2>4, Zenon
<1>8. ASSUME h.total_free[c] = 1, NEW q \in DOMAIN h.slab, h.slab[q].cache = c
      PROVE  Clear(h.slab[q]) \subseteq (IF q = p THEN {i} ELSE {})
  <2>1. PICK k \in DOMAIN h.pool_list[c] : h.pool_list[c][k] = q
    BY <1>8 DEF Sound, SlabsAreListed
  <2>2. q = p
    BY <2>1, Single DEF Sound
  <2>3. Cardinality(Clear(S)) = 1
    BY <1>2, <1>3, <1>8
  <2>4. \E x : Clear(S) = {x}
    BY <1>3, <2>3, FS_Singleton
  <2>5. Clear(S) = {i}
    BY <1>6, <2>4
  <2>6. QED BY <2>2, <2>5
<1>9. h.total_free[c] > 0
  BY <1>2, <1>4
<1> HIDE DEF i
<1>10. QED BY <1>1, <1>4, <1>6, <1>7, <1>8, <1>9 DEF Ready, i

\* The walk stops at the first slab of the list: it is the only one, or it was
\* inserted and has no container.
LEMMA Walks ==
  ASSUME HeapAssumption, NEW h, NEW U, Sound(h, U), NEW c \in Cache, NEW m
  PROVE  /\ Longer(h, c) => Walk(h, c, m) = Fault(h)
         /\ ~ Longer(h, c) => Walk(h, c, m) = Colour(h, Pool(c), m)
<1> DEFINE list == h.pool_list[c]
           stops == {k \in DOMAIN list : Nameless(h, list[k]) \/ h.slab[list[k]].free_count # 0}
           s == IF stops = {} THEN Pool(c) ELSE list[CHOOSE k \in stops : \A j \in stops : k <= j]
<1>1. Walk(h, c, m) = IF Nameless(h, s) THEN Fault(h) ELSE Colour(h, s, m)
  BY Zenon DEF Walk
<1>2. ASSUME Longer(h, c) PROVE Nameless(h, s)
  <2>1. list \in Seq(Page) /\ Len(list) > 1 /\ Nameless(h, list[1])
    BY <1>2 DEF Sound, Typed, PoolsAreLast, Longer
  <2> HIDE DEF list
  <2>2. 1 \in DOMAIN list /\ DOMAIN list \subseteq Nat /\ \A k \in DOMAIN list : 1 <= k
    BY <2>1
  <2>3. 1 \in stops /\ stops \subseteq Nat /\ \A j \in stops : 1 <= j
    BY <2>1, <2>2
  <2> HIDE DEF stops
  <2> DEFINE least == CHOOSE k \in stops : \A j \in stops : k <= j
  <2>4. \E k \in stops : \A j \in stops : k <= j
    BY <2>3
  <2>5. least \in stops /\ \A j \in stops : least <= j
    BY <2>4
  <2> HIDE DEF least
  <2>6. least = 1
    BY <2>3, <2>5
  <2>7. s = list[least]
    BY <2>3 DEF least
  <2>8. QED BY <2>1, <2>6, <2>7
<1>3. ASSUME ~ Longer(h, c) PROVE s = Pool(c) /\ ~ Nameless(h, s)
  <2>1. DOMAIN list = {1} /\ list[1] = Pool(c)
    BY <1>3, Single DEF Sound
  <2>2. s = Pool(c)
    <3> HIDE DEF list
    <3>1. CASE stops = {}
      BY <3>1
    <3>2. CASE stops # {}
      <4>1. stops = {1}
        BY <2>1, <3>2
      <4> HIDE DEF stops
      <4>2. (CHOOSE k \in stops : \A j \in stops : k <= j) = 1
        BY <4>1
      <4>3. QED BY <2>1, <3>2, <4>2
    <3>3. QED BY <3>1, <3>2
  <2>3. ~ Nameless(h, Pool(c))
    BY DEF Sound, PoolsAgree, Top, Nameless
  <2>4. QED BY <2>2, <2>3
<1> HIDE DEF s
<1>4. QED BY <1>1, <1>2, <1>3

LEMMA WalkSane ==
  ASSUME HeapAssumption, NEW h, NEW U, Sound(h, U), NEW c \in Cache, NEW m, h.total_free[c] # 0
  PROVE  Sane(h, U, c, m, Walk(h, c, m))
<1> DEFINE r == Walk(h, c, m)
<1>1. CASE Longer(h, c)
  <2>1. r = Fault(h)
    BY <1>1, Walks
  <2>2. r.heap = h /\ r.object = Null /\ r.meta = meta /\ r.fault = TRUE
    BY <2>1 DEF Fault, Answer
  <2> HIDE DEF r
  <2>3. U \cup Given(r) = U /\ Given(r) \cap U = {}
    BY <2>2 DEF Given
  <2>4. Keeps(h, h) /\ SomeLonger(h)
    BY <1>1 DEF Keeps, SomeLonger
  <2>5. QED BY <2>2, <2>3, <2>4 DEF Sane, r
<1>2. CASE ~ Longer(h, c)
  <2>1. r = Colour(h, Pool(c), m)
    BY <1>2, Walks
  <2>2. Ready(h, Pool(c), First(h.slab[Pool(c)]))
    BY <1>2, PoolReady
  <2> HIDE DEF r
  <2>3. Took(h, U, m, r)
    BY <2>1, <2>2, FillOutcome, Zenon
  <2>4. QED BY <2>3 DEF Sane, Took, r
<1>3. QED BY <1>1, <1>2

-----------------------------------------------------------------------------
(* A page is taken, and becomes a slab *)

LEMMA TakenSound ==
  ASSUME HeapAssumption, NEW h, NEW U, Sound(h, U), h.pages # {}
  PROVE  LET g == Taken(h) IN
         /\ Supply(h) \in h.pages /\ g.pages = h.pages \ {Supply(h)}
         /\ g.slab = h.slab /\ g.pool_list = h.pool_list
         /\ g.total_free = h.total_free /\ g.total_using = h.total_using
         /\ Sound(g, U) /\ (Exact(h, U) => Exact(g, U))
         /\ Supply(h) \in Page /\ Supply(h) \notin g.pages \cup DOMAIN g.slab
<1> DEFINE g == Taken(h)
           p == Supply(h)
<1>1. Typed(h) /\ h.pages \subseteq Page /\ DOMAIN h.slab \subseteq Page \ h.pages /\ h.pages \subseteq Nat
  BY Sizes DEF Sound, Typed
<1>2. p \in h.pages
  <2>1. \E x \in h.pages : \A y \in h.pages : x <= y
    BY <1>1, LeastNat
  <2>2. QED BY <2>1 DEF Supply
<1>3. g = [slab |-> h.slab, pool_list |-> h.pool_list, total_free |-> h.total_free,
           total_using |-> h.total_using, pages |-> h.pages \ {p}]
  <2>1. g = [h EXCEPT !.pages = h.pages \ {p}]
    BY Zenon DEF Taken
  <2> HIDE DEF g, p
  <2>2. QED BY <1>1, <2>1 DEF Typed
<1>4. /\ g.pages = h.pages \ {p} /\ g.slab = h.slab /\ g.pool_list = h.pool_list
      /\ g.total_free = h.total_free /\ g.total_using = h.total_using
  BY <1>3
<1> HIDE DEF g, p
<1>5. Typed(g)
  BY <1>1, <1>3, <1>4 DEF Typed
<1>6. PoolsAgree(g) /\ PoolsAreLast(g) /\ SlabsAreListed(g)
  <2>1. PoolsAgree(h) /\ PoolsAreLast(h) /\ SlabsAreListed(h)
    BY DEF Sound
  <2>2. PoolsAgree(g)
    BY <1>4, <2>1, ZenonT(40) DEF PoolsAgree, Top
  <2>3. PoolsAreLast(g)
    BY <1>4, <2>1, Zenon DEF PoolsAreLast, Longer, Nameless
  <2>4. SlabsAreListed(g)
    BY <1>4, <2>1, ZenonT(40) DEF SlabsAreListed, Nameless
  <2>5. QED BY <2>2, <2>3, <2>4
<1>9. TotalsAgree(g) /\ NothingHidden(g) /\ Placed(g, U)
  BY <1>4, Zenon DEF Sound, TotalsAgree, NothingHidden, Placed, Top, Longer, Slot
<1>7. Exact(h, U) => Exact(g, U)
  BY <1>4 DEF Exact, Top, Slot
<1>10. QED BY <1>1, <1>2, <1>4, <1>5, <1>6, <1>7, <1>9 DEF Sound, g, p

LEMMA Joined ==
  ASSUME NEW X, NEW a \in Seq(X), NEW b \in Seq(X)
  PROVE  a \o b \in Seq(X) /\ Len(a \o b) = Len(a) + Len(b)
  OBVIOUS

OneMore(X, l, x, k, i) ==
    /\ i \in Seq(X) /\ Len(i) = Len(l) + 1
    /\ i[1] = (IF k = 1 THEN x ELSE l[1]) /\ i[Len(i)] = l[Len(l)]
    /\ i[k] = x /\ \A j \in DOMAIN l : \E n \in DOMAIN i : i[n] = l[j]

LEMMA Inserted ==
  ASSUME NEW X, NEW l \in Seq(X), NEW x \in X, NEW k \in DOMAIN l
  PROVE  OneMore(X, l, x, k, InsertAt(l, k, x))
<1> DEFINE a == SubSeq(l, 1, k - 1)
           b == SubSeq(l, k, Len(l))
           i == InsertAt(l, k, x)
<1>1. k \in 1 .. Len(l) /\ Len(l) \in Nat
  OBVIOUS
<1>2. a \in Seq(X) /\ Len(a) = k - 1 /\ \A j \in 1 .. k - 1 : a[j] = l[j]
  BY <1>1
<1>3. b \in Seq(X) /\ Len(b) = Len(l) - k + 1 /\ \A j \in 1 .. Len(l) - k + 1 : b[j] = l[k + j - 1]
  BY <1>1
<1>4. i = (a \o <<x>>) \o b
  BY DEF InsertAt
<1> HIDE DEF a, b
<1>5. i \in Seq(X) /\ Len(i) = Len(l) + 1
  <2> DEFINE c == a \o <<x>>
  <2>1. c \in Seq(X) /\ Len(c) = k
    BY <1>1, <1>2
  <2> HIDE DEF c
  <2>2. c \in Seq(X) /\ b \in Seq(X)
    BY <1>3, <2>1
  <2>4. c \o b \in Seq(X) /\ Len(c \o b) = Len(c) + Len(b)
    BY <2>2, Joined
  <2> USE DEF c
  <2>3. QED BY <1>1, <1>3, <1>4, <2>1, <2>4
<1>6. \A j \in 1 .. k - 1 : i[j] = l[j]
  BY <1>1, <1>2, <1>3, <1>4
<1>7. i[k] = x
  BY <1>1, <1>2, <1>3, <1>4
<1>8. \A j \in k .. Len(l) : i[j + 1] = l[j]
  <2> SUFFICES ASSUME NEW j \in k .. Len(l) PROVE i[j + 1] = l[j]
    OBVIOUS
  <2>1. i[j + 1] = b[j + 1 - k]
    BY <1>1, <1>2, <1>3, <1>4, SMTT(40)
  <2>2. QED BY <1>1, <1>3, <2>1
<1> HIDE DEF i
<1>9. i[1] = (IF k = 1 THEN x ELSE l[1]) /\ i[Len(i)] = l[Len(l)]
  BY <1>1, <1>5, <1>6, <1>7, <1>8
<1>10. \A j \in DOMAIN l : \E n \in DOMAIN i : i[n] = l[j]
  <2> SUFFICES ASSUME NEW j \in 1 .. Len(l) PROVE \E n \in 1 .. Len(l) + 1 : i[n] = l[j]
    BY <1>5
  <2>1. CASE j < k
    BY <1>1, <1>6, <2>1
  <2>2. CASE j >= k
    BY <1>1, <1>8, <2>2
  <2>3. QED BY <1>1, <2>1, <2>2
<1>11. QED BY <1>5, <1>7, <1>9, <1>10 DEF i, OneMore

\* The place of the slab of initialize in its list.
Place(h, c) == CHOOSE k \in DOMAIN h.pool_list[c] : h.pool_list[c][k] = Pool(c)

\* The heap with one more slab.
With(h, s, S) ==
    LET c == S.cache IN
    [slab |-> [q \in DOMAIN h.slab \cup {s} |-> IF q = s THEN S ELSE h.slab[q]],
     pool_list |-> [h.pool_list EXCEPT ![c] = InsertAt(h.pool_list[c], Place(h, c), s)],
     total_free |-> [h.total_free EXCEPT ![c] = h.total_free[c] + S.color_count],
     total_using |-> h.total_using, pages |-> h.pages]

\* A new slab, of a page that nothing has.
Fresh(h, s, S) ==
    /\ s \in Page /\ s \notin h.pages \cup DOMAIN h.slab
    /\ S \in Slab /\ ~ S.container /\ S.free_count = S.color_count
    /\ S.color_map = {} \/ S.color_count = PAGE \div Size[S.cache]

LEMMA InsertIs ==
  ASSUME NEW h, Typed(h), NEW s, NEW S, Fresh(h, s, S), NEW m
  PROVE  Insert(h, s, S, m) = Colour(With(h, s, S), s, m)
<1> DEFINE c == S.cache
           f == [q \in DOMAIN h.slab \cup {s} |-> IF q = s THEN S ELSE h.slab[q]]
           l == InsertAt(h.pool_list[c], Place(h, c), s)
           t == h.total_free[c] + S.color_count
           g == [h EXCEPT !.slab = f, !.pool_list[c] = l, !.total_free[c] = t]
<1>1. Insert(h, s, S, m) = Colour(g, s, m)
  BY Zenon DEF Insert, Place
<1>2. With(h, s, S) = [slab |-> f, pool_list |-> [h.pool_list EXCEPT ![c] = l],
                       total_free |-> [h.total_free EXCEPT ![c] = t],
                       total_using |-> h.total_using, pages |-> h.pages]
  BY Zenon DEF With
<1> HIDE DEF c, f, l, t
<1>3. h = [slab |-> h.slab, pool_list |-> h.pool_list, total_free |-> h.total_free,
           total_using |-> h.total_using, pages |-> h.pages]
  BY DEF Typed
<1> DEFINE g1 == [h EXCEPT !.slab = f]
           g2 == [g1 EXCEPT !.pool_list[c] = l]
           g3 == [g2 EXCEPT !.total_free[c] = t]
<1>4. g = g3
  BY Zenon
<1>5. g1 = [slab |-> f, pool_list |-> h.pool_list, total_free |-> h.total_free,
            total_using |-> h.total_using, pages |-> h.pages]
  BY <1>3
<1> HIDE DEF g1
<1>6. g2 = [slab |-> f, pool_list |-> [h.pool_list EXCEPT ![c] = l], total_free |-> h.total_free,
            total_using |-> h.total_using, pages |-> h.pages]
  BY <1>5
<1> HIDE DEF g2
<1>7. g3 = [slab |-> f, pool_list |-> [h.pool_list EXCEPT ![c] = l],
            total_free |-> [h.total_free EXCEPT ![c] = t],
            total_using |-> h.total_using, pages |-> h.pages]
  BY <1>6
<1>8. g = With(h, s, S)
  BY <1>2, <1>4, <1>7, Zenon
<1> HIDE DEF g
<1>9. QED BY <1>1, <1>8

\* It has all that it had, and the new slab before the first one of its cache.
Added(h, g, s, S) ==
    LET c == S.cache IN
    /\ Typed(g) /\ DOMAIN g.slab = DOMAIN h.slab \cup {s} /\ g.pages = h.pages
    /\ g.slab[s] = S /\ \A q \in DOMAIN h.slab : q # s /\ g.slab[q] = h.slab[q]
    /\ g.total_using = h.total_using /\ g.total_free[c] = h.total_free[c] + S.color_count
    /\ \A d \in Cache \ {c} : /\ g.total_free[d] = h.total_free[d]
                              /\ g.pool_list[d] = h.pool_list[d]
    /\ Longer(g, c) /\ \A d \in Cache : Longer(h, d) => Longer(g, d)
    /\ Len(g.pool_list[c]) > 0 /\ g.pool_list[c][Len(g.pool_list[c])] = Pool(c)
    /\ g.pool_list[c][1] = s \/ (Longer(h, c) /\ g.pool_list[c][1] = h.pool_list[c][1])
    /\ \E n \in DOMAIN g.pool_list[c] : g.pool_list[c][n] = s
    /\ \A j \in DOMAIN h.pool_list[c] : \E n \in DOMAIN g.pool_list[c] :
          g.pool_list[c][n] = h.pool_list[c][j]

LEMMA WithAdds ==
  ASSUME HeapAssumption, NEW h, NEW U, Sound(h, U), NEW s, NEW S, Fresh(h, s, S)
  PROVE  Added(h, With(h, s, S), s, S)
<1> DEFINE c == S.cache
           l == h.pool_list[c]
           k == Place(h, c)
           i == InsertAt(l, k, s)
           g == With(h, s, S)
<1>1. /\ Typed(h) /\ S \in Slab /\ c \in Cache /\ S.color_count \in Nat
      /\ s \in Page /\ s \notin h.pages /\ s \notin DOMAIN h.slab
  BY SlabFields DEF Sound, Fresh
<1>2. /\ h.pages \subseteq Page /\ DOMAIN h.slab \subseteq Page \ h.pages
      /\ h.slab \in [DOMAIN h.slab -> Slab] /\ h.pool_list \in [Cache -> Seq(Page)]
      /\ h.total_free \in [Cache -> Nat] /\ h.total_using \in [Cache -> Nat]
  BY <1>1 DEF Typed
<1>3. l \in Seq(Page) /\ Len(l) > 0 /\ l[Len(l)] = Pool(c)
  BY <1>1, <1>2 DEF Sound, PoolsAreLast
<1>4. k \in DOMAIN l /\ l[k] = Pool(c)
  <2>1. Len(l) \in DOMAIN l
    BY <1>3
  <2>2. QED BY <1>3, <2>1 DEF Place
<1>5. /\ g.slab = [q \in DOMAIN h.slab \cup {s} |-> IF q = s THEN S ELSE h.slab[q]]
      /\ g.pool_list = [h.pool_list EXCEPT ![c] = i]
      /\ g.total_free = [h.total_free EXCEPT ![c] = h.total_free[c] + S.color_count]
      /\ g.total_using = h.total_using /\ g.pages = h.pages
      /\ g = [slab |-> g.slab, pool_list |-> g.pool_list, total_free |-> g.total_free,
              total_using |-> g.total_using, pages |-> g.pages]
  BY DEF With
<1> HIDE DEF g, k
<1>6. /\ i \in Seq(Page) /\ Len(i) = Len(l) + 1
      /\ i[1] = (IF k = 1 THEN s ELSE l[1]) /\ i[Len(i)] = l[Len(l)]
      /\ i[k] = s /\ \A j \in DOMAIN l : \E n \in DOMAIN i : i[n] = l[j]
  <2>1. OneMore(Page, l, s, k, i)
    BY <1>1, <1>3, <1>4, Inserted
  <2>2. QED BY <2>1 DEF OneMore
<1> HIDE DEF i
<1>7. g.pool_list[c] = i /\ \A d \in Cache \ {c} : g.pool_list[d] = h.pool_list[d]
  BY <1>1, <1>2, <1>5
<1>8. /\ g.total_free[c] = h.total_free[c] + S.color_count
      /\ \A d \in Cache \ {c} : g.total_free[d] = h.total_free[d]
      /\ g.total_free \in [Cache -> Nat]
  <2> DEFINE t == h.total_free[c] + S.color_count
  <2>1. t \in Nat
    <3>1. h.total_free[c] \in Nat /\ \A x, y \in Nat : x + y \in Nat
      BY <1>1, <1>2, SMTT(40)
    <3>2. QED BY <1>1, <3>1, Zenon
  <2>2. g.total_free = [h.total_free EXCEPT ![c] = t]
    BY <1>5
  <2> HIDE DEF t
  <2>3. g.total_free[c] = t
    BY <1>1, <1>2, <2>2
  <2>4. g.total_free \in [Cache -> Nat] /\ \A d \in Cache \ {c} : g.total_free[d] = h.total_free[d]
    BY <1>1, <1>2, <2>1, <2>2, SMTT(40)
  <2>5. QED BY <2>3, <2>4 DEF t
<1>9. /\ DOMAIN g.slab = DOMAIN h.slab \cup {s} /\ g.slab[s] = S
      /\ \A q \in DOMAIN h.slab : q # s /\ g.slab[q] = h.slab[q]
  BY <1>1, <1>5
<1>10. Typed(g)
  <2>1. g.slab \in [DOMAIN g.slab -> Slab]
    BY <1>1, <1>2, <1>5
  <2>2. DOMAIN g.slab \subseteq Page \ g.pages
    BY <1>1, <1>2, <1>5, <1>9
  <2>3. g.pool_list \in [Cache -> Seq(Page)]
    BY <1>1, <1>2, <1>5, <1>6
  <2>4. QED BY <1>2, <1>5, <1>8, <2>1, <2>2, <2>3 DEF Typed
<1>11. Len(l) \in Nat /\ Len(l) > 0 /\ Len(i) = Len(l) + 1 /\ Len(i) > 1 /\ Len(i) > 0
  <2>1. Len(l) \in Nat /\ Len(l) > 0 /\ Len(i) = Len(l) + 1
    BY <1>3, <1>6
  <2>2. \A n \in Nat : n > 0 => n + 1 > 1 /\ n + 1 > 0
    OBVIOUS
  <2>3. QED BY <2>1, <2>2, Zenon
<1>12. Longer(g, c) /\ \A d \in Cache : Longer(h, d) => Longer(g, d)
  BY <1>7, <1>11 DEF Longer
<1>13. i[1] = s \/ (Longer(h, c) /\ i[1] = l[1])
  <2>1. CASE k = 1
    BY <1>6, <2>1
  <2>2. CASE k # 1
    <3>1. k \in 1 .. Len(l)
      BY <1>3, <1>4, SMTT(40)
    <3>2. Len(l) > 1
      BY <1>11, <2>2, <3>1
    <3>3. QED BY <1>6, <2>2, <3>2 DEF Longer
  <2>3. QED BY <2>1, <2>2
<1>14. k \in DOMAIN i
  <2>1. k \in 1 .. Len(l) /\ DOMAIN i = 1 .. Len(i)
    <3>1. \A z \in Seq(Page) : DOMAIN z = 1 .. Len(z)
      OBVIOUS
    <3>2. QED BY <1>3, <1>4, <1>6, <3>1, Zenon
  <2>2. \A n \in Nat : \A j \in 1 .. n : j \in 1 .. n + 1
    OBVIOUS
  <2>3. QED BY <1>11, <2>1, <2>2, Zenon
<1>15. /\ \A d \in Cache \ {c} : /\ g.total_free[d] = h.total_free[d]
                                 /\ g.pool_list[d] = h.pool_list[d]
       /\ g.total_using = h.total_using /\ g.pages = h.pages
  BY <1>5, <1>7, <1>8
<1>16. /\ Len(g.pool_list[c]) > 0 /\ g.pool_list[c][Len(g.pool_list[c])] = Pool(c)
       /\ g.pool_list[c][1] = s \/ (Longer(h, c) /\ g.pool_list[c][1] = h.pool_list[c][1])
       /\ \E n \in DOMAIN g.pool_list[c] : g.pool_list[c][n] = s
       /\ \A j \in DOMAIN h.pool_list[c] : \E n \in DOMAIN g.pool_list[c] :
              g.pool_list[c][n] = h.pool_list[c][j]
  <2>1. g.pool_list[c] = i
    BY <1>7
  <2>2. QED BY <1>3, <1>6, <1>11, <1>13, <1>14, <2>1, Zenon
<1>17. QED
  BY <1>8, <1>9, <1>10, <1>12, <1>15, <1>16, Zenon DEF Added, g

\* It is as sound as it was, the new slab's slots being nobody's.
LEMMA AddedSound ==
  ASSUME HeapAssumption, NEW h, NEW U, Sound(h, U), NEW s, NEW S, Fresh(h, s, S),
         NEW g, Added(h, g, s, S)
  PROVE  Sound(g, U) /\ (Exact(h, U) => Exact(g, U))
<1> DEFINE c == S.cache
<1>1. /\ Typed(h) /\ S \in Slab /\ c \in Cache /\ S.color_count \in Nat /\ ~ S.container
      /\ \A q \in DOMAIN h.slab : h.slab[q].cache \in Cache
  BY SlabFields, SlabOf DEF Sound, Fresh
<1>2. Typed(g)
  BY DEF Added
<1>3. DOMAIN g.slab = DOMAIN h.slab \cup {s} /\ g.slab[s] = S
  BY DEF Added
<1>4. \A q \in DOMAIN h.slab : q # s /\ g.slab[q] = h.slab[q]
  BY DEF Added
<1>5. \A d \in Cache : Pool(d) \in DOMAIN h.slab /\ g.slab[Pool(d)] = h.slab[Pool(d)]
  BY <1>4, PoolSlab DEF Sound
<1>6. PoolsAgree(g)
  BY <1>3, <1>5, Zenon DEF Sound, PoolsAgree, Top
<1>7. PoolsAreLast(g)
  <2> SUFFICES ASSUME NEW d \in Cache
               PROVE  LET list == g.pool_list[d] IN
                      /\ Len(list) > 0 /\ list[Len(list)] = Pool(d)
                      /\ Longer(g, d) => list[1] \in DOMAIN g.slab /\ ~ g.slab[list[1]].container
    BY DEF PoolsAreLast, Nameless
  <2>1. LET list == h.pool_list[d] IN
        /\ Len(list) > 0 /\ list[Len(list)] = Pool(d)
        /\ Longer(h, d) => list[1] \in DOMAIN h.slab /\ ~ h.slab[list[1]].container
    BY DEF Sound, PoolsAreLast, Nameless
  <2>2. CASE d = c
    <3>1. /\ Len(g.pool_list[c]) > 0 /\ g.pool_list[c][Len(g.pool_list[c])] = Pool(c)
          /\ g.pool_list[c][1] = s \/ (Longer(h, c) /\ g.pool_list[c][1] = h.pool_list[c][1])
      BY Zenon DEF Added
    <3>2. QED BY <1>1, <1>3, <1>4, <2>1, <2>2, <3>1, Zenon
  <2>3. CASE d # c
    <3>1. g.pool_list[d] = h.pool_list[d]
      BY <2>3 DEF Added
    <3>2. QED BY <1>3, <1>4, <2>1, <3>1, Zenon DEF Longer
  <2>4. QED BY <2>2, <2>3
<1>8. SlabsAreListed(g)
  <2> SUFFICES ASSUME NEW q \in DOMAIN g.slab
               PROVE  LET d == g.slab[q].cache IN
                      /\ \E k \in DOMAIN g.pool_list[d] : g.pool_list[d][k] = q
                      /\ g.slab[q].container => q = Pool(d)
    BY DEF SlabsAreListed, Nameless
  <2>1. CASE q = s
    <3>1. \E n \in DOMAIN g.pool_list[c] : g.pool_list[c][n] = s
      BY Zenon DEF Added
    <3>2. QED BY <1>1, <1>3, <2>1, <3>1, Zenon
  <2>2. CASE q # s
    <3> DEFINE d == h.slab[q].cache
    <3>1. q \in DOMAIN h.slab /\ g.slab[q] = h.slab[q] /\ d \in Cache
      BY <1>1, <1>3, <1>4, <2>2
    <3>2. /\ \E k \in DOMAIN h.pool_list[d] : h.pool_list[d][k] = q
          /\ h.slab[q].container => q = Pool(d)
      BY <3>1 DEF Sound, SlabsAreListed, Nameless
    <3>3. \E k \in DOMAIN g.pool_list[d] : g.pool_list[d][k] = q
      <4>1. CASE d = c
        <5>1. \A j \in DOMAIN h.pool_list[c] : \E n \in DOMAIN g.pool_list[c] :
                  g.pool_list[c][n] = h.pool_list[c][j]
          BY Zenon DEF Added
        <5>2. QED BY <3>2, <4>1, <5>1, Zenon
      <4>2. CASE d # c
        <5>1. g.pool_list[d] = h.pool_list[d]
          BY <3>1, <4>2 DEF Added
        <5>2. QED BY <3>2, <5>1, Zenon
      <4>3. QED BY <4>1, <4>2
    <3>4. QED BY <3>1, <3>2, <3>3, Zenon
  <2>3. QED BY <2>1, <2>2
<1>9. TotalsAgree(g)
  <2> SUFFICES ASSUME NEW d \in Cache, ~ Longer(g, d)
               PROVE  /\ g.total_free[d] = g.slab[Pool(d)].free_count
                      /\ g.total_using[d] = g.slab[Pool(d)].using_count
    BY DEF TotalsAgree, Top
  <2>1. d # c /\ ~ Longer(h, d)
    BY DEF Added
  <2>2. g.total_free[d] = h.total_free[d] /\ g.total_using[d] = h.total_using[d]
    BY <2>1 DEF Added
  <2>3. QED BY <1>5, <2>1, <2>2, Zenon DEF Sound, TotalsAgree, Top
<1>10. NothingHidden(g)
  <2> SUFFICES ASSUME NEW q \in DOMAIN g.slab, g.total_free[g.slab[q].cache] = 0
               PROVE  Clear(g.slab[q]) = {}
    BY DEF NothingHidden
  <2>1. g.total_free[c] = 0 => h.total_free[c] = 0 /\ S.color_count = 0
    <3>1. h.total_free[c] \in Nat /\ g.total_free[c] = h.total_free[c] + S.color_count
      BY <1>1 DEF Added, Typed
    <3>2. \A x, y \in Nat : x + y = 0 => x = 0 /\ y = 0
      OBVIOUS
    <3>3. QED BY <1>1, <3>1, <3>2, Zenon
  <2>2. CASE q = s
    <3>1. S.color_count = 0
      BY <1>3, <2>1, <2>2
    <3>2. Clear(S) = {}
      BY <3>1 DEF Clear
    <3>3. QED BY <1>3, <2>2, <3>2
  <2>3. CASE q # s
    <3>1. q \in DOMAIN h.slab /\ g.slab[q] = h.slab[q] /\ h.slab[q].cache \in Cache
      BY <1>1, <1>3, <1>4, <2>3
    <3>2. h.total_free[h.slab[q].cache] = 0
      <4>1. CASE h.slab[q].cache = c
        BY <2>1, <3>1, <4>1
      <4>2. CASE h.slab[q].cache # c
        <5>1. g.total_free[h.slab[q].cache] = h.total_free[h.slab[q].cache]
          BY <3>1, <4>2 DEF Added
        <5>2. QED BY <3>1, <5>1
      <4>3. QED BY <4>1, <4>2
    <3>3. QED BY <3>1, <3>2 DEF Sound, NothingHidden
  <2>4. QED BY <2>2, <2>3
<1>11. \A q \in DOMAIN h.slab : \A j : Slot(g, q, j) = Slot(h, q, j)
  BY <1>4 DEF Slot
<1>12. Placed(g, U)
  <2> SUFFICES ASSUME NEW o \in U
               PROVE  \E q \in DOMAIN g.slab : \E j \in g.slab[q].color_map :
                          o = Slot(g, q, j) /\ (j + 1) * Size[g.slab[q].cache] <= PAGE
    BY DEF Placed
  <2>1. PICK q \in DOMAIN h.slab : \E j \in h.slab[q].color_map :
            o = Slot(h, q, j) /\ (j + 1) * Size[h.slab[q].cache] <= PAGE
    BY DEF Sound, Placed
  <2>2. q \in DOMAIN g.slab /\ g.slab[q] = h.slab[q] /\ \A j : Slot(g, q, j) = Slot(h, q, j)
    BY <1>3, <1>4, <1>11
  <2>3. QED BY <2>1, <2>2, Zenon
<1>13. Exact(h, U) => Exact(g, U)
  BY <1>5, <1>11, Zenon DEF Exact, Top
<1>14. QED
  BY <1>2, <1>6, <1>7, <1>8, <1>9, <1>10, <1>12, <1>13 DEF Sound

LEMMA AddedReady ==
  ASSUME HeapAssumption, NEW h, NEW U, Sound(h, U), NEW s, NEW S, Fresh(h, s, S),
         NEW g, Added(h, g, s, S), Clear(S) # {}
  PROVE  Ready(g, s, First(g.slab[s]))
<1> DEFINE c == S.cache
           i == First(S)
           n == S.color_count
<1>1. /\ Typed(h) /\ S \in Slab /\ c \in Cache /\ n \in Nat /\ S.free_count = n
      /\ \A q \in DOMAIN h.slab : h.slab[q].cache \in Cache
  BY SlabFields, SlabOf DEF Sound, Fresh
<1>2. /\ DOMAIN g.slab = DOMAIN h.slab \cup {s} /\ g.slab[s] = S
      /\ \A q \in DOMAIN h.slab : q # s /\ g.slab[q] = h.slab[q]
      /\ g.total_free[c] = h.total_free[c] + n
  BY DEF Added
<1>3. i \in Clear(S) /\ i \in Nat /\ i < n /\ \A k \in Clear(S) : i <= k
  BY <1>1, FirstIsLeast
<1>4. h.total_free[c] \in Nat
  BY <1>1 DEF Typed
<1> HIDE DEF i, n
<1>5. n > 0 /\ g.total_free[c] > 0
  <2>1. n > 0
    BY <1>1, <1>3
  <2>2. \A x, z \in Nat : x > 0 => z + x > 0
    OBVIOUS
  <2>3. h.total_free[c] + n > 0
    BY <1>1, <1>4, <2>1, <2>2, Zenon
  <2>4. QED BY <1>2, <2>1, <2>3, Zenon
<1>6. (i + 1) * Size[c] <= PAGE
  <2>1. PAGE \div Size[c] \in Nat /\ (PAGE \div Size[c]) * Size[c] = PAGE /\ Size[c] \in Nat
    BY <1>1, Counts, Sizes
  <2>2. i < PAGE \div Size[c]
    <3>1. CASE S.color_map = {}
      <4>1. 0 \in Clear(S)
        <5>1. 0 \in 0 .. n - 1
          BY <1>1, <1>5
        <5>2. QED BY <3>1, <5>1 DEF Clear, n
      <4>2. i = 0
        BY <1>3, <4>1
      <4>3. PAGE \div Size[c] \in Nat \ {0}
        BY <1>1, Counts
      <4>4. QED BY <4>2, <4>3
    <3>2. CASE n = PAGE \div Size[c]
      BY <1>3, <3>2, Zenon
    <3>3. QED BY <3>1, <3>2 DEF Fresh, n
  <2>3. (i + 1) * Size[c] <= (PAGE \div Size[c]) * Size[c]
    BY <1>3, <2>1, <2>2, FitsBelow, Zenon
  <2>4. QED BY <2>1, <2>3, Zenon
<1>7. ASSUME g.total_free[c] = 1, NEW q \in DOMAIN g.slab, g.slab[q].cache = c
      PROVE  Clear(g.slab[q]) \subseteq (IF q = s THEN {i} ELSE {})
  <2>1. h.total_free[c] = 0 /\ n = 1
    <3>1. \A x, y \in Nat : x + y = 1 /\ y > 0 => x = 0 /\ y = 1
      OBVIOUS
    <3>2. QED BY <1>1, <1>2, <1>4, <1>5, <1>7, <3>1, Zenon
  <2>2. CASE q = s
    <3>1. Clear(S) \subseteq {0}
      <4>1. 0 .. n - 1 = {0}
        BY <2>1
      <4>2. QED BY <4>1 DEF Clear, n
    <3>2. QED BY <1>2, <1>3, <2>2, <3>1
  <2>3. CASE q # s
    <3>1. q \in DOMAIN h.slab /\ g.slab[q] = h.slab[q]
      BY <1>2, <2>3
    <3>2. Clear(h.slab[q]) = {}
      BY <1>7, <2>1, <3>1 DEF Sound, NothingHidden
    <3>3. QED BY <3>1, <3>2
  <2>4. QED BY <2>2, <2>3
<1>8. s \in DOMAIN g.slab /\ i \in Clear(g.slab[s]) /\ g.slab[s].free_count > 0 /\ g.slab[s].cache = c
  BY <1>1, <1>2, <1>3, <1>5, Zenon
<1>9. First(g.slab[s]) = i
  BY <1>2 DEF i
<1>10. Ready(g, s, i)
  BY <1>5, <1>6, <1>7, <1>8, Zenon DEF Ready
<1>11. QED BY <1>9, <1>10

\* What growing a cache by a slab leaves, with a slot of it or without.
Grows(h, U, s, S, m, r) ==
    LET V == U \cup Given(r) IN
    /\ Sound(r.heap, V) /\ (Exact(h, U) => Exact(r.heap, V))
    /\ Given(r) \cap U = {} /\ r.fault = FALSE /\ r.meta = m
    /\ DOMAIN r.heap.slab = DOMAIN h.slab \cup {s} /\ r.heap.pages = h.pages
    /\ SomeLonger(r.heap) /\ \A d \in Cache : Longer(h, d) => Longer(r.heap, d)

LEMMA InsertGrows ==
  ASSUME HeapAssumption, NEW h, NEW U, Sound(h, U), NEW s, NEW S, Fresh(h, s, S), NEW m
  PROVE  Grows(h, U, s, S, m, Insert(h, s, S, m))
<1> DEFINE g == With(h, s, S)
           r == Insert(h, s, S, m)
<1>1. Added(h, g, s, S)
  BY WithAdds, Zenon
<1>2. r = Colour(g, s, m)
  BY InsertIs DEF Sound
<1> HIDE DEF g, r
<1>3. Sound(g, U) /\ (Exact(h, U) => Exact(g, U))
  BY <1>1, AddedSound, Zenon
<1>4. /\ DOMAIN g.slab = DOMAIN h.slab \cup {s} /\ g.slab[s] = S /\ g.pages = h.pages
      /\ S.cache \in Cache /\ Longer(g, S.cache)
      /\ \A d \in Cache : Longer(h, d) => Longer(g, d)
  BY <1>1, SlabFields, Zenon DEF Added, Fresh
<1>5. CASE Clear(S) = {}
  <2>1. r = Answer(g, Null, m)
    BY <1>2, <1>4, <1>5, Zenon DEF Colour
  <2>2. r.heap = g /\ r.object = Null /\ r.meta = m /\ r.fault = FALSE
    BY <2>1 DEF Answer
  <2>3. U \cup Given(r) = U /\ Given(r) \cap U = {}
    BY <2>2 DEF Given
  <2>4. QED BY <1>3, <1>4, <2>2, <2>3, Zenon DEF Grows, SomeLonger, r
<1>6. CASE Clear(S) # {}
  <2>1. Ready(g, s, First(g.slab[s]))
    BY <1>1, <1>6, AddedReady, Zenon
  <2>2. Took(g, U, m, r)
    BY <1>2, <1>3, <2>1, FillOutcome, Zenon
  <2>3. /\ Sound(r.heap, U \cup Given(r)) /\ (Exact(g, U) => Exact(r.heap, U \cup Given(r)))
        /\ Given(r) \cap U = {} /\ r.fault = FALSE /\ r.meta = m
        /\ DOMAIN r.heap.slab = DOMAIN g.slab /\ r.heap.pages = g.pages
        /\ r.heap.pool_list = g.pool_list
    BY <2>2, Zenon DEF Took
  <2>4. \A d \in Cache : Longer(r.heap, d) <=> Longer(g, d)
    BY <2>3 DEF Longer
  <2>5. QED BY <1>3, <1>4, <2>3, <2>4, Zenon DEF Grows, SomeLonger, r
<1>7. QED BY <1>5, <1>6

LEMMA SmallIsFresh ==
  ASSUME HeapAssumption, NEW h, NEW s \in Page, s \notin h.pages \cup DOMAIN h.slab,
         NEW c \in Cache, NEW n \in Nat, NEW used \in SUBSET Nat, used = {} \/ n = PAGE \div Size[c]
  PROVE  Fresh(h, s, FreshSlab(c, n, used, FALSE))
<1> DEFINE S == FreshSlab(c, n, used, FALSE)
<1>1. /\ S.cache = c /\ S.color_count = n /\ S.free_count = n /\ S.using_count = 0
      /\ S.color_map = used /\ S.container = FALSE /\ S \in Slab
  BY DEF FreshSlab, Slab
<1> HIDE DEF S
<1>2. QED BY <1>1 DEF Fresh, S

\* A request for a small object.
LEMMA SmallSane ==
  ASSUME HeapAssumption, NEW h, NEW U, Sound(h, U), NEW c \in Cache, NEW m
  PROVE  Sane(h, U, c, m, AllocateSmall(h, c, m))
<1> DEFINE r == AllocateSmall(h, c, m)
<1>1. CASE h.total_free[c] # 0
  <2>1. r = Walk(h, c, m)
    BY <1>1 DEF AllocateSmall
  <2>2. QED BY <1>1, <2>1, WalkSane
<1>2. CASE h.total_free[c] = 0 /\ h.pages = {}
  <2>1. r = Answer(h, Null, m)
    BY <1>2 DEF AllocateSmall
  <2>2. r.heap = h /\ r.object = Null /\ r.meta = m /\ r.fault = FALSE
    BY <2>1 DEF Answer
  <2> HIDE DEF r
  <2>3. U \cup Given(r) = U /\ Given(r) \cap U = {} /\ Keeps(h, h)
    BY <2>2 DEF Given, Keeps
  <2>4. QED BY <1>2, <2>2, <2>3 DEF Sane, r
<1>3. CASE h.total_free[c] = 0 /\ h.pages # {}
  <2> DEFINE g == Taken(h)
             p == Supply(h)
             S == FreshSlab(c, SmallCount(c), {}, FALSE)
  <2>1. r = Insert(g, p, S, m)
    BY <1>3 DEF AllocateSmall
  <2>2. /\ p \in h.pages /\ g.pages = h.pages \ {p} /\ g.slab = h.slab /\ g.pool_list = h.pool_list
        /\ Sound(g, U) /\ (Exact(h, U) => Exact(g, U))
        /\ p \in Page /\ p \notin g.pages \cup DOMAIN g.slab
    BY <1>3, TakenSound
  <2> HIDE DEF g, p, r
  <2>3. Fresh(g, p, S)
    BY <2>2, CountOfSmall, SmallIsFresh
  <2>4. Grows(g, U, p, S, m, r)
    BY <2>1, <2>2, <2>3, InsertGrows, Zenon
  <2> HIDE DEF S
  <2>5. /\ Sound(r.heap, U \cup Given(r)) /\ (Exact(g, U) => Exact(r.heap, U \cup Given(r)))
        /\ Given(r) \cap U = {} /\ r.fault = FALSE /\ r.meta = m
        /\ DOMAIN r.heap.slab = DOMAIN g.slab \cup {p} /\ r.heap.pages = g.pages
        /\ SomeLonger(r.heap) /\ \A d \in Cache : Longer(g, d) => Longer(r.heap, d)
    BY <2>4, Zenon DEF Grows
  <2>6. \A d \in Cache : Longer(g, d) <=> Longer(h, d)
    BY <2>2 DEF Longer
  <2>7. Keeps(h, r.heap)
    BY <2>2, <2>5, <2>6 DEF Keeps
  <2>8. QED BY <1>3, <2>2, <2>5, <2>7 DEF Sane, r
<1>4. QED BY <1>1, <1>2, <1>3

-----------------------------------------------------------------------------
(* A request *)

\* The bits that the clearing of a large slab's map leaves are bits of it.
LEMMA LargeMapIsSmall ==
  ASSUME NEW n \in Nat
  PROVE  LargeMap(n) \in SUBSET Nat
  BY DEF LargeMap

\* A large cache grows by a page with a Slab and a map, two small objects.
\* It faults after it had any of them, and gives all three or none.
Large(h, U, c, m, r) ==
    LET extra == UNION {r.meta[p] : p \in DOMAIN r.meta \ DOMAIN m}
        V == U \cup Given(r) \cup extra
    IN /\ r.fault = FALSE
       /\ Sound(r.heap, V) /\ (Exact(h, U) => Exact(r.heap, V))
       /\ Given(r) \cap U = {} /\ extra \cap U = {} /\ Given(r) \cap extra = {} /\ Null \notin extra
       /\ DOMAIN m \subseteq DOMAIN r.meta /\ \A p \in DOMAIN m : r.meta[p] = m[p]
       /\ DOMAIN r.meta \subseteq DOMAIN m \cup DOMAIN r.heap.slab
       /\ DOMAIN h.slab \subseteq DOMAIN r.heap.slab
       /\ r.object = Null => h.total_free[c] = 0

Faults(h, U, r) ==
    /\ r.fault = TRUE /\ r.object = Null /\ r.meta = meta
    /\ Sound(r.heap, U) /\ DOMAIN h.slab \subseteq DOMAIN r.heap.slab
    /\ r.heap.pages = {} \/ SomeLonger(r.heap)

\* What is sound of more objects is sound of fewer.
LEMMA Fewer ==
  ASSUME NEW h, NEW U, NEW V, U \subseteq V, Sound(h, V)
  PROVE  Sound(h, U)
  BY DEF Sound, Placed

LEMMA KeepsOn ==
  ASSUME NEW f, NEW g, NEW h, Keeps(f, g), Keeps(g, h)
  PROVE  Keeps(f, h)
  BY DEF Keeps

LEMMA KeepsLonger ==
  ASSUME NEW g, NEW h, Keeps(g, h), g.pages = {} \/ SomeLonger(g)
  PROVE  h.pages = {} \/ SomeLonger(h)
  BY DEF Keeps, SomeLonger

LEMMA GrowLargeSane ==
  ASSUME HeapAssumption, NEW h, NEW U, Sound(h, U), NEW c \in Cache, ~ Small(c),
         NEW m, m = meta, DOMAIN m \subseteq DOMAIN h.slab, h.total_free[c] = 0
  PROVE  LET r == GrowLarge(h, c, m) IN Large(h, U, c, m, r) \/ Faults(h, U, r)
<1> DEFINE n == PAGE \div Size[c]
           p == Supply(h)
           g == Taken(h)
           d == CacheFor(SLAB)
           e == CacheFor(Length(n))
           a == AllocateSmall(g, d, m)
           b == AllocateSmall(a.heap, e, m)
           r == GrowLarge(h, c, m)
           S == FreshSlab(c, n, LargeMap(n), FALSE)
           mm == [q \in DOMAIN m \cup {p} |-> IF q = p THEN {a.object, b.object} ELSE m[q]]
<1>1. r = IF h.pages = {} THEN Answer(h, Null, m)
          ELSE IF a.fault \/ a.object = Null \/ b.fault \/ b.object = Null THEN Fault(b.heap)
          ELSE Insert(b.heap, p, S, mm)
  BY Zenon DEF GrowLarge
<1>2. n \in Nat /\ d \in Cache /\ e \in Cache
  <2>1. n \in Nat /\ SLAB \in Nat /\ SLAB <= LIMIT
    BY Counts, Within
  <2>2. Length(n) \in Nat /\ Length(n) <= LIMIT
    BY MapIsSmall
  <2>3. QED BY <2>1, <2>2, CacheOf, Zenon
<1>3. CASE h.pages = {}
  <2>1. r = Answer(h, Null, m)
    BY <1>1, <1>3
  <2>2. r.heap = h /\ r.object = Null /\ r.meta = m /\ r.fault = FALSE
    BY <2>1 DEF Answer
  <2> HIDE DEF r
  <2>3. Given(r) = {} /\ UNION {r.meta[q] : q \in DOMAIN r.meta \ DOMAIN m} = {}
    BY <2>2 DEF Given
  <2>4. QED BY <2>2, <2>3, ZenonT(40) DEF Large, r
<1>4. CASE h.pages # {}
  <2>1. /\ p \in h.pages /\ g.pages = h.pages \ {p} /\ g.slab = h.slab /\ g.pool_list = h.pool_list
        /\ Sound(g, U) /\ (Exact(h, U) => Exact(g, U))
        /\ p \in Page /\ p \notin g.pages \cup DOMAIN g.slab
    BY <1>4, TakenSound
  <2> HIDE DEF g, p, d, e, n
  <2>2. Sane(g, U, d, m, a)
    BY <1>2, <2>1, SmallSane, Zenon
  <2> DEFINE V == U \cup Given(a)
             W == V \cup Given(b)
  <2>3. Sound(a.heap, V) /\ (Exact(g, U) => Exact(a.heap, V)) /\ Given(a) \cap U = {} /\ Keeps(g, a.heap)
    BY <2>2, Zenon DEF Sane
  <2>4. Sane(a.heap, V, e, m, b)
    BY <1>2, <2>3, SmallSane, Zenon
  <2> HIDE DEF a
  <2>5. Sound(b.heap, W) /\ (Exact(a.heap, V) => Exact(b.heap, W)) /\ Given(b) \cap V = {} /\ Keeps(a.heap, b.heap)
    BY <2>4, Zenon DEF Sane
  <2> HIDE DEF b
  <2>6. Keeps(g, b.heap)
    BY <2>3, <2>5, KeepsOn
  <2>7. CASE a.fault \/ a.object = Null \/ b.fault \/ b.object = Null
    <3>1. r = Fault(b.heap)
      BY <1>1, <1>4, <2>7
    <3>2. r.heap = b.heap /\ r.object = Null /\ r.meta = meta /\ r.fault = TRUE
      BY <3>1 DEF Fault, Answer
    <3> HIDE DEF r
    <3>3. b.heap.pages = {} \/ SomeLonger(b.heap)
      <4>1. CASE a.fault
        <5>1. a.heap = g /\ SomeLonger(g)
          BY <2>2, <4>1 DEF Sane
        <5>2. QED BY <2>6, <5>1, KeepsLonger
      <4>2. CASE ~ a.fault /\ a.object = Null
        <5>1. a.heap.pages = {} \/ SomeLonger(a.heap)
          BY <2>2, <4>2 DEF Sane
        <5>2. QED BY <2>5, <5>1, KeepsLonger
      <4>3. CASE b.fault
        <5>1. b.heap = a.heap /\ SomeLonger(a.heap)
          BY <2>4, <4>3 DEF Sane
        <5>2. QED BY <2>5, <5>1, KeepsLonger
      <4>4. CASE ~ b.fault /\ b.object = Null
        BY <2>4, <4>4 DEF Sane
      <4>5. QED BY <2>7, <4>1, <4>2, <4>3, <4>4
    <3>4. Sound(b.heap, U)
      BY <2>5, Fewer
    <3>5. DOMAIN h.slab \subseteq DOMAIN b.heap.slab
      BY <2>1, <2>6 DEF Keeps
    <3>6. QED BY <3>2, <3>3, <3>4, <3>5 DEF Faults, r
  <2>8. CASE ~ (a.fault \/ a.object = Null \/ b.fault \/ b.object = Null)
    <3>1. r = Insert(b.heap, p, S, mm)
      BY <1>1, <1>4, <2>8
    <3>2. p \notin b.heap.pages \cup DOMAIN b.heap.slab /\ p \in Page
      BY <2>1, <2>6 DEF Keeps
    <3>3. Fresh(b.heap, p, S)
      BY <1>2, <3>2, LargeMapIsSmall, SmallIsFresh DEF n
    <3> HIDE DEF S, W, mm, r
    <3>4. Grows(b.heap, W, p, S, mm, r)
      <4>1. Grows(b.heap, W, p, S, mm, Insert(b.heap, p, S, mm))
        BY <2>5, <3>3, InsertGrows
      <4>2. QED BY <3>1, <4>1
    <3>5. /\ Sound(r.heap, W \cup Given(r)) /\ (Exact(b.heap, W) => Exact(r.heap, W \cup Given(r)))
          /\ Given(r) \cap W = {} /\ r.fault = FALSE /\ r.meta = mm
          /\ DOMAIN r.heap.slab = DOMAIN b.heap.slab \cup {p}
      BY <3>4, Zenon DEF Grows
    <3>6. Given(a) = {a.object} /\ Given(b) = {b.object} /\ a.object # Null /\ b.object # Null
      BY <2>8 DEF Given
    <3>7. p \notin DOMAIN m
      BY <2>1
    <3>8. DOMAIN mm = DOMAIN m \cup {p} /\ mm[p] = {a.object, b.object} /\ \A q \in DOMAIN m : mm[q] = m[q]
      BY <3>7 DEF mm
    <3> DEFINE extra == UNION {r.meta[q] : q \in DOMAIN r.meta \ DOMAIN m}
    <3>9. extra = {a.object, b.object}
      <4>1. DOMAIN mm \ DOMAIN m = {p}
        BY <3>7, <3>8
      <4>2. extra = UNION {mm[q] : q \in {p}}
        BY <3>5, <4>1, Zenon
      <4>3. {mm[q] : q \in {p}} = {mm[p]}
        OBVIOUS
      <4>4. QED BY <3>8, <4>2, <4>3, ZenonT(40)
    <3> HIDE DEF extra
    <3>10. U \cup Given(r) \cup extra = W \cup Given(r)
      BY <3>6, <3>9 DEF W
    <3>11. Given(r) \cap U = {} /\ extra \cap U = {} /\ Given(r) \cap extra = {} /\ Null \notin extra
      BY <2>3, <2>5, <3>5, <3>6, <3>9 DEF W
    <3>12. DOMAIN h.slab \subseteq DOMAIN r.heap.slab
      BY <2>1, <2>6, <3>5 DEF Keeps
    <3>13. Exact(h, U) => Exact(r.heap, W \cup Given(r))
      BY <2>1, <2>3, <2>5, <3>5
    <3>14. DOMAIN r.meta \subseteq DOMAIN m \cup DOMAIN r.heap.slab
      BY <3>5, <3>8
    <3>15. Large(h, U, c, m, r)
      BY <3>5, <3>8, <3>10, <3>11, <3>12, <3>13, <3>14, Zenon DEF Large, extra
    <3>16. QED BY <3>15 DEF r
  <2>9. QED BY <2>7, <2>8
<1>5. QED BY <1>3, <1>4

LEMMA SaneIsLarge ==
  ASSUME NEW h, NEW U, Sound(h, U), NEW c, NEW m, NEW r, Sane(h, U, c, m, r)
  PROVE  Large(h, U, c, m, r) \/ Faults(h, U, r)
<1>1. /\ Sound(r.heap, U \cup Given(r)) /\ (Exact(h, U) => Exact(r.heap, U \cup Given(r)))
      /\ Given(r) \cap U = {} /\ Keeps(h, r.heap) /\ r.fault \in BOOLEAN
      /\ r.fault => r.heap = h /\ r.object = Null /\ r.meta = meta /\ SomeLonger(h)
      /\ ~ r.fault => r.meta = m
      /\ r.object = Null /\ ~ r.fault => h.total_free[c] = 0
  BY Zenon DEF Sane
<1>2. CASE r.fault
  BY <1>1, <1>2 DEF Faults
<1>3. CASE ~ r.fault
  <2> DEFINE extra == UNION {r.meta[p] : p \in DOMAIN r.meta \ DOMAIN m}
  <2>1. r.meta = m /\ r.fault = FALSE
    BY <1>1, <1>3
  <2>2. extra = {}
    BY <2>1
  <2> HIDE DEF extra
  <2>3. U \cup Given(r) \cup extra = U \cup Given(r)
    BY <2>2
  <2>4. DOMAIN h.slab \subseteq DOMAIN r.heap.slab
    BY <1>1 DEF Keeps
  <2>5. /\ extra \cap U = {} /\ Given(r) \cap extra = {} /\ Null \notin extra
        /\ DOMAIN m \subseteq DOMAIN r.meta /\ \A p \in DOMAIN m : r.meta[p] = m[p]
        /\ DOMAIN r.meta \subseteq DOMAIN m \cup DOMAIN r.heap.slab
    BY <2>1, <2>2
  <2>6. QED BY <1>1, <1>3, <2>1, <2>3, <2>4, <2>5, Zenon DEF Large, extra
<1>4. QED BY <1>2, <1>3

LEMMA AllocateSane ==
  ASSUME HeapAssumption, NEW h, NEW U, Sound(h, U), NEW n \in Nat,
         NEW m, m = meta, DOMAIN m \subseteq DOMAIN h.slab
  PROVE  LET r == _allocate(h, n, m) IN
         /\ n <= LIMIT => Large(h, U, CacheFor(n), m, r) \/ Faults(h, U, r)
         /\ n > LIMIT => r = Answer(h, Null, m)
<1> DEFINE c == CacheFor(n)
           r == _allocate(h, n, m)
<1>1. r = IF n > LIMIT THEN Answer(h, Null, m)
          ELSE IF Small(c) THEN AllocateSmall(h, c, m)
          ELSE IF h.total_free[c] # 0 THEN Walk(h, c, m)
          ELSE GrowLarge(h, c, m)
  BY Zenon DEF _allocate
<1>2. LIMIT \in Nat
  BY DEF HeapAssumption
<1> HIDE DEF r
<1>3. ASSUME n <= LIMIT PROVE Large(h, U, c, m, r) \/ Faults(h, U, r)
  <2>1. c \in Cache /\ ~ (n > LIMIT)
    BY <1>2, <1>3, CacheOf
  <2> HIDE DEF c
  <2>2. CASE Small(c)
    BY <1>1, <2>1, <2>2, SmallSane, SaneIsLarge
  <2>3. CASE ~ Small(c) /\ h.total_free[c] # 0
    BY <1>1, <2>1, <2>3, WalkSane, SaneIsLarge
  <2>4. CASE ~ Small(c) /\ h.total_free[c] = 0
    <3>1. r = GrowLarge(h, c, m)
      BY <1>1, <2>1, <2>4
    <3>2. QED BY <2>1, <2>4, <3>1, GrowLargeSane
  <2>5. QED BY <2>2, <2>3, <2>4
<1>4. n > LIMIT => r = Answer(h, Null, m)
  BY <1>1
<1>5. QED BY <1>3, <1>4 DEF r

-----------------------------------------------------------------------------
(* A release *)

\* Releasing an object whose search does not fault frees a slot of the slab
\* of initialize, which is the only one of its cache.
Freed(h, s, i) ==
    LET S == h.slab[s] IN
    Written(h, s, S.color_map \ {i}, S.using_count - 1, S.free_count + 1,
            h.total_free[S.cache] + 1, h.total_using[S.cache] - 1)

LEMMA Searches ==
  ASSUME HeapAssumption, NEW h, NEW U, Sound(h, U), NEW s \in DOMAIN h.slab
  PROVE  LET c == h.slab[s].cache IN
         /\ FindFaults(h, s) => SomeLonger(h)
         /\ ~ FindFaults(h, s) => s = Pool(c) /\ ~ Longer(h, c)
<1> DEFINE c == h.slab[s].cache
           l == h.pool_list[c]
           at == CHOOSE k \in DOMAIN l : l[k] = s
<1>1. c \in Cache /\ Typed(h) /\ \A d \in Cache : h.pool_list[d] \in Seq(Page)
  BY SlabOf DEF Sound, Typed
<1>2. at \in DOMAIN l /\ l[at] = s
  <2>1. \E k \in DOMAIN l : l[k] = s
    BY DEF Sound, SlabsAreListed
  <2>2. QED BY <2>1
<1>3. FindFaults(h, s) <=>
          \/ \E d \in 1 .. c - 1 : \E k \in DOMAIN h.pool_list[d] : Nameless(h, h.pool_list[d][k])
          \/ \E k \in 1 .. at : Nameless(h, l[k])
  BY Zenon DEF FindFaults
<1> HIDE DEF at
<1>4. l \in Seq(Page) /\ at \in 1 .. Len(l) /\ Len(l) \in Nat
  <2>1. \A z \in Seq(Page) : DOMAIN z = 1 .. Len(z) /\ Len(z) \in Nat
    OBVIOUS
  <2>2. QED BY <1>1, <1>2, <2>1, Zenon
<1>5. ASSUME NEW d \in Cache, NEW k \in DOMAIN h.pool_list[d], Nameless(h, h.pool_list[d][k])
      PROVE  SomeLonger(h)
  <2> SUFFICES ASSUME ~ Longer(h, d) PROVE FALSE
    BY DEF SomeLonger
  <2>1. DOMAIN h.pool_list[d] = {1} /\ h.pool_list[d][1] = Pool(d)
    BY Single DEF Sound
  <2>2. ~ Nameless(h, Pool(d))
    BY DEF Sound, PoolsAgree, Top, Nameless
  <2>3. k = 1
    BY <2>1
  <2>4. QED BY <1>5, <2>1, <2>2, <2>3
<1>6. ASSUME FindFaults(h, s) PROVE SomeLonger(h)
  <2>1. CASE \E d \in 1 .. c - 1 : \E k \in DOMAIN h.pool_list[d] : Nameless(h, h.pool_list[d][k])
    <3>1. \A d \in 1 .. c - 1 : d \in Cache
      BY <1>1, Sizes, SMTT(40)
    <3>2. QED BY <1>5, <2>1, <3>1
  <2>2. CASE \E k \in 1 .. at : Nameless(h, l[k])
    <3>1. \A k \in 1 .. at : k \in DOMAIN l
      <4>1. DOMAIN l = 1 .. Len(l)
        BY <1>4
      <4> HIDE DEF l
      <4>2. QED BY <1>4, <4>1
    <3>2. QED BY <1>1, <1>5, <2>2, <3>1
  <2>3. QED BY <1>3, <1>6, <2>1, <2>2
<1>7. ASSUME ~ FindFaults(h, s) PROVE s = Pool(c) /\ ~ Longer(h, c)
  <2>1. 1 \in 1 .. at /\ at \in 1 .. at
    BY <1>4
  <2>2. ~ Nameless(h, l[1]) /\ ~ Nameless(h, l[at])
    BY <1>3, <1>7, <2>1, Zenon
  <2>3. s = Pool(c)
    BY <1>2, <2>2 DEF Sound, SlabsAreListed
  <2>4. ~ Longer(h, c)
    BY <1>1, <2>2 DEF Sound, PoolsAreLast
  <2>5. QED BY <2>3, <2>4
<1>8. QED BY <1>6, <1>7

LEMMA UncolourFrees ==
  ASSUME HeapAssumption, NEW h, Typed(h), NEW s \in DOMAIN h.slab, NEW i \in h.slab[s].color_map,
         (i + 1) * Size[h.slab[s].cache] <= PAGE
  PROVE  /\ Slot(h, s, i)[1] \div PAGE = s
         /\ Uncolour(h, Slot(h, s, i)[1]) = Freed(h, s, i)
<1> DEFINE S == h.slab[s]
           c == S.cache
           a == Slot(h, s, i)[1]
           x == Flip(S.color_map, (a - s * PAGE) \div Size[c])
           y == S.using_count - 1
           z == S.free_count + 1
           tf == h.total_free[c] + 1
           tu == h.total_using[c] - 1
<1>1. i \in Nat
  BY SlabOf, SlabFields
<1>2. SlotLies(h, s, i)
  BY <1>1, SlotsLie
<1>3. a \div PAGE = s /\ (a - s * PAGE) \div Size[c] = i
  BY <1>2, Zenon DEF SlotLies
<1>4. x = S.color_map \ {i}
  BY <1>3, Zenon DEF Flip
<1> HIDE DEF a
<1>5. Uncolour(h, a) = [h EXCEPT !.slab[s].color_map = x, !.slab[s].using_count = y,
                                 !.slab[s].free_count = z,
                                 !.total_free[c] = tf, !.total_using[c] = tu]
  BY <1>3, Zenon DEF Uncolour
<1>6. Uncolour(h, a) = Write(h, s, x, y, z, tf, tu)
  BY <1>5, Zenon DEF Write
<1> HIDE DEF x
<1>7. Write(h, s, x, y, z, tf, tu) = Written(h, s, x, y, z, tf, tu)
  <2> HIDE DEF y, z, tf, tu
  <2>1. QED BY Writing
<1>8. Freed(h, s, i) = Written(h, s, x, y, z, tf, tu)
  BY <1>4, Zenon DEF Freed
<1>9. QED BY <1>3, <1>6, <1>7, <1>8, Zenon DEF a

\* The slots of a slab of initialize fit in its page.
LEMMA PoolFits ==
  ASSUME HeapAssumption, NEW h, Typed(h), PoolsAgree(h), NEW c \in Cache,
         NEW i \in h.slab[Pool(c)].color_map
  PROVE  i \in Nat /\ (i + 1) * Size[h.slab[Pool(c)].cache] <= PAGE
<1> DEFINE n == PAGE \div Size[c]
<1>1. n \in Nat /\ n * Size[c] = PAGE /\ Size[c] \in Nat
  BY Counts, Sizes
<1> HIDE DEF n
<1>2. h.slab[Pool(c)].cache = c /\ i \in 0 .. n - 1
  BY DEF PoolsAgree, Top, n
<1>3. i \in Nat /\ i < n
  BY <1>1, <1>2
<1>4. (i + 1) * Size[c] <= n * Size[c]
  BY <1>1, <1>3, FitsBelow, Zenon
<1>5. QED BY <1>1, <1>2, <1>3, <1>4, Zenon

\* Two slots of the same place are the same slot.
LEMMA SameSlot ==
  ASSUME HeapAssumption, NEW h, Typed(h),
         NEW s \in DOMAIN h.slab, NEW i \in Nat, (i + 1) * Size[h.slab[s].cache] <= PAGE,
         NEW t \in DOMAIN h.slab, NEW j \in Nat, (j + 1) * Size[h.slab[t].cache] <= PAGE,
         Slot(h, s, i) = Slot(h, t, j)
  PROVE  s = t /\ i = j
<1>1. SlotLies(h, s, i)
  BY SlotsLie, Zenon
<1>2. SlotLies(h, t, j)
  BY SlotsLie, Zenon
<1>3. s = t
  BY <1>1, <1>2, Zenon DEF SlotLies
<1>4. i = j
  BY <1>1, <1>2, <1>3, Zenon DEF SlotLies
<1>5. QED BY <1>3, <1>4

\* What it leaves.
Frees(h, U, s, i, g) ==
    LET V == U \ {Slot(h, s, i)} IN
    /\ Sound(g, V) /\ (Exact(h, U) => Exact(g, V))
    /\ DOMAIN g.slab = DOMAIN h.slab /\ g.slab[s].cache = h.slab[s].cache

LEMMA FreeSound ==
  ASSUME HeapAssumption, NEW h, NEW U, Sound(h, U), NEW s \in DOMAIN h.slab,
         s = Pool(h.slab[s].cache), ~ Longer(h, h.slab[s].cache),
         NEW i \in h.slab[s].color_map
  PROVE  Frees(h, U, s, i, Freed(h, s, i))
<1> DEFINE S == h.slab[s]
           c == S.cache
           g == Freed(h, s, i)
           o == Slot(h, s, i)
           V == U \ {o}
<1>1. Typed(h) /\ PoolsAgree(h) /\ S \in Slab /\ c \in Cache /\ s = Pool(c) /\ ~ Longer(h, c)
  BY SlabOf DEF Sound
<1>2. /\ S.color_count \in Nat /\ S.free_count \in Nat /\ S.using_count \in Nat
      /\ S.color_map \subseteq Nat /\ h.total_free[c] \in Nat /\ h.total_using[c] \in Nat
  BY <1>1, SlabFields DEF Typed
<1>3. /\ S.container /\ S.color_count = PAGE \div Size[c]
      /\ S.color_map \subseteq 0 .. S.color_count - 1
      /\ S.using_count = Cardinality(S.color_map)
      /\ S.free_count = S.color_count - S.using_count
      /\ h.total_free[c] = S.free_count /\ h.total_using[c] = S.using_count
      /\ IsFiniteSet(S.color_map)
  <2>1. LET T == h.slab[Pool(c)] IN
        /\ T.container /\ T.color_count = PAGE \div Size[c]
        /\ T.color_map \subseteq 0 .. T.color_count - 1
        /\ T.using_count = Cardinality(T.color_map)
        /\ T.free_count = T.color_count - T.using_count
    BY <1>1, Zenon DEF PoolsAgree, Top
  <2>2. /\ h.total_free[c] = h.slab[Pool(c)].free_count
        /\ h.total_using[c] = h.slab[Pool(c)].using_count
    BY <1>1, Zenon DEF Sound, TotalsAgree, Top
  <2>3. IsFiniteSet(h.slab[Pool(c)].color_map)
    BY <1>1, PoolSlab
  <2>4. h.slab[Pool(c)] = S
    BY <1>1, Zenon
  <2> HIDE DEF S, c
  <2>5. QED BY <2>1, <2>2, <2>3, <2>4, Zenon
<1>4. i \in Nat /\ (i + 1) * Size[c] <= PAGE
  BY <1>1, PoolFits
<1>5. IsFiniteSet(S.color_map \ {i}) /\ Cardinality(S.color_map \ {i}) = S.using_count - 1
  <2>1. i \in S.color_map
    OBVIOUS
  <2> DEFINE M == S.color_map
  <2>2. IsFiniteSet(M) /\ S.using_count = Cardinality(M) /\ i \in M
    BY <1>3, <2>1, Zenon
  <2> HIDE DEF M, S
  <2>3. IsFiniteSet(M \ {i}) /\ Cardinality(M \ {i}) = Cardinality(M) - 1
    BY <2>2, FS_RemoveElement
  <2>4. QED BY <2>2, <2>3, Zenon DEF M
<1>6. S.using_count - 1 \in Nat
  BY <1>5, FS_CardinalityType
<1> DEFINE x == S.color_map \ {i}
           y == S.using_count - 1
           z == S.free_count + 1
           tf == h.total_free[c] + 1
           tu == h.total_using[c] - 1
<1>7. x \in SUBSET Nat /\ y \in Nat /\ z \in Nat /\ tf \in Nat /\ tu \in Nat
  <2>1. \A n \in Nat : n + 1 \in Nat
    OBVIOUS
  <2>2. x \in SUBSET Nat
    BY <1>2
  <2>3. QED BY <1>2, <1>3, <1>6, <2>1, <2>2, Zenon
<1>8. Wrote(h, g, s, x, y, z, tf, tu)
  <2>1. g = Written(h, s, x, y, z, tf, tu)
    BY Zenon DEF Freed
  <2> HIDE DEF x, y, z, tf, tu, g
  <2>2. QED BY <1>1, <1>7, <2>1, WrittenFields
<1> HIDE DEF g, S, c
<1>9. /\ Typed(g) /\ DOMAIN g.slab = DOMAIN h.slab
      /\ g.pool_list = h.pool_list /\ g.pages = h.pages
      /\ \A q \in DOMAIN h.slab \ {s} : g.slab[q] = h.slab[q]
      /\ g.total_free[c] = tf /\ g.total_using[c] = tu
      /\ \A d \in Cache \ {c} : g.total_free[d] = h.total_free[d] /\ g.total_using[d] = h.total_using[d]
  BY <1>8, Zenon DEF Wrote, S, c
<1>10. /\ g.slab[s].cache = c /\ g.slab[s].color_count = S.color_count
       /\ g.slab[s].free_count = z /\ g.slab[s].using_count = y
       /\ g.slab[s].color_map = x /\ g.slab[s].container = S.container
  <2>1. g.slab[s] = [cache |-> c, color_count |-> S.color_count, free_count |-> z,
                     using_count |-> y, color_map |-> x, container |-> S.container]
    BY <1>8, Zenon DEF Wrote, S, c
  <2> HIDE DEF x, y, z
  <2>2. QED BY <2>1
<1>11. \A q \in DOMAIN h.slab : /\ g.slab[q].cache = h.slab[q].cache
                                /\ g.slab[q].container = h.slab[q].container
  BY <1>9, <1>10 DEF S, c
<1>12. \A d \in Cache : Longer(g, d) <=> Longer(h, d)
  BY <1>9 DEF Longer
<1>13. \A d \in Cache : /\ Pool(d) \in DOMAIN h.slab /\ h.slab[Pool(d)].cache = d
                        /\ d # c => Pool(d) # s /\ g.slab[Pool(d)] = h.slab[Pool(d)]
  <2> SUFFICES ASSUME NEW d \in Cache
               PROVE  /\ Pool(d) \in DOMAIN h.slab /\ h.slab[Pool(d)].cache = d
                      /\ d # c => Pool(d) # s /\ g.slab[Pool(d)] = h.slab[Pool(d)]
    OBVIOUS
  <2>1. Pool(d) \in DOMAIN h.slab /\ h.slab[Pool(d)].cache = d
    BY <1>1, PoolSlab
  <2>2. d # c => Pool(d) # s
    BY <2>1 DEF c, S
  <2>3. QED BY <1>9, <2>1, <2>2
<1>14. PoolsAgree(g)
  <2> SUFFICES ASSUME NEW d \in Cache
               PROVE  LET T == g.slab[Pool(d)] IN
                      /\ Pool(d) \in DOMAIN g.slab
                      /\ T.cache = d /\ T.container /\ T.color_count = PAGE \div Size[d]
                      /\ T.color_map \subseteq 0 .. T.color_count - 1
                      /\ T.using_count = Cardinality(T.color_map)
                      /\ T.free_count = T.color_count - T.using_count
    BY DEF PoolsAgree, Top
  <2>1. CASE d # c
    <3>1. g.slab[Pool(d)] = h.slab[Pool(d)] /\ Pool(d) \in DOMAIN g.slab
      BY <1>9, <1>13, <2>1
    <3>2. QED BY <1>1, <3>1, Zenon DEF PoolsAgree, Top
  <2>2. CASE d = c
    <3>1. z = S.color_count - y
      <4>1. \A p, q, r \in Nat : r = p - q => r + 1 = p - (q - 1)
        OBVIOUS
      <4>2. QED BY <1>2, <1>3, <4>1
    <3>2. x \subseteq 0 .. S.color_count - 1
      BY <1>3
    <3>3. y = Cardinality(x)
      BY <1>5
    <3> HIDE DEF x, y, z
    <3>4. Pool(d) = s /\ Pool(d) \in DOMAIN g.slab
      BY <1>1, <1>9, <2>2
    <3>5. QED BY <1>3, <1>10, <2>2, <3>1, <3>2, <3>3, <3>4, Zenon
  <2>3. QED BY <2>1, <2>2
<1>15. PoolsAreLast(g)
  <2> SUFFICES ASSUME NEW d \in Cache
               PROVE  LET list == h.pool_list[d] IN
                      /\ Len(list) > 0 /\ list[Len(list)] = Pool(d)
                      /\ Longer(h, d) => list[1] \in DOMAIN h.slab /\ ~ g.slab[list[1]].container
    BY <1>9, <1>12, Zenon DEF PoolsAreLast, Nameless
  <2>1. LET list == h.pool_list[d] IN
        /\ Len(list) > 0 /\ list[Len(list)] = Pool(d)
        /\ Longer(h, d) => list[1] \in DOMAIN h.slab /\ ~ h.slab[list[1]].container
    BY Zenon DEF Sound, PoolsAreLast, Nameless
  <2>2. QED BY <1>11, <2>1, Zenon
<1>16. SlabsAreListed(g)
  BY <1>9, <1>11 DEF Sound, SlabsAreListed, Nameless
<1>17. TotalsAgree(g)
  <2> SUFFICES ASSUME NEW d \in Cache, ~ Longer(h, d)
               PROVE  /\ g.total_free[d] = g.slab[Pool(d)].free_count
                      /\ g.total_using[d] = g.slab[Pool(d)].using_count
    BY <1>12 DEF TotalsAgree, Top
  <2>1. CASE d # c
    <3>1. /\ h.total_free[d] = h.slab[Pool(d)].free_count
          /\ h.total_using[d] = h.slab[Pool(d)].using_count
      BY DEF Sound, TotalsAgree, Top
    <3>2. g.slab[Pool(d)] = h.slab[Pool(d)] /\ g.total_free[d] = h.total_free[d]
          /\ g.total_using[d] = h.total_using[d]
      BY <1>9, <1>13, <2>1
    <3>3. QED BY <3>1, <3>2, Zenon
  <2>2. CASE d = c
    <3>1. tf = z /\ tu = y
      BY <1>3, Zenon
    <3> HIDE DEF tf, tu, y, z
    <3>2. QED BY <1>1, <1>9, <1>10, <2>2, <3>1, Zenon
  <2>3. QED BY <2>1, <2>2
<1>18. NothingHidden(g)
  <2> SUFFICES ASSUME NEW q \in DOMAIN h.slab, g.total_free[h.slab[q].cache] = 0
               PROVE  Clear(g.slab[q]) = {}
    BY <1>9, <1>11 DEF NothingHidden
  <2>1. h.slab[q].cache # c
    <3>1. \A n \in Nat : n + 1 # 0
      OBVIOUS
    <3>2. tf # 0
      BY <1>2, <3>1, Zenon
    <3> HIDE DEF tf
    <3>3. QED BY <1>9, <3>2
  <2>2. q # s
    BY <2>1 DEF c, S
  <2>3. h.slab[q].cache \in Cache
    BY <1>1, SlabOf
  <2>4. h.total_free[h.slab[q].cache] = 0 /\ g.slab[q] = h.slab[q]
    BY <1>9, <2>1, <2>2, <2>3
  <2>5. QED BY <2>4 DEF Sound, NothingHidden
<1>19. \A q \in DOMAIN h.slab : \A j : Slot(g, q, j) = Slot(h, q, j)
  BY <1>11 DEF Slot
<1>20. Placed(g, V)
  <2> SUFFICES ASSUME NEW u \in V
               PROVE  \E q \in DOMAIN h.slab : \E j \in g.slab[q].color_map :
                          u = Slot(h, q, j) /\ (j + 1) * Size[h.slab[q].cache] <= PAGE
    <3>1. \A q \in DOMAIN h.slab : \A j : /\ Slot(g, q, j) = Slot(h, q, j)
                                         /\ g.slab[q].cache = h.slab[q].cache
      BY <1>11, <1>19, Zenon
    <3>2. DOMAIN g.slab = DOMAIN h.slab
      BY <1>9
    <3> HIDE DEF V
    <3>3. QED BY <3>1, <3>2 DEF Placed
  <2>1. PICK q \in DOMAIN h.slab : \E j \in h.slab[q].color_map :
            u = Slot(h, q, j) /\ (j + 1) * Size[h.slab[q].cache] <= PAGE
    BY DEF Sound, Placed
  <2>2. PICK j \in h.slab[q].color_map :
            u = Slot(h, q, j) /\ (j + 1) * Size[h.slab[q].cache] <= PAGE
    BY <2>1
  <2>3. j \in g.slab[q].color_map
    <3>1. CASE q # s
      <4>1. g.slab[q] = h.slab[q]
        BY <1>9, <3>1
      <4>2. QED BY <2>2, <4>1
    <3>2. CASE q = s
      <4>1. j # i
        BY <2>2, <3>2
      <4>2. QED BY <1>10, <2>2, <3>2, <4>1 DEF S
    <3>3. QED BY <3>1, <3>2
  <2>4. QED BY <2>2, <2>3
<1>21. Exact(h, U) => Exact(g, V)
  <2> SUFFICES ASSUME Exact(h, U), NEW d \in Cache, NEW j \in g.slab[Pool(d)].color_map
               PROVE  Slot(g, Pool(d), j) \in V
    BY DEF Exact, Top
  <2>1. Pool(d) \in DOMAIN h.slab /\ Slot(g, Pool(d), j) = Slot(h, Pool(d), j)
    BY <1>13, <1>19
  <2>2. j \in h.slab[Pool(d)].color_map /\ ~ (Pool(d) = s /\ j = i)
    <3>1. CASE d # c
      BY <1>13, <3>1
    <3>2. CASE d = c
      BY <1>1, <1>10, <3>2 DEF S
    <3>3. QED BY <3>1, <3>2
  <2>3. Slot(h, Pool(d), j) \in U
    BY <2>2 DEF Exact, Top
  <2>4. Slot(h, Pool(d), j) # o
    <3>1. j \in Nat /\ (j + 1) * Size[h.slab[Pool(d)].cache] <= PAGE
      BY <1>1, <2>2, PoolFits
    <3>2. (i + 1) * Size[h.slab[s].cache] <= PAGE
      BY <1>4 DEF c, S
    <3>3. Slot(h, Pool(d), j) = Slot(h, s, i) => Pool(d) = s /\ j = i
      BY <1>1, <1>4, <2>1, <3>1, <3>2, SameSlot, SMTT(40)
    <3>4. QED BY <2>2, <3>3
  <2>5. QED BY <2>1, <2>3, <2>4
<1>22. Sound(g, V)
  BY <1>9, <1>14, <1>15, <1>16, <1>17, <1>18, <1>20, Zenon DEF Sound
<1>23. QED BY <1>9, <1>10, <1>21, <1>22, Zenon DEF g, S, c, Frees

-----------------------------------------------------------------------------
(* The invariant *)

LEMMA PoolFresh ==
  ASSUME HeapAssumption, Init, NEW c \in Cache
  PROVE  /\ Pool(c) \in DOMAIN heap.slab
         /\ heap.slab[Pool(c)] = FreshSlab(c, PAGE \div Size[c], {}, TRUE)
<1> DEFINE ps == {Pool(d) : d \in Cache}
<1>1. heap.slab = [s \in ps |-> LET d == CHOOSE e \in Cache : Pool(e) = s IN
                               FreshSlab(d, PAGE \div Size[d], {}, TRUE)]
  BY DEF Init
<1>2. Pool(c) \in ps
  OBVIOUS
<1>3. (CHOOSE e \in Cache : Pool(e) = Pool(c)) = c
  BY Pools
<1> DEFINE F(d) == FreshSlab(d, PAGE \div Size[d], {}, TRUE)
<1> HIDE DEF F, ps
<1>4. heap.slab = [s \in ps |-> F(CHOOSE e \in Cache : Pool(e) = s)]
  BY <1>1 DEF F
<1>5. heap.slab[Pool(c)] = F(c) /\ Pool(c) \in DOMAIN heap.slab
  BY <1>2, <1>3, <1>4
<1>6. QED BY <1>5 DEF F

LEMMA InitIsSound ==
  ASSUME HeapAssumption, Init
  PROVE  IInv
<1> DEFINE ps == {Pool(d) : d \in Cache}
<1>1. /\ heap.pool_list = [c \in Cache |-> <<Pool(c)>>]
      /\ heap.total_free = [c \in Cache |-> PAGE \div Size[c]]
      /\ heap.total_using = [c \in Cache |-> 0] /\ heap.pages = Page \ ps
      /\ DOMAIN heap.slab = ps
      /\ heap = [slab |-> heap.slab, pool_list |-> heap.pool_list, total_free |-> heap.total_free,
                 total_using |-> heap.total_using, pages |-> heap.pages]
  BY DEF Init
<1>2. held = {} /\ lost = {} /\ fault = FALSE /\ DOMAIN meta = {}
  BY DEF Init
<1>3. InUse = {}
  BY <1>2 DEF InUse, Metadata
<1>4. ASSUME NEW c \in Cache
      PROVE  /\ PAGE \div Size[c] \in Nat \ {0} /\ Pool(c) \in Page /\ Pool(c) \in ps
             /\ heap.slab[Pool(c)] = FreshSlab(c, PAGE \div Size[c], {}, TRUE)
             /\ heap.slab[Pool(c)].cache = c /\ heap.slab[Pool(c)].container = TRUE
             /\ heap.slab[Pool(c)].color_count = PAGE \div Size[c]
             /\ heap.slab[Pool(c)].free_count = PAGE \div Size[c]
             /\ heap.slab[Pool(c)].using_count = 0 /\ heap.slab[Pool(c)].color_map = {}
             /\ heap.slab[Pool(c)] \in Slab
             /\ heap.pool_list[c] = <<Pool(c)>>
             /\ heap.total_free[c] = PAGE \div Size[c] /\ heap.total_using[c] = 0
  <2> DEFINE n == PAGE \div Size[c]
  <2>1. n \in Nat \ {0} /\ Pool(c) \in Page
    BY Counts, Pools
  <2>2. heap.slab[Pool(c)] = FreshSlab(c, n, {}, TRUE)
    BY PoolFresh
  <2>3. heap.total_free[c] = n /\ heap.total_using[c] = 0 /\ heap.pool_list[c] = <<Pool(c)>>
    BY <1>1
  <2> HIDE DEF n
  <2>4. FreshSlab(c, n, {}, TRUE) \in Slab
    BY <2>1 DEF FreshSlab, Slab
  <2>5. /\ heap.slab[Pool(c)].cache = c /\ heap.slab[Pool(c)].container = TRUE
        /\ heap.slab[Pool(c)].color_count = n /\ heap.slab[Pool(c)].free_count = n
        /\ heap.slab[Pool(c)].using_count = 0 /\ heap.slab[Pool(c)].color_map = {}
    BY <2>2 DEF FreshSlab
  <2>6. heap.slab[Pool(c)] \in Slab
    BY <2>2, <2>4
  <2>7. Pool(c) \in ps
    OBVIOUS
  <2> HIDE DEF ps
  <2>8. QED BY <2>1, <2>2, <2>3, <2>5, <2>6, <2>7, Zenon DEF n
<1>5. Typed(heap)
  <2>1. heap.slab \in [DOMAIN heap.slab -> Slab]
    <3>1. ASSUME NEW s \in ps PROVE heap.slab[s] \in Slab
      <4>1. PICK c \in Cache : s = Pool(c)
        OBVIOUS
      <4>2. heap.slab[Pool(c)] \in Slab
        BY <1>4
      <4>3. QED BY <4>1, <4>2
    <3>2. heap.slab = [s \in DOMAIN heap.slab |-> heap.slab[s]]
      <4> DEFINE F(s) == LET c == CHOOSE d \in Cache : Pool(d) = s IN
                         FreshSlab(c, PAGE \div Size[c], {}, TRUE)
      <4>1. heap.slab = [s \in ps |-> F(s)]
        BY DEF Init
      <4> HIDE DEF F, ps
      <4>2. QED BY <4>1
    <3> HIDE DEF ps
    <3>3. QED BY <1>1, <3>1, <3>2
  <2>2. ps \subseteq Page
    BY Pools
  <2>3. heap.pool_list \in [Cache -> Seq(Page)]
    <3>1. \A c \in Cache : <<Pool(c)>> \in Seq(Page)
      BY Pools
    <3> HIDE DEF ps
    <3>2. QED BY <1>1, <3>1
  <2>4. heap.total_free \in [Cache -> Nat] /\ heap.total_using \in [Cache -> Nat]
    <3>1. \A c \in Cache : PAGE \div Size[c] \in Nat
      BY Counts
    <3>2. QED BY <1>1, <3>1
  <2> HIDE DEF ps
  <2>5. heap.pages \subseteq Page /\ DOMAIN heap.slab \subseteq Page \ heap.pages
    BY <1>1, <2>2
  <2>6. QED BY <1>1, <2>1, <2>3, <2>4, <2>5, Zenon DEF Typed
<1>6. PoolsAgree(heap)
  <2> SUFFICES ASSUME NEW c \in Cache
               PROVE  LET S == heap.slab[Pool(c)] IN
                      /\ Pool(c) \in DOMAIN heap.slab
                      /\ S.cache = c /\ S.container /\ S.color_count = PAGE \div Size[c]
                      /\ S.color_map \subseteq 0 .. S.color_count - 1
                      /\ S.using_count = Cardinality(S.color_map)
                      /\ S.free_count = S.color_count - S.using_count
    BY DEF PoolsAgree, Top
  <2>1. Cardinality({}) = 0
    BY FS_EmptySet
  <2> DEFINE n == PAGE \div Size[c]
             S == heap.slab[Pool(c)]
  <2>2. /\ n \in Nat /\ Pool(c) \in DOMAIN heap.slab /\ S.cache = c /\ S.container = TRUE
        /\ S.color_count = n /\ S.free_count = n /\ S.using_count = 0 /\ S.color_map = {}
    BY <1>1, <1>4
  <2> HIDE DEF n, S
  <2>3. S.free_count = S.color_count - S.using_count
    BY <2>2
  <2>4. QED BY <2>1, <2>2, <2>3 DEF n, S
<1>7. ASSUME NEW c \in Cache PROVE ~ Longer(heap, c)
  <2>1. heap.pool_list[c] = <<Pool(c)>>
    BY <1>4
  <2>2. QED BY <2>1 DEF Longer
<1>8. PoolsAreLast(heap)
  <2> SUFFICES ASSUME NEW c \in Cache
               PROVE  Len(heap.pool_list[c]) > 0 /\ heap.pool_list[c][Len(heap.pool_list[c])] = Pool(c)
    BY <1>7 DEF PoolsAreLast
  <2>1. heap.pool_list[c] = <<Pool(c)>>
    BY <1>4
  <2>2. QED BY <2>1
<1>9. SlabsAreListed(heap)
  <2> SUFFICES ASSUME NEW s \in ps
               PROVE  /\ \E k \in DOMAIN heap.pool_list[heap.slab[s].cache] :
                            heap.pool_list[heap.slab[s].cache][k] = s
                      /\ s = Pool(heap.slab[s].cache)
    BY <1>1 DEF SlabsAreListed
  <2>1. PICK c \in Cache : s = Pool(c)
    OBVIOUS
  <2>2. heap.pool_list[c] = <<Pool(c)>> /\ heap.slab[s].cache = c
    BY <1>4, <2>1
  <2>3. 1 \in DOMAIN heap.pool_list[c] /\ heap.pool_list[c][1] = s
    BY <2>1, <2>2
  <2>4. QED BY <2>1, <2>2, <2>3
<1>10. TotalsAgree(heap)
  <2>1. ASSUME NEW c \in Cache
        PROVE  /\ heap.total_free[c] = heap.slab[Pool(c)].free_count
               /\ heap.total_using[c] = heap.slab[Pool(c)].using_count
    <3>1. /\ heap.total_free[c] = PAGE \div Size[c] /\ heap.total_using[c] = 0
          /\ heap.slab[Pool(c)].free_count = PAGE \div Size[c]
          /\ heap.slab[Pool(c)].using_count = 0
      BY <1>4
    <3>2. QED BY <3>1, Zenon
  <2>2. QED BY <2>1, Zenon DEF TotalsAgree, Top
<1>11. NothingHidden(heap)
  <2>1. ASSUME NEW s \in ps PROVE heap.total_free[heap.slab[s].cache] # 0
    <3>1. PICK c \in Cache : s = Pool(c)
      OBVIOUS
    <3>2. heap.slab[s].cache = c /\ heap.total_free[c] = PAGE \div Size[c] /\ PAGE \div Size[c] \in Nat \ {0}
      BY <1>4, <3>1
    <3>3. QED BY <3>2, Zenon
  <2>2. QED BY <1>1, <2>1 DEF NothingHidden
<1>12. Placed(heap, InUse)
  BY <1>3 DEF Placed
<1>13. Exact(heap, InUse)
  <2>1. \A c \in Cache : heap.slab[Pool(c)].color_map = {}
    BY <1>4, Zenon
  <2>2. QED BY <2>1 DEF Exact, Top
<1>14. Disjoint /\ DOMAIN meta \subseteq DOMAIN heap.slab /\ fault \in BOOLEAN /\ FaultAfterGrowth
  BY <1>2 DEF Disjoint, FaultAfterGrowth
<1>15. QED BY <1>5, <1>6, <1>8, <1>9, <1>10, <1>11, <1>12, <1>13, <1>14, Zenon DEF IInv, Sound

LEMMA NextIs ==
  ASSUME Sound(heap', InUse'), fault' \/ Exact(heap', InUse'),
         held' \cap lost' = {}, held' \cap Metadata' = {}, lost' \cap Metadata' = {},
         DOMAIN meta' \subseteq DOMAIN heap'.slab, fault' \in BOOLEAN,
         fault' => heap'.pages = {} \/ SomeLonger(heap')
  PROVE  IInv'
<1>1. FaultAfterGrowth'
  BY DEF FaultAfterGrowth, Grown, SomeLonger, Longer
<1>2. Disjoint'
  BY DEF Disjoint
<1>3. QED BY <1>1, <1>2 DEF IInv

LEMMA SoundParts ==
  ASSUME NEW h, NEW U, Sound(h, U)
  PROVE  /\ Typed(h) /\ PoolsAgree(h) /\ PoolsAreLast(h) /\ SlabsAreListed(h)
         /\ TotalsAgree(h) /\ NothingHidden(h) /\ Placed(h, U)
  BY DEF Sound

LEMMA NewKeeps ==
  ASSUME HeapAssumption, IInv, NEW n \in Request, new(n)
  PROVE  IInv'
<1> DEFINE r == _allocate(heap, n, meta)
           more == UNION {r.meta[p] : p \in DOMAIN r.meta \ DOMAIN meta}
<1>1. /\ heap' = r.heap /\ meta' = r.meta /\ fault' = r.fault /\ lost' = lost
      /\ held' = (IF r.object = Null THEN held ELSE held \cup {r.object}) /\ fault = FALSE
  BY DEF new, IInv
<1>2. held' = held \cup Given(r)
  BY <1>1 DEF Given
<1>3. n \in Nat
  BY DEF HeapAssumption
<1>4. /\ Sound(heap, InUse) /\ Exact(heap, InUse) /\ DOMAIN meta \subseteq DOMAIN heap.slab
      /\ held \cap lost = {} /\ held \cap Metadata = {} /\ lost \cap Metadata = {}
      /\ InUse = held \cup lost \cup Metadata
  BY <1>1 DEF IInv, Disjoint, InUse
<1>5. /\ n <= LIMIT => Large(heap, InUse, CacheFor(n), meta, r) \/ Faults(heap, InUse, r)
      /\ n > LIMIT => r = Answer(heap, Null, meta)
  BY <1>3, <1>4, AllocateSane
<1> HIDE DEF r
<1>6. CASE Large(heap, InUse, CacheFor(n), meta, r)
  <2>1. /\ r.fault = FALSE /\ DOMAIN meta \subseteq DOMAIN r.meta
        /\ \A p \in DOMAIN meta : r.meta[p] = meta[p]
        /\ Sound(r.heap, InUse \cup Given(r) \cup more)
        /\ Exact(heap, InUse) => Exact(r.heap, InUse \cup Given(r) \cup more)
        /\ Given(r) \cap InUse = {} /\ more \cap InUse = {} /\ Given(r) \cap more = {}
        /\ DOMAIN r.meta \subseteq DOMAIN meta \cup DOMAIN r.heap.slab
        /\ DOMAIN heap.slab \subseteq DOMAIN r.heap.slab
    BY <1>6, Zenon DEF Large
  <2>2. Metadata' = Metadata \cup more
    BY <1>1, <2>1 DEF Metadata
  <2> HIDE DEF more
  <2>3. InUse' = InUse \cup Given(r) \cup more
    BY <1>1, <1>2, <1>4, <2>2 DEF InUse
  <2>4. /\ Sound(heap', InUse') /\ Exact(heap', InUse')
    BY <1>1, <1>4, <2>1, <2>3
  <2>5. held' \cap lost' = {} /\ held' \cap Metadata' = {} /\ lost' \cap Metadata' = {}
    BY <1>1, <1>2, <1>4, <2>1, <2>2
  <2>6. DOMAIN meta' \subseteq DOMAIN heap'.slab
    BY <1>1, <1>4, <2>1
  <2>7. QED BY <1>1, <2>1, <2>4, <2>5, <2>6, NextIs
<1>7. CASE Faults(heap, InUse, r)
  <2>1. /\ r.fault = TRUE /\ r.object = Null /\ r.meta = meta
        /\ Sound(r.heap, InUse) /\ DOMAIN heap.slab \subseteq DOMAIN r.heap.slab
        /\ r.heap.pages = {} \/ SomeLonger(r.heap)
    BY <1>7, Zenon DEF Faults
  <2>2. held' = held /\ Metadata' = Metadata
    BY <1>1, <2>1 DEF Metadata
  <2>3. InUse' = InUse
    BY <1>1, <2>2 DEF InUse
  <2>4. QED BY <1>1, <1>4, <2>1, <2>2, <2>3, NextIs
<1>8. CASE r = Answer(heap, Null, meta)
  <2>1. /\ r.fault = FALSE /\ r.object = Null /\ r.meta = meta /\ r.heap = heap
    BY <1>8 DEF Answer
  <2>2. held' = held /\ Metadata' = Metadata
    BY <1>1, <2>1 DEF Metadata
  <2>3. InUse' = InUse
    BY <1>1, <2>2 DEF InUse
  <2>4. QED BY <1>1, <1>4, <2>1, <2>2, <2>3, NextIs
<1>9. n <= LIMIT \/ n > LIMIT
  BY <1>3, Within DEF HeapAssumption
<1>10. QED BY <1>5, <1>6, <1>7, <1>8, <1>9

LEMMA DeleteKeeps ==
  ASSUME HeapAssumption, IInv, NEW o \in held, delete(o)
  PROVE  IInv'
<1> DEFINE r == _deallocate(heap, o[1])
<1>1. /\ heap' = r.heap /\ fault' = r.fault /\ held' = held \ {o}
      /\ meta' = meta /\ lost' = lost /\ fault = FALSE
  BY DEF delete, IInv
<1>2. /\ Sound(heap, InUse) /\ Exact(heap, InUse) /\ DOMAIN meta \subseteq DOMAIN heap.slab
      /\ held \cap lost = {} /\ held \cap Metadata = {} /\ lost \cap Metadata = {}
      /\ InUse = held \cup lost \cup Metadata
  BY <1>1 DEF IInv, Disjoint, InUse
<1>3. Metadata' = Metadata
  BY <1>1 DEF Metadata
<1>4. InUse' = InUse \ {o}
  BY <1>1, <1>2, <1>3 DEF InUse
<1>5. held' \cap lost' = {} /\ held' \cap Metadata' = {} /\ lost' \cap Metadata' = {}
  BY <1>1, <1>2, <1>3
<1>6. /\ Typed(heap) /\ PoolsAgree(heap) /\ Placed(heap, InUse)
  BY <1>2, SoundParts
<1>7. PICK s \in DOMAIN heap.slab : \E i \in heap.slab[s].color_map :
          o = Slot(heap, s, i) /\ (i + 1) * Size[heap.slab[s].cache] <= PAGE
  BY <1>2, <1>6 DEF Placed
<1>8. PICK i \in heap.slab[s].color_map :
          o = Slot(heap, s, i) /\ (i + 1) * Size[heap.slab[s].cache] <= PAGE
  BY <1>7
<1> DEFINE c == heap.slab[s].cache
           u == Uncolour(heap, o[1])
<1>9. o[1] \div PAGE = s /\ u = Freed(heap, s, i)
  BY <1>6, <1>8, UncolourFrees, Zenon
<1>10. CASE FindFaults(heap, s)
  <2>1. r = Fault(heap)
    BY <1>9, <1>10, Zenon DEF _deallocate, DeallocateSmall
  <2>2. r.heap = heap /\ r.fault = TRUE
    BY <2>1 DEF Fault, Answer
  <2>3. Sound(heap', InUse')
    BY <1>1, <1>2, <1>4, <2>2, Fewer
  <2>4. SomeLonger(heap')
    BY <1>1, <1>2, <1>10, <2>2, Searches
  <2> HIDE DEF r
  <2>5. QED BY <1>1, <1>2, <1>5, <2>2, <2>3, <2>4, NextIs
<1>11. CASE ~ FindFaults(heap, s)
  <2>1. s = Pool(c) /\ ~ Longer(heap, c)
    BY <1>2, <1>11, Searches
  <2>2. /\ Sound(u, InUse \ {o}) /\ (Exact(heap, InUse) => Exact(u, InUse \ {o}))
        /\ DOMAIN u.slab = DOMAIN heap.slab /\ u.slab[s].cache = c
    <3> DEFINE g == Freed(heap, s, i)
               V == InUse \ {Slot(heap, s, i)}
    <3>1. s = Pool(heap.slab[s].cache) /\ ~ Longer(heap, heap.slab[s].cache)
      BY <2>1
    <3>2. Frees(heap, InUse, s, i, g)
      BY <1>2, <3>1, FreeSound, Zenon
    <3>3. u = g /\ InUse \ {o} = V
      BY <1>8, <1>9
    <3>4. /\ Sound(g, V) /\ (Exact(heap, InUse) => Exact(g, V))
          /\ DOMAIN g.slab = DOMAIN heap.slab /\ g.slab[s].cache = heap.slab[s].cache
      BY <3>2, Zenon DEF Frees
    <3> HIDE DEF g, V, u
    <3>5. QED BY <3>3, <3>4
  <2>3. ~ GivesBack(u, s)
    BY <2>1, <2>2 DEF GivesBack
  <2> HIDE DEF u, c
  <2>4. r = Answer(u, Null, meta)
    <3>1. r = DeallocateSmall(heap, o[1])
      BY <1>9, <2>3, Zenon DEF _deallocate, u
    <3>2. QED BY <1>9, <1>11, <2>3, <3>1, Zenon DEF DeallocateSmall, u
  <2>5. r.heap = u /\ r.fault = FALSE
    BY <2>4 DEF Answer
  <2> HIDE DEF r
  <2>6. Sound(heap', InUse') /\ Exact(heap', InUse')
    BY <1>1, <1>2, <1>4, <2>2, <2>5
  <2>7. DOMAIN meta' \subseteq DOMAIN heap'.slab
    BY <1>1, <1>2, <2>2, <2>5
  <2>8. QED BY <1>1, <1>5, <2>5, <2>6, <2>7, NextIs
<1>12. QED BY <1>10, <1>11

\* The sized delete changes only who has the object.
LEMMA LoseKeeps ==
  ASSUME HeapAssumption, IInv, NEW o \in held, sized_delete(o)
  PROVE  IInv'
<1>1. /\ heap' = heap /\ fault' = fault /\ held' = held \ {o} /\ lost' = lost \cup {o}
      /\ meta' = meta /\ fault = FALSE
  BY DEF sized_delete, IInv
<1>2. /\ Sound(heap, InUse) /\ Exact(heap, InUse) /\ DOMAIN meta \subseteq DOMAIN heap.slab
      /\ held \cap lost = {} /\ held \cap Metadata = {} /\ lost \cap Metadata = {}
  BY <1>1 DEF IInv, Disjoint
<1>3. Metadata' = Metadata
  BY <1>1 DEF Metadata
<1>4. InUse' = InUse
  BY <1>1, <1>3 DEF InUse
<1>5. held' \cap lost' = {} /\ held' \cap Metadata' = {} /\ lost' \cap Metadata' = {}
  BY <1>1, <1>2, <1>3
<1>6. QED BY <1>1, <1>2, <1>4, <1>5, NextIs

LEMMA Inductive == Spec => []IInv
<1>1. Init => IInv
  BY HeapAssumption, InitIsSound
<1>2. IInv /\ [Next]_vars => IInv'
  <2> SUFFICES ASSUME IInv, [Next]_vars PROVE IInv'
    OBVIOUS
  <2>1. ASSUME NEW n \in Request, new(n) PROVE IInv'
    BY <2>1, HeapAssumption, NewKeeps
  <2>2. ASSUME NEW o \in held, delete(o) PROVE IInv'
    BY <2>2, HeapAssumption, DeleteKeeps
  <2>3. ASSUME NEW o \in held, sized_delete(o) PROVE IInv'
    BY <2>3, HeapAssumption, LoseKeeps
  <2>4. CASE UNCHANGED vars
    <3>1. heap' = heap /\ held' = held /\ meta' = meta /\ lost' = lost /\ fault' = fault
      BY <2>4 DEF vars
    <3>2. Metadata' = Metadata
      BY <3>1 DEF Metadata
    <3>3. InUse' = InUse
      BY <3>1, <3>2 DEF InUse
    <3>4. FaultAfterGrowth => (fault => heap.pages = {} \/ SomeLonger(heap))
      BY DEF FaultAfterGrowth, Grown, SomeLonger, Longer
    <3>5. QED BY <3>1, <3>2, <3>3, <3>4, NextIs DEF IInv, Disjoint
  <2>5. QED BY <2>1, <2>2, <2>3, <2>4 DEF Next
<1>3. QED BY <1>1, <1>2, PTL DEF Spec

-----------------------------------------------------------------------------
(* The pages that keep their own Slab                                       *)

\* Nothing but the first slot of a grown small slab is ever given: the next
\* walk of its cache faults, and so does the search for it.
OneSlot(h) == \A s \in GrownSmall(h) : h.slab[s].color_map \subseteq {0}

LEMMA FilledOneSlot ==
  ASSUME NEW h, Typed(h), OneSlot(h), NEW s \in DOMAIN h.slab, NEW i,
         s \in GrownSmall(h) => i = 0
  PROVE  OneSlot(Filled(h, s, i))
<1> DEFINE S == h.slab[s]
           R == [cache |-> S.cache, color_count |-> S.color_count,
                 free_count |-> S.free_count - 1, using_count |-> S.using_count + 1,
                 color_map |-> S.color_map \cup {i}, container |-> S.container]
           g == Filled(h, s, i)
<1>1. g.slab = [h.slab EXCEPT ![s] = R]
  BY DEF Filled, Written
<1>2. R.cache = S.cache /\ R.container = S.container /\ R.color_map = S.color_map \cup {i}
  OBVIOUS
<1> HIDE DEF g, R
<1>3. DOMAIN g.slab = DOMAIN h.slab /\ g.slab[s] = R /\ \A q \in DOMAIN h.slab \ {s} : g.slab[q] = h.slab[q]
  BY <1>1 DEF Typed
<1>4. \A q \in GrownSmall(g) : q \in GrownSmall(h)
  BY <1>2, <1>3 DEF GrownSmall, Nameless
<1>5. ASSUME NEW q \in GrownSmall(g) PROVE g.slab[q].color_map \subseteq {0}
  <2>1. h.slab[q].color_map \subseteq {0} /\ q \in DOMAIN h.slab /\ q \in GrownSmall(h)
    BY <1>4 DEF OneSlot, GrownSmall
  <2>2. CASE q = s
    BY <1>2, <1>3, <2>1, <2>2
  <2>3. CASE q # s
    BY <1>3, <2>1, <2>3
  <2>4. QED BY <2>2, <2>3
<1>6. QED BY <1>5 DEF OneSlot, g

LEMMA ColourOneSlot ==
  ASSUME NEW h, Typed(h), OneSlot(h), NEW s \in DOMAIN h.slab, NEW m,
         s \in GrownSmall(h) => h.slab[s].color_map = {}
  PROVE  OneSlot(Colour(h, s, m).heap)
<1> DEFINE S == h.slab[s]
<1>1. S \in Slab
  BY SlabOf
<1>2. CASE Clear(S) = {}
  <2>1. Colour(h, s, m) = Answer(h, Null, m)
    BY <1>2, Zenon DEF Colour
  <2>2. QED BY <2>1 DEF Answer
<1>3. CASE Clear(S) # {}
  <2>1. Colour(h, s, m) = Answer(Filled(h, s, First(S)), Slot(h, s, First(S)), m)
    BY <1>3, ColourFills
  <2>2. Colour(h, s, m).heap = Filled(h, s, First(S))
    BY <2>1 DEF Answer
  <2>3. ASSUME s \in GrownSmall(h) PROVE First(S) = 0
    <3>1. /\ First(S) \in Nat /\ First(S) < S.color_count /\ S.color_count \in Nat
          /\ \A k \in Clear(S) : First(S) <= k
      BY <1>1, <1>3, FirstIsLeast, SlabFields
    <3>2. 0 \in Clear(S)
      BY <2>3, <3>1 DEF Clear
    <3>3. QED BY <3>1, <3>2
  <2>4. QED BY <2>2, <2>3, FilledOneSlot
<1>4. QED BY <1>2, <1>3

LEMMA WalkOneSlot ==
  ASSUME HeapAssumption, NEW h, NEW U, Sound(h, U), OneSlot(h), NEW c \in Cache, NEW m
  PROVE  OneSlot(Walk(h, c, m).heap)
<1>1. CASE Longer(h, c)
  <2>1. Walk(h, c, m) = Fault(h)
    BY <1>1, Walks
  <2>2. QED BY <2>1 DEF Fault, Answer
<1>2. CASE ~ Longer(h, c)
  <2>1. Walk(h, c, m) = Colour(h, Pool(c), m)
    BY <1>2, Walks
  <2>2. Pool(c) \in DOMAIN h.slab /\ Pool(c) \notin GrownSmall(h) /\ Typed(h)
    BY DEF Sound, PoolsAgree, Top, GrownSmall, Nameless
  <2>3. QED BY <2>1, <2>2, ColourOneSlot
<1>3. QED BY <1>1, <1>2

LEMMA InsertOneSlot ==
  ASSUME HeapAssumption, NEW h, NEW U, Sound(h, U), OneSlot(h), NEW s, NEW S, Fresh(h, s, S),
         NEW m, Small(S.cache) => S.color_map = {}
  PROVE  OneSlot(Insert(h, s, S, m).heap)
<1> DEFINE g == With(h, s, S)
<1>1. Insert(h, s, S, m) = Colour(g, s, m)
  BY InsertIs DEF Sound
<1>2. Added(h, g, s, S)
  BY WithAdds, Zenon
<1> HIDE DEF g
<1>3. /\ Typed(g) /\ DOMAIN g.slab = DOMAIN h.slab \cup {s} /\ g.slab[s] = S
      /\ \A q \in DOMAIN h.slab : q # s /\ g.slab[q] = h.slab[q]
  BY <1>2, Zenon DEF Added
<1>4. OneSlot(g)
  <2> SUFFICES ASSUME NEW q \in GrownSmall(g) PROVE g.slab[q].color_map \subseteq {0}
    BY DEF OneSlot
  <2>1. q \in DOMAIN g.slab /\ Nameless(g, q) /\ Small(g.slab[q].cache)
    BY DEF GrownSmall
  <2>2. CASE q = s
    BY <1>3, <2>1, <2>2
  <2>3. CASE q # s
    <3>1. q \in DOMAIN h.slab /\ g.slab[q] = h.slab[q]
      BY <1>3, <2>1, <2>3
    <3>2. q \in GrownSmall(h)
      BY <2>1, <3>1 DEF GrownSmall, Nameless
    <3>3. QED BY <3>1, <3>2 DEF OneSlot
  <2>4. QED BY <2>2, <2>3
<1>5. s \in GrownSmall(g) => g.slab[s].color_map = {}
  BY <1>3 DEF GrownSmall
<1>6. QED BY <1>1, <1>3, <1>4, <1>5, ColourOneSlot

LEMMA SmallOneSlot ==
  ASSUME HeapAssumption, NEW h, NEW U, Sound(h, U), OneSlot(h), NEW c \in Cache, NEW m
  PROVE  OneSlot(AllocateSmall(h, c, m).heap)
<1> DEFINE r == AllocateSmall(h, c, m)
<1>1. CASE h.total_free[c] # 0
  <2>1. r = Walk(h, c, m)
    BY <1>1 DEF AllocateSmall
  <2>2. QED BY <2>1, WalkOneSlot
<1>2. CASE h.total_free[c] = 0 /\ h.pages = {}
  <2>1. r = Answer(h, Null, m)
    BY <1>2 DEF AllocateSmall
  <2>2. QED BY <2>1 DEF Answer
<1>3. CASE h.total_free[c] = 0 /\ h.pages # {}
  <2> DEFINE g == Taken(h)
             p == Supply(h)
             S == FreshSlab(c, SmallCount(c), {}, FALSE)
  <2>1. r = Insert(g, p, S, m)
    BY <1>3 DEF AllocateSmall
  <2>2. g.slab = h.slab /\ Sound(g, U) /\ p \in Page /\ p \notin g.pages \cup DOMAIN g.slab
    BY <1>3, TakenSound
  <2>3. S.color_map = {}
    BY DEF FreshSlab
  <2> HIDE DEF g, p, r
  <2>4. Fresh(g, p, S)
    BY <2>2, CountOfSmall, SmallIsFresh
  <2>5. OneSlot(g)
    BY <2>2 DEF OneSlot, GrownSmall, Nameless
  <2> HIDE DEF S
  <2>6. OneSlot(Insert(g, p, S, m).heap)
    BY <2>2, <2>3, <2>4, <2>5, InsertOneSlot
  <2>7. QED BY <2>1, <2>6 DEF r
<1>4. QED BY <1>1, <1>2, <1>3

LEMMA LargeOneSlot ==
  ASSUME HeapAssumption, NEW h, NEW U, Sound(h, U), OneSlot(h), NEW c \in Cache, ~ Small(c), NEW m
  PROVE  OneSlot(GrowLarge(h, c, m).heap)
<1> DEFINE n == PAGE \div Size[c]
           p == Supply(h)
           g == Taken(h)
           d == CacheFor(SLAB)
           e == CacheFor(Length(n))
           a == AllocateSmall(g, d, m)
           b == AllocateSmall(a.heap, e, m)
           r == GrowLarge(h, c, m)
           S == FreshSlab(c, n, LargeMap(n), FALSE)
           mm == [q \in DOMAIN m \cup {p} |-> IF q = p THEN {a.object, b.object} ELSE m[q]]
<1>1. r = IF h.pages = {} THEN Answer(h, Null, m)
          ELSE IF a.fault \/ a.object = Null \/ b.fault \/ b.object = Null THEN Fault(b.heap)
          ELSE Insert(b.heap, p, S, mm)
  BY Zenon DEF GrowLarge
<1>2. n \in Nat /\ d \in Cache /\ e \in Cache
  <2>1. n \in Nat /\ SLAB \in Nat /\ SLAB <= LIMIT
    BY Counts, Within
  <2>2. Length(n) \in Nat /\ Length(n) <= LIMIT
    BY MapIsSmall
  <2>3. QED BY <2>1, <2>2, CacheOf, Zenon
<1>3. CASE h.pages = {}
  <2>1. r = Answer(h, Null, m)
    BY <1>1, <1>3
  <2>2. QED BY <2>1 DEF Answer
<1>4. CASE h.pages # {}
  <2>1. g.slab = h.slab /\ Sound(g, U) /\ p \in Page /\ p \notin g.pages \cup DOMAIN g.slab
    BY <1>4, TakenSound
  <2>3. S.cache = c
    BY DEF FreshSlab
  <2> HIDE DEF g, p, d, e, n
  <2>4. OneSlot(g)
    BY <2>1 DEF OneSlot, GrownSmall, Nameless
  <2>5. Sane(g, U, d, m, a) /\ OneSlot(a.heap)
    BY <1>2, <2>1, <2>4, SmallSane, SmallOneSlot, Zenon
  <2> DEFINE V == U \cup Given(a)
             W == V \cup Given(b)
  <2>6. Sound(a.heap, V) /\ Keeps(g, a.heap)
    BY <2>5, Zenon DEF Sane
  <2>7. Sane(a.heap, V, e, m, b) /\ OneSlot(b.heap)
    BY <1>2, <2>5, <2>6, SmallSane, SmallOneSlot, Zenon
  <2> HIDE DEF a
  <2>8. Sound(b.heap, W) /\ Keeps(a.heap, b.heap)
    BY <2>7, Zenon DEF Sane
  <2> HIDE DEF b
  <2>9. p \notin b.heap.pages \cup DOMAIN b.heap.slab
    BY <2>1, <2>6, <2>8 DEF Keeps
  <2>10. CASE a.fault \/ a.object = Null \/ b.fault \/ b.object = Null
    <3>1. r = Fault(b.heap)
      BY <1>1, <1>4, <2>10
    <3>2. QED BY <2>7, <3>1 DEF Fault, Answer
  <2>11. CASE ~ (a.fault \/ a.object = Null \/ b.fault \/ b.object = Null)
    <3>1. r = Insert(b.heap, p, S, mm)
      BY <1>1, <1>4, <2>11
    <3>2. Fresh(b.heap, p, S)
      BY <1>2, <2>1, <2>9, LargeMapIsSmall, SmallIsFresh DEF n
    <3> HIDE DEF S, W, mm, r
    <3>3. OneSlot(Insert(b.heap, p, S, mm).heap)
      BY <2>3, <2>7, <2>8, <3>2, InsertOneSlot
    <3>4. QED BY <3>1, <3>3 DEF r
  <2>12. QED BY <2>10, <2>11
<1>5. QED BY <1>3, <1>4

LEMMA AllocateOneSlot ==
  ASSUME HeapAssumption, NEW h, NEW U, Sound(h, U), OneSlot(h), NEW n \in Nat, NEW m
  PROVE  OneSlot(_allocate(h, n, m).heap)
<1> DEFINE c == CacheFor(n)
           r == _allocate(h, n, m)
<1>1. r = IF n > LIMIT THEN Answer(h, Null, m)
          ELSE IF Small(c) THEN AllocateSmall(h, c, m)
          ELSE IF h.total_free[c] # 0 THEN Walk(h, c, m)
          ELSE GrowLarge(h, c, m)
  BY Zenon DEF _allocate
<1>2. LIMIT \in Nat
  BY DEF HeapAssumption
<1> HIDE DEF r
<1>3. CASE n > LIMIT
  <2>1. r = Answer(h, Null, m)
    BY <1>1, <1>3
  <2>2. r.heap = h
    BY <2>1 DEF Answer
  <2>3. QED BY <2>2 DEF r
<1>4. CASE ~ (n > LIMIT)
  <2>1. c \in Cache
    BY <1>2, <1>4, CacheOf
  <2> HIDE DEF c
  <2>2. CASE Small(c)
    <3>1. r = AllocateSmall(h, c, m)
      BY <1>1, <1>4, <2>2
    <3>2. QED BY <2>1, <3>1, SmallOneSlot DEF r
  <2>3. CASE ~ Small(c) /\ h.total_free[c] # 0
    <3>1. r = Walk(h, c, m)
      BY <1>1, <1>4, <2>3
    <3>2. QED BY <2>1, <3>1, WalkOneSlot DEF r
  <2>4. CASE ~ Small(c) /\ h.total_free[c] = 0
    <3>1. r = GrowLarge(h, c, m)
      BY <1>1, <1>4, <2>4
    <3>2. QED BY <2>1, <2>4, <3>1, LargeOneSlot DEF r
  <2>5. QED BY <2>2, <2>3, <2>4
<1>5. QED BY <1>3, <1>4

LEMMA FreedOneSlot ==
  ASSUME NEW h, Typed(h), OneSlot(h), NEW s \in DOMAIN h.slab, NEW i
  PROVE  OneSlot(Freed(h, s, i))
<1> DEFINE S == h.slab[s]
           R == [cache |-> S.cache, color_count |-> S.color_count,
                 free_count |-> S.free_count + 1, using_count |-> S.using_count - 1,
                 color_map |-> S.color_map \ {i}, container |-> S.container]
           g == Freed(h, s, i)
<1>1. g.slab = [h.slab EXCEPT ![s] = R]
  BY DEF Freed, Written
<1>2. R.cache = S.cache /\ R.container = S.container /\ R.color_map \subseteq S.color_map
  OBVIOUS
<1> HIDE DEF g, R
<1>3. DOMAIN g.slab = DOMAIN h.slab /\ g.slab[s] = R /\ \A q \in DOMAIN h.slab \ {s} : g.slab[q] = h.slab[q]
  BY <1>1 DEF Typed
<1>4. \A q \in GrownSmall(g) : q \in GrownSmall(h) /\ g.slab[q].color_map \subseteq h.slab[q].color_map
  BY <1>2, <1>3 DEF GrownSmall, Nameless
<1>5. QED BY <1>4 DEF OneSlot, g

\* A release leaves the heap as it is, or frees a slot of it.
LEMMA DeleteOneSlot ==
  ASSUME HeapAssumption, IInv, OneSlot(heap), NEW o \in held, delete(o)
  PROVE  OneSlot(heap')
<1> DEFINE r == _deallocate(heap, o[1])
<1>1. heap' = r.heap
  BY DEF delete
<1>2. /\ Sound(heap, InUse) /\ o \in InUse
      /\ Typed(heap) /\ PoolsAgree(heap) /\ Placed(heap, InUse)
  BY SoundParts DEF IInv, InUse
<1>3. PICK s \in DOMAIN heap.slab : \E i \in heap.slab[s].color_map :
          o = Slot(heap, s, i) /\ (i + 1) * Size[heap.slab[s].cache] <= PAGE
  BY <1>2 DEF Placed
<1>4. PICK i \in heap.slab[s].color_map :
          o = Slot(heap, s, i) /\ (i + 1) * Size[heap.slab[s].cache] <= PAGE
  BY <1>3
<1> DEFINE u == Uncolour(heap, o[1])
<1>5. o[1] \div PAGE = s /\ u = Freed(heap, s, i)
  BY <1>2, <1>4, UncolourFrees, Zenon
<1>6. CASE FindFaults(heap, s)
  <2>1. r = Fault(heap)
    BY <1>5, <1>6, Zenon DEF _deallocate, DeallocateSmall
  <2>2. r.heap = heap
    BY <2>1 DEF Fault, Answer
  <2>3. QED BY <1>1, <2>2
<1>7. CASE ~ FindFaults(heap, s)
  <2>1. s = Pool(heap.slab[s].cache) /\ ~ Longer(heap, heap.slab[s].cache)
    BY <1>2, <1>7, Searches
  <2>2. u.slab[s].cache = heap.slab[s].cache
    <3>1. Frees(heap, InUse, s, i, Freed(heap, s, i))
      BY <1>2, <2>1, FreeSound, Zenon
    <3>2. QED BY <1>5, <3>1, Zenon DEF Frees
  <2>3. ~ GivesBack(u, s)
    BY <2>1, <2>2 DEF GivesBack
  <2> HIDE DEF u
  <2>4. r = Answer(u, Null, meta)
    <3>1. r = DeallocateSmall(heap, o[1])
      BY <1>5, <2>3, Zenon DEF _deallocate, u
    <3>2. QED BY <1>5, <1>7, <2>3, <3>1, Zenon DEF DeallocateSmall, u
  <2>5. r.heap = u
    BY <2>4 DEF Answer
  <2>6. QED BY <1>1, <1>2, <1>5, <2>5, FreedOneSlot
<1>8. QED BY <1>6, <1>7

LEMMA AlwaysOneSlot == Spec => [](IInv /\ OneSlot(heap))
<1>1. Init => OneSlot(heap)
  <2> SUFFICES ASSUME Init PROVE OneSlot(heap)
    OBVIOUS
  <2>1. PoolsAgree(heap) /\ SlabsAreListed(heap)
    BY HeapAssumption, InitIsSound, SoundParts DEF IInv
  <2>2. DOMAIN heap.slab = {Pool(d) : d \in Cache}
    BY DEF Init
  <2>3. QED BY <2>1, <2>2 DEF PoolsAgree, Top, OneSlot, GrownSmall, Nameless
<1>2. IInv /\ OneSlot(heap) /\ [Next]_vars => OneSlot(heap)'
  <2> SUFFICES ASSUME IInv, OneSlot(heap), [Next]_vars PROVE OneSlot(heap')
    OBVIOUS
  <2>1. ASSUME NEW n \in Request, new(n) PROVE OneSlot(heap')
    <3>1. heap' = _allocate(heap, n, meta).heap
      BY <2>1 DEF new
    <3>2. n \in Nat /\ Sound(heap, InUse)
      BY HeapAssumption DEF HeapAssumption, IInv
    <3>3. QED BY <3>1, <3>2, HeapAssumption, AllocateOneSlot
  <2>2. ASSUME NEW o \in held, delete(o) PROVE OneSlot(heap')
    BY <2>2, HeapAssumption, DeleteOneSlot
  <2>3. ASSUME NEW o \in held, sized_delete(o) PROVE OneSlot(heap')
    <3>1. heap' = heap
      BY <2>3 DEF sized_delete
    <3>2. QED BY <3>1
  <2>4. CASE UNCHANGED vars
    <3>1. heap' = heap
      BY <2>4 DEF vars
    <3>2. QED BY <3>1
  <2>5. QED BY <2>1, <2>2, <2>3, <2>4 DEF Next
<1>3. QED BY <1>1, <1>2, Inductive, PTL DEF Spec

\* So no object comes to what its page, or another, sets apart for a Slab.
LEMMA HeadersApart ==
  ASSUME HeapAssumption, NEW h, NEW U, Typed(h), Placed(h, U), OneSlot(h),
         NEW o \in U, NEW q \in Headers(h)
  PROVE  Apart(o, q)
<1>1. PICK s \in GrownSmall(h) : q = Header(s, h.slab[s].cache)
  BY DEF Headers
<1>2. PICK t \in DOMAIN h.slab : \E i \in h.slab[t].color_map :
          o = Slot(h, t, i) /\ (i + 1) * Size[h.slab[t].cache] <= PAGE
  BY DEF Placed
<1>3. PICK i \in h.slab[t].color_map :
          o = Slot(h, t, i) /\ (i + 1) * Size[h.slab[t].cache] <= PAGE
  BY <1>2
<1> DEFINE c == h.slab[s].cache
           z == Size[h.slab[t].cache]
           w == SLAB + Reserved(c)
<1>4. s \in DOMAIN h.slab /\ Small(c)
  BY DEF GrownSmall
<1>5. s \in Nat /\ t \in Nat /\ c \in Cache /\ i \in Nat /\ z \in Nat /\ PAGE \in Nat /\ PAGE > 0
  <2>1. h.slab[t] \in Slab /\ h.slab[t].cache \in Cache /\ t \in Page
    BY SlabOf
  <2>2. c \in Cache /\ s \in Page
    BY <1>4, SlabOf
  <2>3. i \in Nat
    <3>1. h.slab[t].color_map \subseteq Nat
      BY <2>1, SlabFields
    <3>2. QED BY <3>1
  <2>4. PAGE \in Nat /\ PAGE > 0 /\ Page \subseteq Nat /\ \A d \in Cache : Size[d] \in Nat
    BY Sizes
  <2> HIDE DEF c
  <2>5. QED BY <2>1, <2>2, <2>3, <2>4
<1>6. Reserved(c) \in Nat /\ SLAB \in Nat
  <2>1. PAGE \div Size[c] \in Nat /\ SLAB \in Nat
    BY <1>5, Counts DEF HeapAssumption
  <2>2. QED BY <2>1, SMTT(40) DEF Reserved
<1>7. w \in Nat /\ w <= PAGE
  BY <1>5, <1>6 DEF HeapAssumption
<1>8. q[1] = s * PAGE + PAGE - Reserved(c) - SLAB /\ q[2] = w
  BY <1>1 DEF Header, Scribbled
<1>9. /\ o[1] = t * PAGE + i * z /\ o[2] = z /\ t * PAGE <= o[1] /\ o[1] + o[2] <= (t + 1) * PAGE
      /\ o[1] \in Nat
  <2>1. SlotLies(h, t, i)
    BY <1>3, <1>5, SlotsLie, Zenon
  <2>2. /\ o[1] = t * PAGE + i * z /\ o[2] = z /\ t * PAGE <= o[1] /\ o[1] + o[2] <= (t + 1) * PAGE
        /\ o \in Nat \X Nat
    BY <1>3, <2>1, Zenon DEF SlotLies
  <2>3. QED BY <2>2
<1>10. CASE s = t
  <2>1. i = 0
    BY <1>10 DEF OneSlot
  <2>2. o[1] = s * PAGE
    BY <1>5, <1>9, <1>10, <2>1
  <2>3. z + SLAB + Reserved(c) <= PAGE
    BY <1>4, <1>5, <1>10 DEF HeapAssumption
  <2> DEFINE a == s * PAGE
  <2>4. (s + 1) * PAGE = a + PAGE /\ a \in Nat
    BY <1>5
  <2>5. q[1] = a + PAGE - Reserved(c) - SLAB
    BY <1>8
  <2>6. o[1] = a /\ o[2] = z
    BY <1>9, <2>2
  <2> DEFINE e == Reserved(c)
  <2> HIDE DEF a, c, z, w, e
  <2>7. a + z <= a + PAGE - e - SLAB
    BY <1>5, <1>6, <2>3, <2>4 DEF e
  <2>8. o[1] + o[2] <= q[1]
    BY <2>5, <2>6, <2>7, Zenon DEF e
  <2>9. QED BY <2>8 DEF Apart
<1>11. CASE s # t
  <2> DEFINE a == s * PAGE
             b == t * PAGE
  <2>1. (s + 1) * PAGE = a + PAGE /\ a \in Nat /\ (t + 1) * PAGE = b + PAGE /\ b \in Nat
    BY <1>5
  <2>2. (t < s => b + PAGE <= a) /\ (s < t => a + PAGE <= b)
    <3>1. \A x, y, P \in Nat : x < y => x * P + P <= y * P
      <4> SUFFICES ASSUME NEW x \in Nat, NEW y \in Nat, NEW P \in Nat, x < y
                   PROVE  x * P + P <= y * P
        OBVIOUS
      <4>1. PICK k \in Nat : y = x + 1 + k
        <5>1. y - x - 1 \in Nat /\ y = x + 1 + (y - x - 1)
          OBVIOUS
        <5>2. QED BY <5>1
      <4>2. y * P = x * P + P + k * P /\ k * P \in Nat /\ x * P \in Nat
        BY <4>1
      <4>3. QED BY <4>2
    <3>2. QED BY <1>5, <3>1
  <2>3. q[1] = a + PAGE - Reserved(c) - SLAB /\ q[2] = w
    BY <1>8
  <2>4. q[1] + q[2] = a + PAGE /\ a <= q[1] /\ q[1] \in Nat
    <3> DEFINE e == Reserved(c)
    <3>1. e \in Nat /\ SLAB \in Nat /\ w = SLAB + e /\ w <= PAGE
      BY <1>6, <1>7
    <3> HIDE DEF a, w, e
    <3>2. a + PAGE - e - SLAB + w = a + PAGE /\ a <= a + PAGE - e - SLAB
          /\ a + PAGE - e - SLAB \in Nat
      BY <1>5, <2>1, <3>1
    <3>3. QED BY <2>3, <3>2, Zenon DEF e
  <2> HIDE DEF a, b, c, w
  <2>5. b <= o[1] /\ o[1] + o[2] <= b + PAGE
    BY <1>9, <2>1 DEF b
  <2>6. t < s \/ s < t
    BY <1>5, <1>11
  <2>7. CASE t < s
    <3>1. o[1] + o[2] <= q[1]
      <4>1. o[1] + o[2] \in Nat
        <5>1. z \in Nat /\ o[2] = z /\ o[1] \in Nat
          BY <1>5, <1>9
        <5> HIDE DEF z
        <5>2. QED BY <5>1
      <4> HIDE DEF z
      <4>2. QED BY <1>5, <2>1, <2>2, <2>4, <2>5, <2>7, <4>1
    <3>2. QED BY <3>1 DEF Apart
  <2>8. CASE s < t
    <3>1. q[1] + q[2] <= o[1]
      BY <1>5, <1>9, <2>1, <2>2, <2>4, <2>5, <2>8
    <3>2. QED BY <3>1 DEF Apart
  <2>9. QED BY <2>6, <2>7, <2>8
<1>12. QED BY <1>10, <1>11

-----------------------------------------------------------------------------
(* What follows from it *)

\* What an allocation answers between two calls.
LEMMA Answers ==
  ASSUME HeapAssumption, IInv, NEW n \in Request
  PROVE  LET r == _allocate(heap, n, meta) IN
         /\ n \in Nat /\ (n <= LIMIT \/ n > LIMIT)
         /\ n <= LIMIT => Large(heap, InUse, CacheFor(n), meta, r) \/ Faults(heap, InUse, r)
         /\ n > LIMIT => r = Answer(heap, Null, meta)
<1>1. n \in Nat
  BY DEF HeapAssumption
<1>2. n <= LIMIT \/ n > LIMIT
  BY <1>1 DEF HeapAssumption
<1>3. Sound(heap, InUse) /\ DOMAIN meta \subseteq DOMAIN heap.slab
  BY DEF IInv
<1>4. QED BY <1>1, <1>2, <1>3, AllocateSane

LEMMA ApartHolds ==
  ASSUME HeapAssumption, IInv, OneSlot(heap)
  PROVE  ObjectsApart
<1>1. Typed(heap) /\ Placed(heap, InUse)
  BY SoundParts DEF IInv
<1>2. \A o, q \in InUse : o # q => Apart(o, q)
  BY <1>1, PlacedApart
<1>3. ASSUME NEW n \in Request
      PROVE  LET r == _allocate(heap, n, meta)
                 given == ({r.object} \cup UNION {r.meta[p] : p \in DOMAIN r.meta \ DOMAIN meta})
                              \ {Null}
             IN fault \/ r.fault \/ \A o \in given, q \in InUse \cup Headers(r.heap) : Apart(o, q)
  <2> DEFINE r == _allocate(heap, n, meta)
             more == UNION {r.meta[p] : p \in DOMAIN r.meta \ DOMAIN meta}
             V == InUse \cup Given(r) \cup more
  <2>0. OneSlot(r.heap)
    <3>1. n \in Nat /\ Sound(heap, InUse)
      BY DEF HeapAssumption, IInv
    <3>2. QED BY <3>1, AllocateOneSlot
  <2> SUFFICES ASSUME ~ r.fault, NEW o \in ({r.object} \cup more) \ {Null},
                      NEW q \in InUse \cup Headers(r.heap)
               PROVE  Apart(o, q)
    BY Zenon
  <2>1. /\ n <= LIMIT \/ n > LIMIT
        /\ n <= LIMIT => Large(heap, InUse, CacheFor(n), meta, r) \/ Faults(heap, InUse, r)
        /\ n > LIMIT => r = Answer(heap, Null, meta)
    BY Answers
  <2> HIDE DEF r
  <2>2. CASE Large(heap, InUse, CacheFor(n), meta, r)
    <3>1. /\ Sound(r.heap, V) /\ Given(r) \cap InUse = {} /\ more \cap InUse = {}
      BY <2>2, Zenon DEF Large
    <3>2. Typed(r.heap) /\ Placed(r.heap, V)
      BY <3>1, SoundParts
    <3>3. \A x, y \in V : x # y => Apart(x, y)
      BY <3>2, PlacedApart
    <3> HIDE DEF more
    <3>4. o \in V /\ (q \in InUse => q \in V /\ o # q)
      BY <3>1 DEF Given
    <3> HIDE DEF V
    <3>5. CASE q \in InUse
      BY <3>3, <3>4, <3>5
    <3>6. CASE q \in Headers(r.heap)
      BY <2>0, <3>2, <3>4, <3>6, HeadersApart
    <3>7. QED BY <3>5, <3>6
  <2>3. CASE r = Answer(heap, Null, meta)
    BY <2>3 DEF Answer
  <2>4. CASE Faults(heap, InUse, r)
    BY <2>4 DEF Faults
  <2>5. QED BY <2>1, <2>2, <2>3, <2>4
<1>4. \A o \in InUse, q \in Headers(heap) : Apart(o, q)
  BY <1>1, HeadersApart
<1>5. QED BY <1>2, <1>3, <1>4 DEF ObjectsApart

LEMMA RequestsHold ==
  ASSUME HeapAssumption, IInv
  PROVE  RequestsAreMet
<1>1. RefusesOnlyWhenFull
  <2> SUFFICES ASSUME ~ fault, NEW n \in Request, n <= LIMIT,
                      ~ _allocate(heap, n, meta).fault, _allocate(heap, n, meta).object = Null,
                      NEW s \in DOMAIN heap.slab, heap.slab[s].cache = CacheFor(n)
               PROVE  Clear(heap.slab[s]) = {}
    BY DEF RefusesOnlyWhenFull
  <2> DEFINE r == _allocate(heap, n, meta)
  <2>1. Large(heap, InUse, CacheFor(n), meta, r) \/ Faults(heap, InUse, r)
    BY Answers
  <2>2. ~ r.fault /\ r.object = Null
    OBVIOUS
  <2> HIDE DEF r
  <2>3. heap.total_free[CacheFor(n)] = 0
    BY <2>1, <2>2, Zenon DEF Large, Faults
  <2>4. NothingHidden(heap)
    BY SoundParts DEF IInv
  <2>5. QED BY <2>3, <2>4 DEF NothingHidden
<1>2. FaultAfterGrowth
  BY DEF IInv
<1>3. QED BY <1>1, <1>2 DEF RequestsAreMet

\* The objects in the page of a slab are the set bits of its map.
LEMMA MapHolds ==
  ASSUME HeapAssumption, IInv
  PROVE  MapExact
<1>1. /\ Typed(heap) /\ PoolsAgree(heap) /\ TotalsAgree(heap) /\ Placed(heap, InUse)
  BY SoundParts DEF IInv
<1>2. TypeOK
  <2>1. held \cup lost \subseteq Nat \X Nat
    BY <1>1, PlacedApart DEF InUse
  <2>2. \A s \in DOMAIN heap.slab : heap.slab[s] \in Slab
    BY <1>1, SlabOf
  <2>3. QED BY <1>1, <2>1, <2>2 DEF TypeOK, Typed, IInv
<1>3. ASSUME NEW c \in Cache, ~ Grown(c), ~ fault
      PROVE  LET S == heap.slab[Pool(c)]
                 used == {(o[1] - Pool(c) * PAGE) \div Size[c] :
                             o \in {q \in InUse : q[1] \div PAGE = Pool(c)}}
             IN /\ S.color_map = used
                /\ S.using_count = Cardinality(used)
                /\ S.free_count = S.color_count - S.using_count
                /\ heap.total_using[c] = S.using_count /\ heap.total_free[c] = S.free_count
  <2> DEFINE P == Pool(c)
             S == heap.slab[P]
             used == {(o[1] - P * PAGE) \div Size[c] : o \in {q \in InUse : q[1] \div PAGE = P}}
  <2>1. P \in DOMAIN heap.slab /\ S.cache = c /\ S.color_map \subseteq Nat
    BY <1>1, PoolSlab, SlabFields
  <2>2. ASSUME NEW i \in S.color_map PROVE i \in used
    <3>1. i \in Nat /\ (i + 1) * Size[heap.slab[P].cache] <= PAGE
      BY <1>1, PoolFits
    <3>2. SlotLies(heap, P, i)
      BY <1>1, <2>1, <3>1, SlotsLie, Zenon
    <3>3. Slot(heap, P, i) \in InUse
      BY <1>3 DEF IInv, Exact, Top
    <3> DEFINE o == Slot(heap, P, i)
    <3>4. o[1] \div PAGE = P /\ (o[1] - P * PAGE) \div Size[c] = i
      BY <2>1, <3>2, Zenon DEF SlotLies
    <3> HIDE DEF o
    <3>5. o \in {q \in InUse : q[1] \div PAGE = P}
      BY <3>3, <3>4, Zenon DEF o
    <3>6. QED BY <3>4, <3>5, Zenon
  <2>3. ASSUME NEW i \in used PROVE i \in S.color_map
    <3>1. PICK o \in InUse : o[1] \div PAGE = P /\ i = (o[1] - P * PAGE) \div Size[c]
      BY <2>3, Zenon
    <3>2. PICK s \in DOMAIN heap.slab : \E j \in heap.slab[s].color_map :
              o = Slot(heap, s, j) /\ (j + 1) * Size[heap.slab[s].cache] <= PAGE
      BY <1>1 DEF Placed
    <3>3. PICK j \in heap.slab[s].color_map :
              o = Slot(heap, s, j) /\ (j + 1) * Size[heap.slab[s].cache] <= PAGE
      BY <3>2
    <3>4. j \in Nat
      BY <1>1, SlabOf, SlabFields
    <3>5. SlotLies(heap, s, j)
      BY <1>1, <3>3, <3>4, SlotsLie, Zenon
    <3>6. s = P
      BY <3>1, <3>3, <3>5, Zenon DEF SlotLies
    <3>7. i = j
      BY <2>1, <3>1, <3>3, <3>5, <3>6, Zenon DEF SlotLies
    <3>8. QED BY <3>3, <3>6, <3>7
  <2> HIDE DEF used
  <2>4. S.color_map = used
    BY <2>2, <2>3
  <2>5. S.using_count = Cardinality(S.color_map) /\ S.free_count = S.color_count - S.using_count
    BY <1>1, Zenon DEF PoolsAgree, Top
  <2>6. heap.total_using[c] = S.using_count /\ heap.total_free[c] = S.free_count
    BY <1>1, <1>3, Zenon DEF TotalsAgree, Top, Longer, Grown
  <2>7. S.using_count = Cardinality(used)
    BY <2>4, <2>5, Zenon
  <2>8. QED BY <2>4, <2>5, <2>6, <2>7, Zenon DEF used
<1>4. QED BY <1>2, <1>3 DEF MapExact

\* Objects lie in pages and have the sizes of the caches.
Bytes == {p * PAGE + i : p \in Page, i \in 0 .. PAGE - 1}

LEMMA PlacedIn ==
  ASSUME HeapAssumption, NEW h, NEW U, Typed(h), Placed(h, U), NEW o \in U
  PROVE  o \in Bytes \X {Size[c] : c \in Cache}
<1>1. PICK s \in DOMAIN h.slab : \E i \in h.slab[s].color_map :
          o = Slot(h, s, i) /\ (i + 1) * Size[h.slab[s].cache] <= PAGE
  BY DEF Placed
<1>2. PICK i \in h.slab[s].color_map :
          o = Slot(h, s, i) /\ (i + 1) * Size[h.slab[s].cache] <= PAGE
  BY <1>1
<1>3. i \in Nat /\ s \in Page /\ h.slab[s].cache \in Cache
  BY SlabOf, SlabFields
<1>4. SlotLies(h, s, i)
  BY <1>2, <1>3, SlotsLie, Zenon
<1> DEFINE z == Size[h.slab[s].cache]
<1>5. o[1] = s * PAGE + i * z /\ o[2] = z /\ i * z \in 0 .. PAGE - 1 /\ o \in Nat \X Nat
  BY <1>2, <1>4, Zenon DEF SlotLies
<1>6. o[2] \in {Size[c] : c \in Cache}
  BY <1>3, <1>5
<1>7. o[1] \in Bytes
  <2> DEFINE k == i * z
  <2>1. o[1] = s * PAGE + k /\ k \in 0 .. PAGE - 1
    BY <1>5
  <2> HIDE DEF k
  <2>2. \E p \in Page, j \in 0 .. PAGE - 1 : o[1] = p * PAGE + j
    BY <1>3, <2>1
  <2>3. QED BY <2>2 DEF Bytes
<1> HIDE DEF z
<1>8. QED BY <1>5, <1>6, <1>7

-----------------------------------------------------------------------------
(* The theorems *)

\* However requests, releases and growths follow each other, no two objects
\* share a byte, be they a client's or the Slab and map of a large slab, nor an
\* object and what a page sets apart for a Slab of its own, and no request is
\* given any byte of these (kheap.hpp:130, 154, 203, 206, 242).
THEOREM ObjectsStayApart == Spec => []ObjectsApart
<1>1. IInv /\ OneSlot(heap) => ObjectsApart
  BY HeapAssumption, ApartHolds
<1>2. QED BY <1>1, AlwaysOneSlot, PTL

\* No counter wraps, and in a cache that never grew the colour map is exactly
\* what is in use, with which the four counters agree (kheap.hpp:213-217,
\* 242-246).
THEOREM MapStaysExact == Spec => []MapExact
<1>1. IInv => MapExact
  BY HeapAssumption, MapHolds
<1>2. QED BY <1>1, Inductive, PTL

\* A request that is small enough is refused only when no slab of its cache
\* has a clear bit, and a null pointer is followed only after a growth or
\* when the pages are used up (kheap.hpp:129, 139, 161, 177, 185, 206).
THEOREM RequestsStayMet == Spec => []RequestsAreMet
<1>1. IInv => RequestsAreMet
  BY HeapAssumption, RequestsHold
<1>2. QED BY <1>1, Inductive, PTL

\* Operator new and the two of delete are steps of the abstract memory: what
\* is given lies in a page, has the size of a cache and is apart from all that
\* is held (kheap.cpp, kheap.hpp:126-249).
THEOREM HeapIsObjects == Spec => ImplementsObjects
<1>1. Init => O!Init
  BY DEF Init, O!Init
<1>2. IInv /\ OneSlot(heap) /\ IInv' /\ [Next]_vars => [O!Next]_held
  <2> SUFFICES ASSUME IInv, OneSlot(heap), IInv', [Next]_vars PROVE O!New \/ O!Delete \/ held' = held
    BY DEF O!Next
  <2>1. ASSUME NEW n \in Request, new(n) PROVE O!New \/ held' = held
    <3> DEFINE r == _allocate(heap, n, meta)
               o == r.object
    <3>1. held' = (IF o = Null THEN held ELSE held \cup {o}) /\ ~ fault
      BY <2>1 DEF new
    <3>2. r.fault \/ \A q \in InUse : o # Null => Apart(o, q)
      BY <3>1, HeapAssumption, ApartHolds DEF ObjectsApart
    <3>3. r.fault => o = Null
      <4>1. \/ Large(heap, InUse, CacheFor(n), meta, r) \/ Faults(heap, InUse, r)
            \/ r = Answer(heap, Null, meta)
        BY HeapAssumption, Answers
      <4> HIDE DEF r
      <4>2. r = Answer(heap, Null, meta) => o = Null
        BY DEF Answer
      <4>3. QED BY <4>1, <4>2 DEF Large, Faults
    <3> HIDE DEF r, o
    <3>4. CASE o # Null
      <4>1. held' = held \cup {o} /\ \A q \in held : Apart(o, q)
        BY <3>1, <3>2, <3>3, <3>4 DEF InUse
      <4>2. Typed(heap') /\ Placed(heap', InUse') /\ o \in InUse'
        <5>1. Sound(heap', InUse')
          BY DEF IInv
        <5>2. QED BY <4>1, <5>1, SoundParts DEF InUse
      <4>3. o \in Bytes \X {Size[c] : c \in Cache}
        BY <4>2, HeapAssumption, PlacedIn
      <4>4. QED BY <4>1, <4>3 DEF O!New, O!Apart, Apart, Bytes
    <3>5. QED BY <3>1, <3>4
  <2>2. ASSUME NEW o \in held, delete(o) PROVE O!Delete
    BY <2>2 DEF delete, O!Delete
  <2>3. ASSUME NEW o \in held, sized_delete(o) PROVE O!Delete
    BY <2>3 DEF sized_delete, O!Delete
  <2>4. QED BY <2>1, <2>2, <2>3 DEF Next, vars
<1>3. QED BY <1>1, <1>2, AlwaysOneSlot, PTL DEF Spec, ImplementsObjects, O!Spec
=============================================================================
