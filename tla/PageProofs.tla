----------------------------- MODULE PageProofs -----------------------------
(***************************************************************************)
(* What PageAllocator promises for as long as its searches are sound: for  *)
(* every size of zone and word, any requests up to two zones, any bases    *)
(* and any clients.                                                        *)
(***************************************************************************)
EXTENDS PageAllocator, FiniteSetTheorems, WellFoundedInduction, TLAPS

\* No request is for a whole number of zones, whose last zone Grow leaves
\* unmarked (:216), and no reserved entry crosses into a second zone
\* (page.cpp:56).
Regular ==
    /\ \A n \in Sizes : n % PAGES # 0
    /\ \A e \in Map : e[2] <= (e[1] \div PAGES) * PAGES + PAGES

IsMarked(a) == \E z \in zone_tree : a - z \in pages[z]
Address(c)  == held[c][1]
Array(h)    == h .. h + zone_count[h] * PAGES - 1

Types ==
    /\ zone_tree \in SUBSET Zone
    /\ head \in SUBSET zone_tree
    /\ zone_count \in [Zone -> Nat]
    /\ free_page \in [Zone -> Nat]
    /\ pages \in [Zone -> SUBSET Bit]
    /\ held \in [Client -> (Nat \X Sizes) \cup {None}]

\* The zones are those of the arrays; no two zones share a page, and no two
\* arrays.
Whole    == /\ \A h \in head : \A i \in Index(h) : At(h, i) \in zone_tree
            /\ \A h \in head : zone_count[h] >= 1
Covered  == \A z \in zone_tree : \E h \in head : \E i \in Index(h) : z = At(h, i)
Disjoint == /\ \A y, z \in zone_tree : y = z \/ Apart(y, z)
            /\ \A g, h \in head : g = h \/ Array(g) \cap Array(h) = {}

\* n pages from a on lie in a zone of an array, or in it and the next.
Lies(a, n, h, i) ==
    /\ h \in head /\ i \in Index(h)
    /\ At(h, i) <= a /\ a < At(h, i) + PAGES
    /\ a + n < At(h, i) + PAGES + PAGES
    /\ a + n <= At(h, i) + PAGES \/ i + 1 \in Index(h)
Placed == \A c \in Client : held[c] # None => \E h, i : Lies(held[c][1], held[c][2], h, i)

\* What is held or reserved is marked, and no page is so twice.
AllMarked ==
    /\ \A c \in Client : \A p \in Block(c) : IsMarked(p)
    /\ \A e \in Map : \A p \in e[1] .. e[2] - 1 : IsMarked(p)
Once ==
    /\ \A c, d \in Client : c # d => Block(c) \cap Block(d) = {}
    /\ \A c \in Client : \A e \in Map : Block(c) \cap (e[1] .. e[2] - 1) = {}

IInv == Types /\ Whole /\ Covered /\ Disjoint /\ Placed /\ AllMarked /\ Once

-----------------------------------------------------------------------------
(* Arithmetic of zones *)

\* Division by the pages of a zone.
LEMMA DivMod ==
  ASSUME NEW P \in Nat, P > 0, NEW a \in Nat
  PROVE  /\ a \div P \in Nat
         /\ a % P \in 0 .. P - 1
         /\ a = P * (a \div P) + (a % P)
OBVIOUS

\* A multiple divides evenly.
LEMMA Divides ==
  ASSUME NEW P \in Nat, P > 0, NEW k \in Nat
  PROVE  (k * P) \div P = k
OBVIOUS

\* Different multiples of P are at least P apart.
LEMMA Multiples ==
  ASSUME NEW P \in Nat, NEW k \in Nat, NEW l \in Nat, k < l
  PROVE  k * P + P <= l * P
<1>1. PICK m \in Nat : l = k + 1 + m
  <2>1. l - k - 1 \in Nat /\ l = k + 1 + (l - k - 1)
    OBVIOUS
  <2> QED
    BY <2>1
<1>2. l * P = k * P + P + m * P
  BY <1>1
<1>3. m * P \in Nat /\ k * P \in Nat
  OBVIOUS
<1> QED
  BY <1>2, <1>3

\* A number is in one way a multiple of P and a rest.
LEMMA Remainder ==
  ASSUME NEW P \in Nat, P > 0, NEW a \in Nat, NEW k \in Nat, NEW j \in 0 .. P - 1,
         a = k * P + j
  PROVE  a \div P = k /\ a % P = j
<1> DEFINE q == a \div P
           r == a % P
<1>1. q \in Nat /\ r \in 0 .. P - 1 /\ a = P * q + r
  BY DivMod
<1> HIDE DEF q, r
<1>2. P * q = q * P /\ k * P \in Nat /\ q * P \in Nat
  BY <1>1
<1>3. ~(q < k) /\ ~(k < q)
  BY <1>1, <1>2, Multiples
<1>4. q = k
  BY <1>1, <1>3
<1> QED
  BY <1>1, <1>2, <1>4 DEF q, r

\* What is left of a page of a zone that begins at a multiple of P.
LEMMA Residue ==
  ASSUME NEW P \in Nat, P > 0, NEW y \in Nat, y % P = 0, NEW j \in 0 .. P - 1
  PROVE  (y + j) % P = j
<1> DEFINE k == y \div P
<1>1. k \in Nat /\ y = P * k
  BY DivMod
<1> HIDE DEF k
<1>2. y + j = k * P + j /\ y + j \in Nat
  BY <1>1
<1> QED
  BY <1>1, <1>2, Remainder

\* The zone behind a zone is at a multiple of P only if that zone is.
LEMMA Aligned ==
  ASSUME NEW P \in Nat, P > 0, NEW z \in Nat, (z + P) % P = 0
  PROVE  z % P = 0
<1>1. PICK y \in Nat : y = z + P
  OBVIOUS
<1>2. PICK q \in Nat : q = y \div P
  BY DivMod
<1>3. y = P * q + (y % P) /\ y % P = 0
  BY <1>1, <1>2, DivMod
<1>4. y = q * P /\ q >= 1
  BY <1>1, <1>3
<1>5. PICK m \in Nat : m = q - 1
  BY <1>4
<1>6. m * P = q * P - P
  BY <1>5
<1>7. PICK j \in 0 .. P - 1 : j = 0
  OBVIOUS
<1>8. z = m * P + j
  BY <1>1, <1>4, <1>6, <1>7
<1>9. z % P = j
  BY <1>8, Remainder
<1> QED
  BY <1>7, <1>9

\* A request is for less than a zone, or for one zone and less than another.
LEMMA SizesAre ==
  ASSUME PageAssumption, Regular, NEW n \in Sizes
  PROVE  /\ PAGES \in Nat /\ PAGES > 1 /\ n \in Nat /\ n > 0
         /\ \/ n < PAGES /\ ZonesFor(n) = 1 /\ n % PAGES = n
            \/ /\ n > PAGES /\ n < PAGES + PAGES
               /\ ZonesFor(n) = 2 /\ n % PAGES = n - PAGES
<1>1. PAGES \in Nat /\ PAGES > 0 /\ n \in Nat /\ n > 0 /\ n <= PAGES + PAGES /\ n % PAGES # 0
  BY DEF PageAssumption, Regular
<1>2. n # PAGES
  <2>1. PAGES = 1 * PAGES + 0
    BY <1>1
  <2>2. PAGES % PAGES = 0
    BY <2>1, <1>1, Remainder
  <2> QED
    BY <2>2, <1>1
<1>3. n # PAGES + PAGES
  <2>1. PAGES + PAGES = 2 * PAGES + 0 /\ PAGES + PAGES \in Nat
    BY <1>1
  <2>2. (PAGES + PAGES) % PAGES = 0
    BY <2>1, <1>1, Remainder
  <2> QED
    BY <2>2, <1>1
<1>4. PAGES > 1
  <2>1. PAGES = 1 => n % PAGES = 0
    BY <1>1, DivMod
  <2> QED
    BY <2>1, <1>1
<1>5. CASE n < PAGES
  <2>1. n = 0 * PAGES + n /\ n + PAGES - 1 = 1 * PAGES + (n - 1) /\ n - 1 \in 0 .. PAGES - 1
    BY <1>1, <1>5
  <2>2. n % PAGES = n /\ (n + PAGES - 1) \div PAGES = 1
    BY <2>1, <1>1, <1>5, Remainder
  <2> QED
    BY <2>2, <1>1, <1>4, <1>5 DEF ZonesFor
<1>6. CASE n > PAGES
  <2>1. /\ n = 1 * PAGES + (n - PAGES) /\ n - PAGES \in 0 .. PAGES - 1
        /\ n + PAGES - 1 = 2 * PAGES + (n - PAGES - 1) /\ n - PAGES - 1 \in 0 .. PAGES - 1
    BY <1>1, <1>3, <1>6
  <2>2. n % PAGES = n - PAGES /\ (n + PAGES - 1) \div PAGES = 2
    BY <2>1, <1>1, <1>6, Remainder
  <2> QED
    BY <2>2, <1>1, <1>3, <1>4, <1>6 DEF ZonesFor
<1> QED
  BY <1>1, <1>2, <1>5, <1>6

LEMMA ZoneNat ==
  ASSUME PageAssumption
  PROVE  Zone \subseteq Nat /\ PAGES \in Nat /\ PAGES > 0
<1>1. PAGES \in Nat /\ PAGES > 0 /\ ZONES \in Nat /\ Bases \subseteq Nat
  BY DEF PageAssumption
<1>2. \A k \in 0 .. ZONES - 1 : k * PAGES \in Nat
  BY <1>1
<1>3. \A b \in Bases : b + PAGES \in Nat
  BY <1>1
<1> QED
  BY <1>1, <1>2, <1>3 DEF Zone, Boot

\* Where the zones of an array begin.
LEMMA Places ==
  ASSUME PageAssumption, Types, NEW h \in head, NEW i \in Index(h)
  PROVE  /\ h \in Nat /\ i \in Nat /\ zone_count[h] \in Nat /\ zone_count[h] * PAGES \in Nat
         /\ At(h, i) \in Nat /\ At(h, i) >= h
         /\ At(h, i) + PAGES <= h + zone_count[h] * PAGES
         /\ i = 0 => At(h, i) = h
         /\ i # 0 => At(h, i) >= h + PAGES
         /\ At(h, i + 1) = At(h, i) + PAGES
         /\ 0 \in Index(h)
<1>1. h \in Nat /\ zone_count[h] \in Nat /\ PAGES \in Nat
  BY ZoneNat DEF Types
<1> DEFINE m == zone_count[h]
<1>2. m \in Nat /\ i \in Nat /\ i < m
  BY <1>1 DEF Index
<1> HIDE DEF m
<1>3. m * PAGES \in Nat /\ i * PAGES \in Nat /\ (i + 1) * PAGES = i * PAGES + PAGES /\ 0 * PAGES = 0
  BY <1>1, <1>2
<1>4. i * PAGES + PAGES <= m * PAGES
  BY <1>1, <1>2, Multiples
<1>5. i # 0 => 0 * PAGES + PAGES <= i * PAGES
  BY <1>1, <1>2, Multiples
<1>6. 0 \in 0 .. m - 1
  BY <1>2
<1> QED
  BY <1>1, <1>2, <1>3, <1>4, <1>5, <1>6 DEF At, m, Index

\* A page that is marked has one zone, and its bit there is the page's place.
LEMMA MarkedIn ==
  ASSUME PageAssumption, Types, Disjoint, NEW z \in zone_tree, NEW p \in Int,
         z <= p, p < z + PAGES
  PROVE  IsMarked(p) <=> p - z \in pages[z]
<1> SUFFICES ASSUME IsMarked(p) PROVE p - z \in pages[z]
  BY DEF IsMarked
<1>1. PICK y \in zone_tree : p - y \in pages[y]
  BY DEF IsMarked
<1>2. y \in Nat /\ z \in Nat /\ pages[y] \subseteq Bit /\ PAGES \in Nat
  BY ZoneNat DEF Types
<1>3. p - y \in 0 .. PAGES - 1
  BY <1>1, <1>2 DEF Bit
<1>4. ~Apart(y, z)
  BY <1>2, <1>3 DEF Apart
<1>5. y = z
  BY <1>4 DEF Disjoint
<1> QED
  BY <1>1, <1>5

\* The pages of a block are in its array.
LEMMA LiesIn ==
  ASSUME PageAssumption, Types, NEW a \in Nat, NEW n \in Nat, NEW h, NEW i, Lies(a, n, h, i)
  PROVE  /\ a .. a + n - 1 \subseteq Array(h)
         /\ \A p \in a .. a + n - 1 :
               \/ At(h, i) <= p /\ p < At(h, i) + PAGES
               \/ i + 1 \in Index(h) /\ At(h, i + 1) <= p /\ p < At(h, i + 1) + PAGES
<1>1. h \in head /\ i \in Index(h)
  BY DEF Lies
<1>2. /\ h \in Nat /\ At(h, i) \in Nat /\ At(h, i) >= h /\ PAGES \in Nat
      /\ At(h, i) + PAGES <= h + zone_count[h] * PAGES
      /\ At(h, i + 1) = At(h, i) + PAGES
      /\ zone_count[h] * PAGES \in Nat
  BY <1>1, Places, ZoneNat
<1>3. i + 1 \in Index(h) => At(h, i + 1) + PAGES <= h + zone_count[h] * PAGES
  BY <1>1, Places
<1> DEFINE m == zone_count[h] * PAGES
           z == At(h, i)
<1>4. /\ z <= a /\ a < z + PAGES /\ a + n < z + PAGES + PAGES
      /\ a + n <= z + PAGES \/ i + 1 \in Index(h)
  BY DEF Lies
<1>5. ASSUME NEW p \in a .. a + n - 1
      PROVE  p \in h .. h + m - 1 /\
             (\/ z <= p /\ p < z + PAGES
              \/ i + 1 \in Index(h) /\ At(h, i + 1) <= p /\ p < At(h, i + 1) + PAGES)
  <2>1. p \in Nat /\ a <= p /\ p < a + n
    BY <1>5
  <2>2. m \in Nat /\ z \in Nat /\ z >= h /\ z + PAGES <= h + m /\ At(h, i + 1) = z + PAGES
        /\ (i + 1 \in Index(h) => z + PAGES + PAGES <= h + m)
    BY <1>2, <1>3
  <2> HIDE DEF m, z
  <2>3. CASE p < z + PAGES
    BY <2>1, <2>2, <2>3, <1>2, <1>4
  <2>4. CASE ~(p < z + PAGES)
    BY <2>1, <2>2, <2>4, <1>2, <1>4
  <2> QED
    BY <2>3, <2>4
<1> QED
  BY <1>5 DEF Array

\* What a client holds.
LEMMA Holds ==
  ASSUME Types, NEW c \in Client
  PROVE  /\ held[c] = None => Block(c) = {}
         /\ held[c] # None => /\ held[c][1] \in Nat /\ held[c][2] \in Sizes
                              /\ held[c] = <<held[c][1], held[c][2]>>
                              /\ Block(c) = held[c][1] .. held[c][1] + held[c][2] - 1
BY DEF Types, Block

LEMMA BlockNat ==
  ASSUME PageAssumption, Types, NEW c \in Client, NEW p \in Block(c)
  PROVE  /\ held[c] # None /\ p \in Nat /\ held[c][1] \in Nat /\ held[c][2] \in Nat
         /\ held[c][1] <= p /\ p < held[c][1] + held[c][2]
<1>1. held[c] # None
  BY Holds
<1>2. held[c][1] \in Nat /\ held[c][2] \in Nat
  <2>1. Sizes \subseteq Nat
    BY DEF PageAssumption
  <2> QED
    BY <2>1, <1>1, Holds
<1>3. p \in held[c][1] .. held[c][1] + held[c][2] - 1
  BY <1>1, Holds
<1> QED
  BY <1>1, <1>2, <1>3

-----------------------------------------------------------------------------
(* Initial states *)

LEMMA InitInv ==
  ASSUME PageAssumption, Regular, Init
  PROVE  IInv
<1> USE DEF Init
<1>0. PAGES \in Nat /\ PAGES > 0 /\ ZONES \in Nat /\ ZONES > 0
  BY DEF PageAssumption
<1>1. Boot \subseteq Zone /\ 0 \in Boot
  <2>1. 0 = 0 * PAGES /\ 0 \in 0 .. ZONES - 1
    BY <1>0
  <2> QED
    BY <2>1 DEF Boot, Zone
<1>2. Types
  <2>1. ZONES * PAGES \in Nat
    BY <1>0
  <2>2. \A z : Marked(z) \subseteq Bit
    BY DEF Marked
  <2> QED
    BY <1>0, <1>1, <2>1, <2>2 DEF Types
<1>3. Whole
  <2>1. \A i \in Index(0) : At(0, i) \in Boot
    BY <1>0, <1>1, SMTT(40) DEF Index, At, Boot, Zone
  <2>2. zone_count[0] >= 1
    BY <1>0, <1>1
  <2> QED
    BY <2>1, <2>2 DEF Whole
<1>4. Disjoint
  <2>1. ASSUME NEW k \in 0 .. ZONES - 1, NEW l \in 0 .. ZONES - 1, k # l
        PROVE  Apart(k * PAGES, l * PAGES)
    <3>1. k < l \/ l < k
      BY <2>1
    <3> QED
      BY <3>1, <1>0, Multiples DEF Apart
  <2>2. \A y, z \in zone_tree : y = z \/ Apart(y, z)
    <3> SUFFICES ASSUME NEW y \in Boot, NEW z \in Boot, y # z PROVE Apart(y, z)
      BY Zenon
    <3>1. PICK k \in 0 .. ZONES - 1 : y = k * PAGES
      BY Zenon DEF Boot
    <3>2. PICK l \in 0 .. ZONES - 1 : z = l * PAGES
      BY Zenon DEF Boot
    <3>3. k # l
      BY <3>1, <3>2
    <3> QED
      BY <2>1, <3>1, <3>2, <3>3, Zenon
  <2>3. \A g, h \in head : g = h
    BY Zenon
  <2> QED
    BY <2>2, <2>3, Zenon DEF Disjoint
<1>5. Covered
  <2> SUFFICES ASSUME NEW k \in 0 .. ZONES - 1
               PROVE  k \in Index(0) /\ k * PAGES = At(0, k)
    BY DEF Covered, Boot
  <2>1. k * PAGES \in Int
    BY <1>0
  <2> QED
    BY <2>1, <1>0, <1>1 DEF Index, At
<1>6. \A e \in Map : \A p \in e[1] .. e[2] - 1 : IsMarked(p)
  <2> SUFFICES ASSUME NEW e \in Map, NEW p \in e[1] .. e[2] - 1
               PROVE  IsMarked(p)
    OBVIOUS
  <2>1. PICK a \in Nat, b \in Nat : a = e[1] /\ b = e[2]
    BY DEF PageAssumption
  <2> DEFINE k == a \div PAGES
             z == k * PAGES
             j == p - z
  <2>2. /\ p \in Nat /\ p >= a /\ p < b /\ a < ZONES * PAGES /\ b <= z + PAGES
    BY <2>1 DEF PageAssumption, Regular
  <2>3. k \in Nat /\ a % PAGES \in 0 .. PAGES - 1 /\ a = PAGES * k + (a % PAGES)
    BY <1>0, DivMod
  <2>4. z = PAGES * k /\ z \in Nat
    BY <2>3, <1>0
  <2> HIDE DEF k
  <2>5. k < ZONES
    <3>1. SUFFICES ASSUME k >= ZONES PROVE FALSE
      BY <2>3, <1>0
    <3>2. ZONES * PAGES <= z
      <4>1. CASE k = ZONES
        BY <4>1, <2>4, <1>0
      <4>2. CASE ZONES < k
        <5>1. ZONES * PAGES + PAGES <= k * PAGES
          BY <4>2, Multiples, <2>3, <1>0
        <5> QED
          BY <5>1, <1>0, <2>4
      <4> QED
        BY <3>1, <4>1, <4>2, <2>3, <1>0
    <3>3. a >= z /\ a < ZONES * PAGES
      BY <2>2, <2>3, <2>4
    <3>4. ZONES * PAGES \in Nat
      BY <1>0
    <3> HIDE DEF z
    <3> QED
      BY <3>2, <3>3, <3>4, <2>4
  <2>6. z \in Boot /\ z \div PAGES = k
    <3>1. k \in 0 .. ZONES - 1
      BY <2>3, <2>5, <1>0
    <3> QED
      BY <3>1, <2>3, <1>0, Divides DEF Boot
  <2>7. j \in Bit /\ z + j = p
    BY <2>2, <2>3, <2>4, <1>0 DEF Bit
  <2>8. j \in Marked(z)
    BY <2>1, <2>6, <2>7 DEF Marked, k
  <2> QED
    BY <2>6, <2>8, <1>1 DEF IsMarked
<1>7. \A c \in Client : held[c] = None /\ Block(c) = {}
  BY DEF Block
<1> QED
  BY <1>2, <1>3, <1>4, <1>5, <1>6, <1>7 DEF IInv, Placed, AllMarked, Once

-----------------------------------------------------------------------------
(* What an allocation does *)

\* Every set of numbers has a least one.
Less == {p \in Nat \X Nat : p[1] < p[2]}
LEMMA LeastNat ==
  ASSUME NEW T \in SUBSET Nat, T # {}
  PROVE  Least(T) # {} /\ First(T) \in Least(T)
<1>1. Less = OpToRel(<, Nat)
  BY DEF Less, OpToRel
<1>2. IsWellFoundedOn(Less, Nat)
  BY <1>1, NatLessThanWellFounded DEF Less, OpToRel
<1>3. PICK x \in T : \A y \in T : ~ (<<y, x>> \in Less)
  BY <1>2, WFMin
<1>4. x \in Least(T)
  <2>1. \A y \in T : ~ (y < x) /\ x \in Nat /\ y \in Nat
    BY <1>3 DEF Less
  <2>2. \A y \in T : x <= y
    BY <2>1
  <2> QED
    BY <2>2 DEF Least
<1>5. x \in T
  OBVIOUS
<1>6. First(T) \in T /\ First(T) \in Least(T)
  BY <1>4, <1>5 DEF First
<1> QED
  BY <1>4, <1>6

\* The bits that count_from_high and count_from_low count are clear.
LEMMA TopIsClear ==
  ASSUME PAGES \in Nat, NEW S
  PROVE  /\ ClearAtTop(S) \in 0 .. PAGES
         /\ \A j \in Bit : j >= PAGES - ClearAtTop(S) => j \notin S
<1> DEFINE K == {k \in 0 .. PAGES : k = PAGES \/ PAGES - 1 - k \in S}
<1>1. K \in SUBSET Nat /\ PAGES \in K /\ ClearAtTop(S) = First(K)
  BY DEF ClearAtTop
<1>2. First(K) \in Least(K)
  BY <1>1, LeastNat
<1> DEFINE t == First(K)
<1>3. t \in K /\ \A k \in K : t <= k
  BY <1>2 DEF Least
<1>4. ASSUME NEW j \in Bit, j >= PAGES - t, j \in S PROVE FALSE
  <2>1. PAGES - 1 - j \in 0 .. PAGES /\ PAGES - 1 - (PAGES - 1 - j) = j
    BY DEF Bit
  <2>2. PAGES - 1 - j \in K
    BY <2>1, <1>4
  <2>3. t <= PAGES - 1 - j /\ t \in Nat
    BY <2>2, <1>1, <1>3
  <2> HIDE DEF t
  <2> QED
    BY <2>3, <1>4 DEF Bit
<1>5. t \in 0 .. PAGES
  BY <1>3
<1> QED
  BY <1>1, <1>4, <1>5

LEMMA BottomIsClear ==
  ASSUME PAGES \in Nat, NEW S, NEW j \in Nat, j < ClearAtBottom(S), j \in Bit
  PROVE  j \notin S
<1> DEFINE K == {k \in 0 .. PAGES : k = PAGES \/ k \in S}
<1>1. K \in SUBSET Nat /\ PAGES \in K /\ ClearAtBottom(S) = First(K)
  BY DEF ClearAtBottom
<1>2. First(K) \in Least(K)
  BY <1>1, LeastNat
<1>3. First(K) \in K /\ \A k \in K : First(K) <= k
  BY <1>2 DEF Least
<1>4. j \in S => j \in K
  BY DEF Bit
<1>5. First(K) \in Nat
  BY <1>1, <1>3
<1> HIDE DEF K
<1> QED
  BY <1>1, <1>3, <1>4, <1>5

\* find reports a run of n clear bits to who asks for n.
LEMMA RunFits ==
  ASSUME PAGES \in Nat, NEW S, NEW n \in Nat, n > 0, NEW s \in Bit, s + n <= PAGES,
         \A j \in s .. s + n - 1 : j \notin S
  PROVE  Fits(S, n, s)
<1> DEFINE e == s + n - 1
<1>1. s \in Nat /\ e \in s .. PAGES - 1 /\ s \in s .. e /\ e \in s .. e
  BY DEF Bit
<1>2. (s .. e) \ S = s .. e
  OBVIOUS
<1>3. Cardinality(s .. e) = n
  <2>1. Cardinality(s .. e) = IF s > e THEN 0 ELSE e - s + 1
    BY <1>1, FS_Interval
  <2> QED
    BY <2>1, <1>1
<1>4. {s, e} \cap S = {}
  BY <1>1
<1> HIDE DEF e
<1>5. \A j \in s .. e : j \notin S
  BY DEF e
<1> QED
  BY <1>1, <1>2, <1>3, <1>4, <1>5 DEF Fits

\* The step gives client c the n pages from a on, in zone i of array h: they
\* were clear, and of all pages only they become marked.
Serves(c, n, h, i, a) ==
    /\ held[c] = None /\ held' = [held EXCEPT ![c] = <<a, n>>]
    /\ UNCHANGED <<zone_tree, head, zone_count>>
    /\ a \in Nat /\ Lies(a, n, h, i)
    /\ free_page[h] >= n /\ Taken(h, i, n)
    /\ pages' \in [Zone -> SUBSET Bit]
    /\ \A p \in a .. a + n - 1 : ~IsMarked(p)
    /\ \A p \in Int : IsMarked(p)' <=> IsMarked(p) \/ p \in a .. a + n - 1

\* What is given is a block, so Sound speaks of its size.
LEMMA Asked ==
  ASSUME PageAssumption, Types, Sound, NEW c \in Client, NEW a \in Nat, NEW n \in Sizes,
         held[c] = None, held' = [held EXCEPT ![c] = <<a, n>>]
  PROVE  SearchIsRight(n) /\ SpanIsRight(n)
<1>1. n \in Nat /\ <<a, n>> # None
  BY DEF PageAssumption
<1>2. held'[c] = <<a, n>>
  BY DEF Types
<1>3. held'[c] # None /\ held'[c][2] = n
  BY <1>1, <1>2
<1> QED
  BY <1>3, Zenon DEF Sound

\* An allocation within one zone.
LEMMA InZoneServes ==
  ASSUME PageAssumption, Regular, IInv, Sound, NEW c \in Client, NEW n \in Sizes,
         AllocateInZone(c, n)
  PROVE  \E h, i, a : Serves(c, n, h, i, a)
<1>0. PAGES \in Nat /\ PAGES > 1 /\ Zone \subseteq Nat /\ n \in Nat /\ n > 0 /\ n < PAGES + PAGES
  BY ZoneNat, SizesAre
<1>1. PICK lucky \in SUBSET head : \E h \in Least(Able(n, lucky)) :
        \E i \in Least(Single(h, n)) : \E s \in find(pages[At(h, i)], n) :
          /\ pages' = [pages EXCEPT ![At(h, i)] = @ \cup (s .. s + n - 1)]
          /\ Taken(h, i, n)
          /\ held' = [held EXCEPT ![c] = <<At(h, i) + s, n>>]
  BY DEF AllocateInZone
<1>2. PICK h \in Least(Able(n, lucky)) :
        \E i \in Least(Single(h, n)) : \E s \in find(pages[At(h, i)], n) :
          /\ pages' = [pages EXCEPT ![At(h, i)] = @ \cup (s .. s + n - 1)]
          /\ Taken(h, i, n)
          /\ held' = [held EXCEPT ![c] = <<At(h, i) + s, n>>]
  BY <1>1
<1>3. PICK i \in Least(Single(h, n)) : \E s \in find(pages[At(h, i)], n) :
          /\ pages' = [pages EXCEPT ![At(h, i)] = @ \cup (s .. s + n - 1)]
          /\ Taken(h, i, n)
          /\ held' = [held EXCEPT ![c] = <<At(h, i) + s, n>>]
  BY <1>2
<1>4. PICK s \in find(pages[At(h, i)], n) :
          /\ pages' = [pages EXCEPT ![At(h, i)] = @ \cup (s .. s + n - 1)]
          /\ Taken(h, i, n)
          /\ held' = [held EXCEPT ![c] = <<At(h, i) + s, n>>]
  BY <1>3
<1>5. h \in head /\ free_page[h] >= n /\ i \in Index(h) /\ s \in Bit
  BY DEF Least, Able, Single, find
<1>6. PICK z \in zone_tree : z = At(h, i) /\ z \in Nat /\ z \in Zone
  BY <1>0, <1>5 DEF IInv, Whole, Types
<1>7. PICK a \in Nat : a = z + s
  BY <1>0, <1>5, <1>6 DEF Bit
<1>8. held[c] = None /\ UNCHANGED <<zone_tree, head, zone_count>>
  BY DEF AllocateInZone
<1>9. held' = [held EXCEPT ![c] = <<a, n>>]
  BY <1>4, <1>6, <1>7
<1>10. s + n <= PAGES /\ (s .. s + n - 1) \cap pages[z] = {}
  <2>1. SearchIsRight(n)
    BY <1>8, <1>9, Asked DEF IInv
  <2>2. s \in find(pages[z], n)
    BY <1>6
  <2> QED
    BY <2>1, <2>2 DEF SearchIsRight
<1>11. pages' = [pages EXCEPT ![z] = @ \cup (s .. s + n - 1)] /\ pages \in [Zone -> SUBSET Bit]
  BY <1>4, <1>6 DEF IInv, Types
<1>12. s .. s + n - 1 \subseteq Bit
  BY <1>0, <1>5, <1>10 DEF Bit
<1>13. Lies(a, n, h, i)
  BY <1>0, <1>5, <1>6, <1>7, <1>10 DEF Lies, Bit
<1>14. \A p \in a .. a + n - 1 : ~IsMarked(p)
  <2> SUFFICES ASSUME NEW p \in a .. a + n - 1 PROVE ~IsMarked(p)
    OBVIOUS
  <2>1. p \in Int /\ z <= p /\ p < z + PAGES /\ p - z \in s .. s + n - 1
    BY <1>0, <1>5, <1>6, <1>7, <1>10 DEF Bit
  <2>2. p - z \notin pages[z]
    BY <2>1, <1>10
  <2> QED
    BY <2>1, <2>2, MarkedIn DEF IInv
<1>15. \A p \in Int : IsMarked(p)' <=> IsMarked(p) \/ p \in a .. a + n - 1
  <2> TAKE p \in Int
  <2>1. p \in a .. a + n - 1 <=> p - z \in s .. s + n - 1
    BY <1>0, <1>5, <1>6, <1>7 DEF Bit
  <2>2. pages'[z] = pages[z] \cup (s .. s + n - 1)
        /\ \A y \in zone_tree : y # z => pages'[y] = pages[y]
    BY <1>6, <1>11 DEF IInv, Types
  <2> QED
    BY <2>1, <2>2, <1>8 DEF IsMarked
<1>16. pages' \in [Zone -> SUBSET Bit]
  BY <1>11, <1>12, <1>6
<1>17. Taken(h, i, n)
  BY <1>4
<1> QED
  BY <1>5, <1>7, <1>8, <1>9, <1>13, <1>14, <1>15, <1>16, <1>17 DEF Serves

\* The head and the tail of a block over two zones: the clear bits at the top
\* of the first do not do, and the rest is less than a zone.
LEMMA SpanIs ==
  ASSUME PageAssumption, Regular, IInv, NEW n \in Sizes, SpanIsRight(n), NEW lucky \in SUBSET head,
         NEW h \in Least(Able(n, lucky)), NEW i \in Least(Span(h, n, lucky)), Single(h, n) = {}
  PROVE  LET t == ClearAtTop(pages[At(h, i)]) IN
         /\ h \in head /\ free_page[h] >= n /\ i \in Index(h) /\ i + 1 \in Index(h)
         /\ t \in 1 .. PAGES /\ n - t \in 1 .. PAGES - 1 /\ (n - t) % PAGES = n - t
         /\ ClearAtBottom(pages[At(h, i + 1)]) >= n - t
<1> DEFINE S == pages[At(h, i)]
           t == ClearAtTop(S)
<1>0. PAGES \in Nat /\ PAGES > 1 /\ n \in Nat /\ n > 0 /\ n < PAGES + PAGES
  BY SizesAre
<1>1. h \in head /\ free_page[h] >= n /\ i \in Index(h) /\ t # 0
  BY DEF Least, Able, Span
<1>2. /\ t \in 0 .. PAGES /\ \A j \in Bit : j >= PAGES - t => j \notin S
  BY <1>0, TopIsClear
<1>3. zone_count[h] \in Nat /\ i \in Nat
  BY <1>1, Places DEF IInv
<1>4. i + 1 < zone_count[h] /\ n - t < PAGES
  <2>1. i \in Least(Span(h, n, head)) => i + 1 < zone_count[h] /\ n - t < PAGES
    BY <1>1 DEF SpanIsRight
  <2>2. Span(h, n, lucky) \subseteq Span(h, n, head)
    BY <1>1 DEF Span
  <2>3. ASSUME NEW k \in Span(h, n, head) PROVE i <= k
    <3>1. k \in Index(h) /\ (k \in Span(h, n, lucky) \/ k + 1 = zone_count[h])
      BY <1>1 DEF Span
    <3>2. CASE k \in Span(h, n, lucky)
      BY <3>2 DEF Least
    <3>3. CASE k + 1 = zone_count[h]
      BY <3>1, <3>3, <1>1, <1>3 DEF Index
    <3> QED
      BY <3>1, <3>2, <3>3
  <2>4. i \in Span(h, n, lucky)
    BY DEF Least
  <2>5. i \in Span(h, n, head) /\ \A k \in Span(h, n, head) : i <= k
    BY <2>2, <2>3, <2>4
  <2>6. i \in Least(Span(h, n, head))
    BY <2>5 DEF Least
  <2> QED
    BY <2>1, <2>6
<1>5. n > t
  <2> SUFFICES ASSUME n <= t PROVE FALSE
    BY <1>0, <1>2
  <2> DEFINE s == PAGES - t
  <2>1. n <= PAGES /\ s \in Bit /\ s + n <= PAGES
    BY <1>0, <1>1, <1>2 DEF Bit
  <2>2. \A j \in s .. s + n - 1 : j \notin S
    BY <2>1, <1>0, <1>2 DEF Bit
  <2> HIDE DEF s, S
  <2>3. Fits(S, n, s)
    BY <2>1, <2>2, <1>0, RunFits
  <2>4. i \in Single(h, n)
    BY <2>1, <2>3, <1>1 DEF Single, S
  <2> QED
    BY <2>4
<1>6. i + 1 \in Index(h)
  BY <1>3, <1>4 DEF Index
<1>7. t \in 1 .. PAGES /\ n - t \in 1 .. PAGES - 1
  <2> HIDE DEF t
  <2> QED
    BY <1>0, <1>1, <1>2, <1>4, <1>5
<1>8. (n - t) % PAGES = n - t
  <2>1. n - t = 0 * PAGES + (n - t) /\ n - t \in Nat /\ n - t \in 0 .. PAGES - 1
    BY <1>7, <1>0
  <2> HIDE DEF t
  <2> QED
    BY <2>1, <1>0, Remainder
<1>9. ClearAtBottom(pages[At(h, i + 1)]) >= (n - t) % PAGES
  <2>1. i + 1 # zone_count[h]
    BY <1>3, <1>4
  <2> QED
    BY <2>1 DEF Span, Least
<1> QED
  BY <1>1, <1>6, <1>7, <1>8, <1>9

LEMMA SpanServes ==
  ASSUME PageAssumption, Regular, IInv, Sound, NEW c \in Client, NEW n \in Sizes,
         AllocateSpan(c, n)
  PROVE  \E h, i, a : Serves(c, n, h, i, a)
<1>0. PAGES \in Nat /\ PAGES > 1 /\ Zone \subseteq Nat /\ n \in Nat /\ n > 0 /\ n < PAGES + PAGES
  BY ZoneNat, SizesAre
<1>1. PICK lucky \in SUBSET head : \E h \in Least(Able(n, lucky)) :
        \E i \in Least(Span(h, n, lucky)) :
          LET top == ClearAtTop(pages[At(h, i)])
              set == [pages EXCEPT ![At(h, i)] = @ \cup (PAGES - top .. PAGES - 1)]
          IN
          /\ Single(h, n) = {}
          /\ pages' = IF i + 1 = zone_count[h] THEN set
                      ELSE [set EXCEPT ![At(h, i + 1)] =
                                @ \cup (0 .. ((n - top) % PAGES) - 1)]
          /\ Taken(h, i, n)
          /\ held' = [held EXCEPT ![c] = <<At(h, i) + PAGES - top, n>>]
  BY DEF AllocateSpan
<1>2. PICK h \in Least(Able(n, lucky)) : \E i \in Least(Span(h, n, lucky)) :
          LET top == ClearAtTop(pages[At(h, i)])
              set == [pages EXCEPT ![At(h, i)] = @ \cup (PAGES - top .. PAGES - 1)]
          IN
          /\ Single(h, n) = {}
          /\ pages' = IF i + 1 = zone_count[h] THEN set
                      ELSE [set EXCEPT ![At(h, i + 1)] =
                                @ \cup (0 .. ((n - top) % PAGES) - 1)]
          /\ Taken(h, i, n)
          /\ held' = [held EXCEPT ![c] = <<At(h, i) + PAGES - top, n>>]
  BY <1>1
<1>3. PICK i \in Least(Span(h, n, lucky)) :
          LET top == ClearAtTop(pages[At(h, i)])
              set == [pages EXCEPT ![At(h, i)] = @ \cup (PAGES - top .. PAGES - 1)]
          IN
          /\ Single(h, n) = {}
          /\ pages' = IF i + 1 = zone_count[h] THEN set
                      ELSE [set EXCEPT ![At(h, i + 1)] =
                                @ \cup (0 .. ((n - top) % PAGES) - 1)]
          /\ Taken(h, i, n)
          /\ held' = [held EXCEPT ![c] = <<At(h, i) + PAGES - top, n>>]
  BY <1>2
<1> DEFINE t == ClearAtTop(pages[At(h, i)])
<1>4. h \in head /\ i \in Index(h)
  BY DEF Least, Able, Span
<1>5. t \in 0 .. PAGES /\ \A j \in Bit : j >= PAGES - t => j \notin pages[At(h, i)]
  BY <1>0, TopIsClear
<1>6. At(h, i) \in Nat
  BY <1>4, Places DEF IInv
<1>7. PICK a \in Nat : a = At(h, i) + PAGES - t
  <2> HIDE DEF t
  <2> QED
    BY <1>0, <1>5, <1>6
<1>8. held[c] = None /\ UNCHANGED <<zone_tree, head, zone_count>>
  BY DEF AllocateSpan
<1>9. held' = [held EXCEPT ![c] = <<a, n>>]
  BY <1>3, <1>7
<1>10. SpanIsRight(n)
  BY <1>8, <1>9, Asked DEF IInv
<1>11. /\ h \in head /\ free_page[h] >= n /\ i \in Index(h) /\ i + 1 \in Index(h)
       /\ t \in 1 .. PAGES /\ n - t \in 1 .. PAGES - 1 /\ (n - t) % PAGES = n - t
       /\ ClearAtBottom(pages[At(h, i + 1)]) >= n - t
  BY <1>3, <1>10, SpanIs
<1>12. i + 1 # zone_count[h]
  BY <1>11 DEF Index
<1>13. PICK z \in zone_tree : z = At(h, i) /\ z \in Nat /\ z \in Zone
  BY <1>0, <1>4 DEF IInv, Whole, Types
<1>14. PICK y \in zone_tree : y = At(h, i + 1) /\ y \in Nat /\ y \in Zone /\ y = z + PAGES
  <2>1. At(h, i + 1) = At(h, i) + PAGES
    BY <1>4, Places DEF IInv
  <2> QED
    BY <2>1, <1>0, <1>11, <1>13 DEF IInv, Whole, Types
<1>15. PICK r \in Nat : r = n - t /\ r > 0 /\ r < PAGES
  BY <1>0, <1>11
<1>16. /\ pages \in [Zone -> SUBSET Bit]
       /\ pages' = [[pages EXCEPT ![z] = @ \cup (PAGES - t .. PAGES - 1)]
                       EXCEPT ![y] = @ \cup (0 .. r - 1)]
  <2>1. pages' = [[pages EXCEPT ![z] = @ \cup (PAGES - t .. PAGES - 1)]
                       EXCEPT ![y] = @ \cup (0 .. ((n - t) % PAGES) - 1)]
    BY <1>3, <1>12, <1>13, <1>14
  <2> QED
    BY <2>1, <1>11, <1>15 DEF IInv, Types
<1>17. PICK u \in 0 .. PAGES - 1 : u = PAGES - t /\ a = z + u /\ u + n = PAGES + r
  <2> HIDE DEF t
  <2> QED
    BY <1>0, <1>7, <1>11, <1>13, <1>15
<1>18. y # z
  BY <1>0, <1>13, <1>14
<1>19. /\ pages' \in [Zone -> SUBSET Bit]
       /\ pages'[z] = pages[z] \cup (u .. PAGES - 1)
       /\ pages'[y] = pages[y] \cup (0 .. r - 1)
       /\ \A x \in zone_tree : x # z /\ x # y => pages'[x] = pages[x]
  <2>1. u .. PAGES - 1 \subseteq Bit /\ 0 .. r - 1 \subseteq Bit
    BY <1>0, <1>15, <1>17 DEF Bit
  <2>2. pages' = [[pages EXCEPT ![z] = @ \cup (u .. PAGES - 1)] EXCEPT ![y] = @ \cup (0 .. r - 1)]
    BY <1>16, <1>17
  <2> HIDE DEF t
  <2> QED
    BY <2>1, <2>2, <1>13, <1>14, <1>16, <1>18 DEF IInv, Types
<1>20. /\ \A j \in u .. PAGES - 1 : j \notin pages[z]
       /\ \A j \in 0 .. r - 1 : j \notin pages[y]
  <2>1. ASSUME NEW j \in u .. PAGES - 1 PROVE j \notin pages[z]
    <3>1. j \in Bit /\ j >= PAGES - t
      BY <1>0, <1>17 DEF Bit
    <3> QED
      BY <3>1, <1>5, <1>13
  <2>2. ASSUME NEW j \in 0 .. r - 1 PROVE j \notin pages[y]
    <3>1. j \in Bit /\ j \in Nat
      BY <1>0, <1>15 DEF Bit
    <3>2. \A S : ClearAtBottom(S) \in 0 .. PAGES
      <4> TAKE S
      <4> DEFINE K == {k \in 0 .. PAGES : k = PAGES \/ k \in S}
      <4>1. K \in SUBSET Nat /\ PAGES \in K /\ ClearAtBottom(S) = First(K)
        BY <1>0 DEF ClearAtBottom
      <4>2. First(K) \in Least(K)
        BY <4>1, LeastNat
      <4> QED
        BY <4>1, <4>2 DEF Least
    <3>3. PICK m \in 0 .. PAGES : m = ClearAtBottom(pages[y])
      BY <3>2
    <3>4. m >= r
      BY <3>3, <1>11, <1>14, <1>15
    <3>5. j < ClearAtBottom(pages[y])
      BY <3>1, <3>3, <3>4, <1>15
    <3> QED
      BY <3>1, <3>5, <1>0, BottomIsClear
  <2> QED
    BY <2>1, <2>2
<1> HIDE DEF t
<1>21. \A p \in Int : p \in a .. a + n - 1 <=> p - z \in u .. PAGES - 1 \/ p - y \in 0 .. r - 1
  BY <1>0, <1>14, <1>15, <1>17, <1>13
<1>22. Lies(a, n, h, i)
  BY <1>0, <1>11, <1>13, <1>15, <1>17 DEF Lies
<1>23. \A p \in a .. a + n - 1 : ~IsMarked(p)
  <2> SUFFICES ASSUME NEW p \in a .. a + n - 1 PROVE ~IsMarked(p)
    OBVIOUS
  <2>0. p \in Int
    OBVIOUS
  <2>1. CASE p - z \in u .. PAGES - 1
    <3>1. z <= p /\ p < z + PAGES /\ p - z \notin pages[z]
      BY <2>1, <1>0, <1>13, <1>17, <1>20
    <3> QED
      BY <2>0, <3>1, MarkedIn DEF IInv
  <2>2. CASE p - y \in 0 .. r - 1
    <3>1. y <= p /\ p < y + PAGES /\ p - y \notin pages[y]
      BY <2>2, <1>0, <1>14, <1>15, <1>20
    <3> QED
      BY <2>0, <3>1, MarkedIn DEF IInv
  <2> QED
    BY <2>0, <2>1, <2>2, <1>21
<1>24. \A p \in Int : IsMarked(p)' <=> IsMarked(p) \/ p \in a .. a + n - 1
  <2> TAKE p \in Int
  <2>1. IsMarked(p)' <=> \E x \in zone_tree : p - x \in pages'[x]
    BY <1>8 DEF IsMarked
  <2>2. (\E x \in zone_tree : p - x \in pages'[x]) <=>
           IsMarked(p) \/ p - z \in u .. PAGES - 1 \/ p - y \in 0 .. r - 1
    BY <1>18, <1>19 DEF IsMarked
  <2> QED
    BY <2>1, <2>2, <1>21
<1>25. Taken(h, i, n)
  BY <1>3
<1> QED
  BY <1>8, <1>9, <1>11, <1>19, <1>22, <1>23, <1>24, <1>25 DEF Serves

-----------------------------------------------------------------------------
(* Steps *)

\* A step that gives a block of unmarked pages to c, marks them and leaves the
\* other clients theirs keeps what is marked in order.
LEMMA BlocksKept ==
  ASSUME PageAssumption, Types, AllMarked, Once,
         NEW c \in Client, NEW a \in Nat, NEW n \in Sizes,
         held' = [held EXCEPT ![c] = <<a, n>>],
         \A p \in a .. a + n - 1 : ~IsMarked(p),
         \A p \in Int : IsMarked(p) => IsMarked(p)',
         \A p \in a .. a + n - 1 : IsMarked(p)'
  PROVE  /\ held' \in [Client -> (Nat \X Sizes) \cup {None}]
         /\ Block(c)' = a .. a + n - 1 /\ held'[c] = <<a, n>> /\ held'[c] # None
         /\ \A d \in Client : d # c => held'[d] = held[d] /\ Block(d)' = Block(d)
         /\ AllMarked' /\ Once'
<1>1. held' \in [Client -> (Nat \X Sizes) \cup {None}] /\ held'[c] = <<a, n>>
  BY DEF Types
<1>2. \A d \in Client : d # c => held'[d] = held[d] /\ Block(d)' = Block(d)
  BY DEF Types, Block
<1>3. held'[c] # None /\ Block(c)' = a .. a + n - 1
  <2>1. <<a, n>> # None /\ <<a, n>>[1] = a /\ <<a, n>>[2] = n
    BY DEF PageAssumption
  <2> QED
    BY <1>1, <2>1 DEF Block
<1>4. AllMarked'
  <2>1. \A d \in Client : \A p \in Block(d)' : IsMarked(p)'
    <3> SUFFICES ASSUME NEW d \in Client, NEW p \in Block(d)' PROVE IsMarked(p)'
      OBVIOUS
    <3>1. CASE d = c
      BY <3>1, <1>3
    <3>2. CASE d # c
      <4>1. p \in Block(d)
        BY <3>2, <1>2
      <4>2. p \in Int
        BY <4>1, BlockNat
      <4> QED
        BY <4>1, <4>2 DEF AllMarked
    <3> QED
      BY <3>1, <3>2
  <2>2. \A e \in Map : \A p \in e[1] .. e[2] - 1 : IsMarked(p)'
    BY DEF AllMarked
  <2> QED
    BY <2>1, <2>2 DEF AllMarked
<1>5. Once'
  <2>1. \A d \in Client : d # c => Block(c)' \cap Block(d)' = {}
    <3> SUFFICES ASSUME NEW d \in Client, d # c, NEW p \in Block(d), p \in a .. a + n - 1
                 PROVE  FALSE
      BY <1>2, <1>3
    <3> QED
      BY DEF AllMarked
  <2>2. \A e \in Map : Block(c)' \cap (e[1] .. e[2] - 1) = {}
    BY <1>3 DEF AllMarked
  <2>3. \A d \in Client : \A e \in Client : d # e => Block(d)' \cap Block(e)' = {}
    <3> SUFFICES ASSUME NEW d \in Client, NEW e \in Client, d # e
                 PROVE  Block(d)' \cap Block(e)' = {}
      OBVIOUS
    <3>1. CASE d = c
      BY <3>1, <2>1
    <3>2. CASE e = c
      BY <3>2, <2>1
    <3>3. CASE d # c /\ e # c
      BY <3>3, <1>2 DEF Once
    <3> QED
      BY <3>1, <3>2, <3>3
  <2>4. \A d \in Client : \A e \in Map : Block(d)' \cap (e[1] .. e[2] - 1) = {}
    BY <2>2, <1>2 DEF Once
  <2> QED
    BY <2>3, <2>4 DEF Once
<1> QED
  BY <1>1, <1>2, <1>3, <1>4, <1>5

\* An allocation out of the zones there are.
LEMMA ServesInv ==
  ASSUME PageAssumption, Regular, IInv, NEW c \in Client, NEW n \in Sizes,
         NEW h, NEW i, NEW a, Serves(c, n, h, i, a)
  PROVE  IInv'
<1>0. n \in Nat /\ PAGES \in Nat
  BY SizesAre
<1>1. a \in Nat /\ Lies(a, n, h, i) /\ UNCHANGED <<zone_tree, head, zone_count>>
      /\ held' = [held EXCEPT ![c] = <<a, n>>]
  BY DEF Serves
<1>2. /\ \A p \in a .. a + n - 1 : ~IsMarked(p)
      /\ \A p \in Int : IsMarked(p) => IsMarked(p)'
      /\ \A p \in a .. a + n - 1 : IsMarked(p)'
  BY DEF Serves
<1>3. /\ held' \in [Client -> (Nat \X Sizes) \cup {None}]
      /\ Block(c)' = a .. a + n - 1 /\ held'[c] = <<a, n>> /\ held'[c] # None
      /\ \A d \in Client : d # c => held'[d] = held[d] /\ Block(d)' = Block(d)
      /\ AllMarked' /\ Once'
  BY <1>1, <1>2, BlocksKept DEF IInv
<1>4. Types'
  <2>1. free_page' \in [Zone -> Nat]
    <3>1. h \in Zone /\ free_page \in [Zone -> Nat]
      BY <1>1 DEF Lies, IInv, Types
    <3>2. free_page[h] \in Nat /\ free_page[h] >= n
      BY <3>1 DEF Serves
    <3>3. free_page[h] - n \in Nat
      BY <3>2, <1>0
    <3> QED
      BY <3>1, <3>3 DEF Serves, Taken
  <2> QED
    BY <2>1, <1>1, <1>3 DEF Serves, IInv, Types
<1>5. Whole' /\ Covered' /\ Disjoint'
  BY <1>1 DEF IInv, Whole, Covered, Disjoint, Index, At, Apart, Array
<1>6. \A b, m, g, k : Lies(b, m, g, k)' <=> Lies(b, m, g, k)
  BY <1>1 DEF Lies, Index, At
<1>7. Placed'
  <2> SUFFICES ASSUME NEW d \in Client, held'[d] # None
               PROVE  \E g, k : Lies(held'[d][1], held'[d][2], g, k)
    BY <1>6 DEF Placed
  <2>1. CASE d = c
    BY <2>1, <1>1, <1>3
  <2>2. CASE d # c
    BY <2>2, <1>3 DEF IInv, Placed
  <2> QED
    BY <2>1, <2>2
<1> QED
  BY <1>3, <1>4, <1>5, <1>7 DEF IInv

\* What growing does: an array of one zone or two, on pages of which none is
\* in another, with the block at its beginning.
Grows(c, n, b) ==
    /\ b \in Nat /\ b \in Zone
    /\ held[c] = None /\ held' = [held EXCEPT ![c] = <<b, n>>]
    /\ head' = head \cup {b} /\ b \notin zone_tree
    /\ zone_tree' \in SUBSET Zone /\ zone_tree' = zone_tree \cup NewZones(b, n)
    /\ zone_count' = [zone_count EXCEPT ![b] = ZonesFor(n)]
    /\ free_page' = [free_page EXCEPT ![b] = ZonesFor(n) * PAGES - n]
    /\ pages' \in [Zone -> SUBSET Bit]
    /\ \A z \in zone_tree : pages'[z] = pages[z] /\ z \in Nat
                            /\ (z + PAGES <= b \/ b + ZonesFor(n) * PAGES <= z)
    /\ \A p \in b .. b + ZonesFor(n) * PAGES - 1 : ~IsMarked(p)
    /\ \A p \in Int : IsMarked(p)' <=> IsMarked(p) \/ p \in b .. b + n - 1

LEMMA Grown ==
  ASSUME PageAssumption, Regular, IInv, NEW c \in Client, NEW n \in Sizes, Grow(c, n)
  PROVE  \E b \in Bases : Grows(c, n, b)
<1>0. /\ PAGES \in Nat /\ PAGES > 1 /\ Zone \subseteq Nat /\ n \in Nat /\ n > 0
      /\ \/ n < PAGES /\ ZonesFor(n) = 1 /\ n % PAGES = n
         \/ n > PAGES /\ n < PAGES + PAGES /\ ZonesFor(n) = 2 /\ n % PAGES = n - PAGES
  BY ZoneNat, SizesAre
<1>1. PICK b \in Bases :
        /\ \A y \in NewZones(b, n) : \A z \in zone_tree : Apart(y, z)
        /\ zone_tree' = zone_tree \cup NewZones(b, n)
        /\ head' = head \cup {b}
        /\ zone_count' = [zone_count EXCEPT ![b] = ZonesFor(n)]
        /\ free_page' = [free_page EXCEPT ![b] = ZonesFor(n) * PAGES - n]
        /\ pages' = [z \in Zone |->
                        IF z \notin NewZones(b, n) THEN pages[z]
                        ELSE IF z = b + (ZonesFor(n) - 1) * PAGES THEN 0 .. (n % PAGES) - 1
                        ELSE Bit]
        /\ held' = [held EXCEPT ![c] = <<b, n>>]
  BY DEF Grow
<1>2. b \in Nat /\ b \in Zone /\ b + PAGES \in Zone
  BY DEF PageAssumption, Zone
<1>3. /\ n < PAGES => NewZones(b, n) = {b} /\ ZonesFor(n) * PAGES = PAGES
                      /\ b + (ZonesFor(n) - 1) * PAGES = b
      /\ n > PAGES => NewZones(b, n) = {b, b + PAGES} /\ ZonesFor(n) * PAGES = PAGES + PAGES
                      /\ b + (ZonesFor(n) - 1) * PAGES = b + PAGES
  <2>1. b + 0 * PAGES = b /\ b + 1 * PAGES = b + PAGES /\ 1 * PAGES = PAGES /\ 2 * PAGES = PAGES + PAGES
    BY <1>0, <1>2
  <2>2. ASSUME n < PAGES
        PROVE  NewZones(b, n) = {b} /\ ZonesFor(n) * PAGES = PAGES
               /\ b + (ZonesFor(n) - 1) * PAGES = b
    <3>1. ZonesFor(n) = 1 /\ 1 - 1 = 0 /\ 0 .. 0 = {0}
      BY <2>2, <1>0
    <3> QED
      BY <3>1, <2>1 DEF NewZones
  <2>3. ASSUME n > PAGES
        PROVE  NewZones(b, n) = {b, b + PAGES} /\ ZonesFor(n) * PAGES = PAGES + PAGES
               /\ b + (ZonesFor(n) - 1) * PAGES = b + PAGES
    <3>1. ZonesFor(n) = 2 /\ 2 - 1 = 1 /\ 0 .. 1 = {0, 1}
      BY <2>3, <1>0
    <3> QED
      BY <3>1, <2>1 DEF NewZones
  <2> QED
    BY <2>2, <2>3
<1>4. n < PAGES \/ n > PAGES
  BY <1>0
<1>5. ASSUME NEW z \in zone_tree
      PROVE  z \in Nat /\ z \notin NewZones(b, n)
             /\ (z + PAGES <= b \/ b + ZonesFor(n) * PAGES <= z)
  <2>1. z \in Nat
    BY <1>0 DEF IInv, Types
  <2>2. CASE n < PAGES
    <3>1. Apart(b, z)
      BY <1>1, <1>3, <2>2
    <3> QED
      BY <3>1, <2>1, <2>2, <1>0, <1>2, <1>3 DEF Apart
  <2>3. CASE n > PAGES
    <3>1. Apart(b, z) /\ Apart(b + PAGES, z)
      BY <1>1, <1>3, <2>3
    <3> QED
      BY <3>1, <2>1, <2>3, <1>0, <1>2, <1>3 DEF Apart
  <2> QED
    BY <1>4, <2>2, <2>3
<1>6. b \in NewZones(b, n) /\ b \notin zone_tree
  BY <1>3, <1>4, <1>5
<1>7. NewZones(b, n) \subseteq Zone
  BY <1>2, <1>3, <1>4
<1>8. zone_tree' \in SUBSET Zone
  BY <1>1, <1>7 DEF IInv, Types
<1>9. pages' \in [Zone -> SUBSET Bit] /\ \A z \in zone_tree : pages'[z] = pages[z]
  <2>1. 0 .. (n % PAGES) - 1 \subseteq Bit
    BY <1>0 DEF Bit
  <2> QED
    BY <2>1, <1>1, <1>5 DEF IInv, Types
<1>10. \A p \in b .. b + ZonesFor(n) * PAGES - 1 : ~IsMarked(p)
  <2> SUFFICES ASSUME NEW p \in b .. b + ZonesFor(n) * PAGES - 1,
                      NEW z \in zone_tree, p - z \in pages[z]
               PROVE  FALSE
    BY DEF IsMarked
  <2>1. p - z \in 0 .. PAGES - 1
    BY <1>0 DEF IInv, Types, Bit
  <2>2. z \in Nat /\ (z + PAGES <= b \/ b + ZonesFor(n) * PAGES <= z)
    BY <1>5
  <2> QED
    BY <2>1, <2>2, <1>0, <1>2, <1>3, <1>4
<1>11. \A p \in Int : (\E y \in NewZones(b, n) : p - y \in pages'[y]) <=> p \in b .. b + n - 1
  <2> TAKE p \in Int
  <2>1. CASE n < PAGES
    <3>1. NewZones(b, n) = {b} /\ pages'[b] = 0 .. n - 1
      BY <2>1, <1>0, <1>1, <1>2, <1>3
    <3> QED
      BY <3>1, <1>0, <1>2
  <2>2. CASE n > PAGES
    <3>1. /\ NewZones(b, n) = {b, b + PAGES}
          /\ pages'[b] = Bit /\ pages'[b + PAGES] = 0 .. n - PAGES - 1
      <4>1. b # b + PAGES
        BY <1>0, <1>2
      <4> QED
        BY <4>1, <2>2, <1>0, <1>1, <1>2, <1>3
    <3>2. (\E y \in NewZones(b, n) : p - y \in pages'[y]) <=>
             p - b \in Bit \/ p - (b + PAGES) \in 0 .. n - PAGES - 1
      BY <3>1
    <3> QED
      BY <3>2, <2>2, <1>0, <1>2 DEF Bit
  <2> QED
    BY <1>4, <2>1, <2>2
<1>12. \A p \in Int : IsMarked(p)' <=> IsMarked(p) \/ p \in b .. b + n - 1
  <2> TAKE p \in Int
  <2>1. IsMarked(p)' <=> \/ \E z \in zone_tree : p - z \in pages'[z]
                         \/ \E y \in NewZones(b, n) : p - y \in pages'[y]
    BY <1>1 DEF IsMarked
  <2>2. (\E z \in zone_tree : p - z \in pages'[z]) <=> IsMarked(p)
    BY <1>9 DEF IsMarked
  <2> QED
    BY <2>1, <2>2, <1>11
<1>13. held[c] = None
  BY DEF Grow
<1> QED
  BY <1>1, <1>2, <1>5, <1>6, <1>8, <1>9, <1>10, <1>12, <1>13 DEF Grows

LEMMA GrowInv ==
  ASSUME PageAssumption, Regular, IInv, NEW c \in Client, NEW n \in Sizes, NEW b, Grows(c, n, b)
  PROVE  IInv'
<1>0. /\ PAGES \in Nat /\ PAGES > 1 /\ Zone \subseteq Nat /\ n \in Nat /\ n > 0
      /\ \/ n < PAGES /\ ZonesFor(n) = 1
         \/ n > PAGES /\ n < PAGES + PAGES /\ ZonesFor(n) = 2
  BY ZoneNat, SizesAre
<1>1. /\ b \in Nat /\ b \in Zone /\ b \notin zone_tree /\ head' = head \cup {b}
      /\ zone_tree' \in SUBSET Zone /\ zone_tree' = zone_tree \cup NewZones(b, n)
      /\ zone_count' = [zone_count EXCEPT ![b] = ZonesFor(n)]
      /\ held' = [held EXCEPT ![c] = <<b, n>>]
  BY DEF Grows
<1>2. PICK k \in {1, 2} : k = ZonesFor(n) /\ n < k * PAGES /\ (k = 2 => n > PAGES)
                          /\ k * PAGES = (IF k = 1 THEN PAGES ELSE PAGES + PAGES)
  <2>1. 1 * PAGES = PAGES /\ 2 * PAGES = PAGES + PAGES
    BY <1>0
  <2> QED
    BY <2>1, <1>0
<1>3. \A z \in zone_tree : z \in Nat /\ (z + PAGES <= b \/ b + k * PAGES <= z)
  BY <1>2 DEF Grows
<1>4. /\ b \in NewZones(b, n)
      /\ \A y : y \in NewZones(b, n) <=> y = b \/ (k = 2 /\ y = b + PAGES)
  <2>1. b + 0 * PAGES = b /\ b + 1 * PAGES = b + PAGES
    BY <1>0, <1>1
  <2>2. 0 .. k - 1 = (IF k = 1 THEN {0} ELSE {0, 1})
    <3>1. 0 .. 1 - 1 = {0} /\ 0 .. 2 - 1 = {0, 1}
      OBVIOUS
    <3> QED
      BY <3>1, <1>2
  <2> QED
    BY <2>1, <2>2, <1>2 DEF NewZones
<1>5. /\ zone_count \in [Zone -> Nat] /\ head \subseteq zone_tree /\ zone_tree \subseteq Zone
      /\ zone_count'[b] = k /\ \A g \in head : zone_count'[g] = zone_count[g] /\ g # b
  BY <1>1, <1>2 DEF IInv, Types
<1>6. /\ Array(b)' = b .. b + k * PAGES - 1
      /\ \A g \in head : Array(g)' = Array(g)
      /\ Index(b)' = 0 .. k - 1
      /\ \A g \in head : Index(g)' = Index(g)
  BY <1>5 DEF Array, Index
<1>8. /\ \A p \in b .. b + n - 1 : ~IsMarked(p)
      /\ \A p \in Int : IsMarked(p) => IsMarked(p)'
      /\ \A p \in b .. b + n - 1 : IsMarked(p)'
  <2>1. \A p \in b .. b + n - 1 : p \in b .. b + k * PAGES - 1
    BY <1>0, <1>1, <1>2
  <2> QED
    BY <2>1, <1>2 DEF Grows
<1>9. /\ held' \in [Client -> (Nat \X Sizes) \cup {None}]
      /\ Block(c)' = b .. b + n - 1 /\ held'[c] = <<b, n>> /\ held'[c] # None
      /\ \A d \in Client : d # c => held'[d] = held[d] /\ Block(d)' = Block(d)
      /\ AllMarked' /\ Once'
  BY <1>1, <1>8, BlocksKept DEF IInv
<1>10. Types'
  <2>1. free_page' \in [Zone -> Nat]
    <3>1. k * PAGES - n \in Nat
      BY <1>0, <1>2
    <3> QED
      BY <3>1, <1>2 DEF Grows, IInv, Types
  <2>2. zone_count' \in [Zone -> Nat]
    BY <1>1, <1>2 DEF IInv, Types
  <2>3. head' \in SUBSET zone_tree'
    BY <1>1, <1>4, <1>5
  <2> QED
    BY <2>1, <2>2, <2>3, <1>1, <1>9 DEF Grows, Types
<1>11. At(b, 0) = b /\ At(b, 1) = b + PAGES
  BY <1>0, <1>1 DEF At
<1>12. Whole'
  <2>1. ASSUME NEW h \in head', NEW i \in Index(h)' PROVE At(h, i) \in zone_tree'
    <3>1. CASE h = b
      <4>1. i = 0 \/ (i = 1 /\ k = 2)
        BY <3>1, <1>2, <1>6
      <4> QED
        BY <4>1, <3>1, <1>1, <1>4, <1>11
    <3>2. CASE h # b
      <4>1. h \in head /\ i \in Index(h)
        BY <3>2, <1>1, <1>6
      <4> QED
        BY <4>1, <1>1 DEF IInv, Whole
    <3> QED
      BY <3>1, <3>2
  <2>2. \A h \in head' : zone_count'[h] >= 1
    BY <1>1, <1>5 DEF IInv, Whole
  <2> QED
    BY <2>1, <2>2 DEF Whole, At
<1>13. Covered'
  <2> SUFFICES ASSUME NEW z \in zone_tree'
               PROVE  \E h \in head' : \E i \in Index(h)' : z = At(h, i)
    BY DEF Covered, At
  <2>1. CASE z \in zone_tree
    BY <2>1, <1>1, <1>6 DEF IInv, Covered
  <2>2. CASE z \in NewZones(b, n)
    <3>1. 0 \in Index(b)' /\ (k = 2 => 1 \in Index(b)')
      BY <1>6
    <3> QED
      BY <2>2, <3>1, <1>1, <1>4, <1>11
  <2> QED
    BY <2>1, <2>2, <1>1
<1>14. Disjoint'
  <2>1. ASSUME NEW y \in zone_tree', NEW z \in zone_tree', y # z PROVE Apart(y, z)
    <3>1. ASSUME NEW u \in NewZones(b, n), NEW v \in zone_tree PROVE Apart(u, v) /\ Apart(v, u)
      BY <1>0, <1>1, <1>2, <1>3, <1>4 DEF Apart
    <3>2. ASSUME NEW u \in NewZones(b, n), NEW v \in NewZones(b, n), u # v PROVE Apart(u, v)
      BY <3>2, <1>0, <1>1, <1>4 DEF Apart
    <3>3. (y \in zone_tree \/ y \in NewZones(b, n)) /\ (z \in zone_tree \/ z \in NewZones(b, n))
      BY <1>1
    <3> QED
      BY <2>1, <3>1, <3>2, <3>3 DEF IInv, Disjoint
  <2>2. ASSUME NEW g \in head PROVE Array(g) \cap (b .. b + k * PAGES - 1) = {}
    <3> SUFFICES ASSUME NEW p \in Array(g), p \in b .. b + k * PAGES - 1 PROVE FALSE
      OBVIOUS
    <3>1. /\ zone_count[g] \in Nat /\ zone_count[g] >= 1
      BY <1>5 DEF IInv, Whole
    <3>2. 0 \in Index(g) /\ g \in Nat /\ g \in zone_tree
      BY <3>1, <1>0, <1>5 DEF Index
    <3>3. p \in Nat /\ g <= p /\ p < g + zone_count[g] * PAGES
      BY <3>1, <3>2, <1>0 DEF Array
    <3> DEFINE q == p - g
               m == zone_count[g]
    <3>4. q \in Nat /\ m \in Nat /\ q < m * PAGES
      BY <3>1, <3>2, <3>3
    <3>5. PICK i \in 0 .. m - 1, j \in 0 .. PAGES - 1 : q = i * PAGES + j
      <4> HIDE DEF q, m
      <4>1. /\ q \div PAGES \in Nat /\ q % PAGES \in 0 .. PAGES - 1
            /\ q = PAGES * (q \div PAGES) + (q % PAGES)
        BY <3>4, <1>0, DivMod
      <4> DEFINE i == q \div PAGES
      <4>2. i \in Nat /\ q = i * PAGES + (q % PAGES) /\ q >= i * PAGES /\ i * PAGES \in Nat
        BY <4>1, <1>0
      <4> HIDE DEF i
      <4>3. ~(m < i) /\ m # i
        <5>1. m < i => m * PAGES + PAGES <= i * PAGES
          BY <4>2, <3>4, <1>0, Multiples
        <5>2. m * PAGES \in Nat
          BY <3>4, <1>0
        <5> QED
          BY <5>1, <5>2, <4>2, <3>4, <1>0
      <4>4. i \in 0 .. m - 1
        BY <4>2, <4>3, <3>4
      <4> QED
        BY <4>1, <4>2, <4>4
    <3>6. i \in Index(g)
      BY <3>5 DEF Index
    <3>7. At(g, i) \in zone_tree /\ At(g, i) = g + i * PAGES
      BY <3>6, <1>5 DEF IInv, Whole, At
    <3>8. At(g, i) \in Nat /\ (At(g, i) + PAGES <= b \/ b + k * PAGES <= At(g, i))
      BY <3>7, <1>3
    <3>9. p = At(g, i) + j
      BY <3>2, <3>3, <3>5, <3>7, <3>8
    <3> QED
      BY <3>5, <3>8, <3>9, <1>0, <1>1, <1>2
  <2>3. ASSUME NEW g \in head', NEW h \in head', g # h PROVE Array(g)' \cap Array(h)' = {}
    <3>1. CASE g = b
      BY <3>1, <2>2, <2>3, <1>1, <1>6
    <3>2. CASE h = b
      BY <3>2, <2>2, <2>3, <1>1, <1>6
    <3>3. CASE g # b /\ h # b
      BY <3>3, <2>3, <1>1, <1>6 DEF IInv, Disjoint
    <3> QED
      BY <3>1, <3>2, <3>3
  <2> QED
    BY <2>1, <2>3 DEF Disjoint, Apart
<1>15. Placed'
  <2> SUFFICES ASSUME NEW d \in Client, held'[d] # None
               PROVE  \E g, i : Lies(held[d][1], held[d][2], g, i)'
    BY DEF Placed
  <2>1. CASE d = c
    <3>1. held'[d][1] = b /\ held'[d][2] = n
      BY <2>1, <1>9
    <3>2. Lies(b, n, b, 0)'
      <4>1. b \in head' /\ 0 \in Index(b)'
        BY <1>1, <1>6
      <4>2. /\ b <= b /\ b < b + PAGES /\ b + n < b + PAGES + PAGES
            /\ b + n <= b + PAGES \/ 0 + 1 \in Index(b)'
        BY <1>0, <1>1, <1>2, <1>6
      <4>3. At(b, 0)' = b
        BY <1>11 DEF At
      <4> QED
        BY <4>1, <4>2, <4>3 DEF Lies
    <3> QED
      BY <3>1, <3>2 DEF Lies
  <2>2. CASE d # c
    <3>1. held'[d] = held[d]
      BY <2>2, <1>9
    <3>2. PICK g, i : Lies(held[d][1], held[d][2], g, i)
      BY <2>2, <3>1 DEF IInv, Placed
    <3>3. Lies(held[d][1], held[d][2], g, i)'
      BY <3>1, <3>2, <1>1, <1>6 DEF Lies, At
    <3> QED
      BY <3>3
  <2> QED
    BY <2>1, <2>2
<1> QED
  BY <1>9, <1>10, <1>12, <1>13, <1>14, <1>15 DEF IInv

\* What a release does: it clears the pages of the block if its zone is found,
\* and nothing if it is not, which is so where zones are not aligned.
Releases(c, h, i) ==
    /\ held[c] # None /\ Lies(held[c][1], held[c][2], h, i)
    /\ UNCHANGED <<zone_tree, head, zone_count>>
    /\ held' = [held EXCEPT ![c] = None]
    /\ free_page' \in [Zone -> Nat] /\ pages' \in [Zone -> SUBSET Bit]
    /\ \A g \in head : g # h => free_page'[g] = free_page[g]

Clears(c, h, i) ==
    /\ free_page'[h] >= free_page[h]
    /\ i = 0 => free_page'[h] = free_page[h] + held[c][2]
    /\ \A p \in Int : IsMarked(p)' <=> IsMarked(p) /\ p \notin Block(c)
Idles(c) ==
    /\ UNCHANGED <<pages, free_page>>
    /\ \A y \in zone_tree : y % PAGES = 0 => \A p \in Block(c) : p - y \notin Bit

\* The array of a zone is that of its only head.
LEMMA OwnerIs ==
  ASSUME PageAssumption, Types, Disjoint, NEW h \in head, NEW i \in Index(h)
  PROVE  /\ Owner(At(h, i)) = h
         /\ ArrayOf(At(h, i)) = {At(h, j) : j \in Index(h)}
         /\ At(h, i) \in head /\ 0 \in Index(At(h, i)) => At(h, i) = h
<1> DEFINE z == At(h, i)
<1>1. ASSUME NEW g \in head, NEW j \in Index(g), z = At(g, j) PROVE g = h
  <2>1. /\ z \in Nat /\ z >= h /\ z + PAGES <= h + zone_count[h] * PAGES
        /\ z >= g /\ z + PAGES <= g + zone_count[g] * PAGES
        /\ h \in Nat /\ g \in Nat /\ zone_count[h] * PAGES \in Nat /\ zone_count[g] * PAGES \in Nat
    BY <1>1, Places
  <2>2. PAGES \in Nat /\ PAGES > 0
    BY ZoneNat
  <2> HIDE DEF z
  <2>3. z \in Array(h) /\ z \in Array(g)
    BY <2>1, <2>2 DEF Array
  <2> QED
    BY <2>3 DEF Disjoint
<1>2. \E g \in head : z \in {At(g, j) : j \in Index(g)}
  OBVIOUS
<1>3. Owner(z) \in head /\ z \in {At(Owner(z), j) : j \in Index(Owner(z))}
  BY <1>2, Zenon DEF Owner
<1>4. Owner(z) = h
  BY <1>1, <1>3
<1>5. ASSUME z \in head, 0 \in Index(z) PROVE z = h
  <2>1. z = At(z, 0)
    BY <1>5, Places
  <2> HIDE DEF z
  <2>2. \A g \in head : \A j \in Index(g) : z = At(g, j) => g = h
    BY <1>1
  <2> QED
    BY <1>5, <2>1, <2>2
<1> QED
  BY <1>4, <1>5 DEF ArrayOf

LEMMA Released ==
  ASSUME PageAssumption, Regular, IInv, NEW c \in Client, Deallocate(c)
  PROVE  \E h, i : Releases(c, h, i) /\ (Clears(c, h, i) \/ Idles(c))
<1>1. /\ held[c] # None
      /\ UNCHANGED <<zone_tree, head, zone_count>>
      /\ held' = [held EXCEPT ![c] = None]
  BY DEF Deallocate, DeallocateInZone, DeallocateSpan, DeallocateNothing
<1>2. PICK a \in Nat, n \in Sizes : a = held[c][1] /\ n = held[c][2] /\ Block(c) = a .. a + n - 1
  BY <1>1, Holds, ZenonT(40) DEF IInv
<1>0. PAGES \in Nat /\ PAGES > 1 /\ Zone \subseteq Nat /\ n \in Nat /\ n > 0 /\ n < PAGES + PAGES
  BY ZoneNat, SizesAre
<1>3. PICK h, i : Lies(a, n, h, i)
  BY <1>1, <1>2 DEF IInv, Placed
<1>4. PICK z \in zone_tree : z = At(h, i) /\ z \in Nat /\ z \in Zone
  BY <1>0, <1>3 DEF Lies, IInv, Whole, Types
<1>5. /\ h \in head /\ i \in Index(h) /\ z <= a /\ a < z + PAGES /\ a + n < z + PAGES + PAGES
      /\ a + n <= z + PAGES \/ i + 1 \in Index(h)
  BY <1>3, <1>4 DEF Lies
<1>6. PICK u \in 0 .. PAGES - 1, k \in Nat : u = a % PAGES /\ a = k * PAGES + u /\ k * PAGES \in Nat
  <2>1. /\ a \div PAGES \in Nat /\ a % PAGES \in 0 .. PAGES - 1
        /\ a = PAGES * (a \div PAGES) + (a % PAGES)
    BY <1>0, DivMod
  <2>2. PAGES * (a \div PAGES) = (a \div PAGES) * PAGES /\ (a \div PAGES) * PAGES \in Nat
    BY <2>1, <1>0
  <2> QED
    BY <2>1, <2>2
<1>7. Masked(a) = k * PAGES /\ Masked(a) <= a /\ a < Masked(a) + PAGES /\ Masked(a) \in Nat
  BY <1>0, <1>6 DEF Masked
<1>8. Masked(a) \in zone_tree => Masked(a) = z /\ a = z + u
  <2> SUFFICES ASSUME Masked(a) \in zone_tree PROVE Masked(a) = z /\ a = z + u
    OBVIOUS
  <2>1. ~Apart(Masked(a), z)
    BY <1>0, <1>4, <1>5, <1>7 DEF Apart
  <2>2. Masked(a) = z
    BY <2>1 DEF IInv, Disjoint
  <2> QED
    BY <2>2, <1>6, <1>7
<1>9. /\ Owner(z) = h
      /\ ArrayOf(z) = {At(h, j) : j \in Index(h)}
      /\ z \in head => z = h
      /\ i = 0 => z = h
  <2>1. z \in head => 0 \in Index(z)
    <3> SUFFICES ASSUME z \in head PROVE 0 \in Index(z)
      OBVIOUS
    <3>1. zone_count[z] >= 1 /\ zone_count[z] \in Nat
      BY <1>4 DEF IInv, Whole, Types
    <3> QED
      BY <3>1 DEF Index
  <2> QED
    BY <2>1, <1>4, <1>5, OwnerIs, Places DEF IInv
<1>10. /\ free_page \in [Zone -> Nat] /\ pages \in [Zone -> SUBSET Bit] /\ head \subseteq Zone
       /\ h \in Zone
  BY <1>5 DEF IInv, Types
<1>11. \A y \in zone_tree : \A p \in Int : p - y \in Bit =>
          /\ z <= p /\ p < z + PAGES => y = z
          /\ i + 1 \in Index(h) /\ At(h, i + 1) <= p /\ p < At(h, i + 1) + PAGES => y = At(h, i + 1)
  <2> SUFFICES ASSUME NEW y \in zone_tree, NEW p \in Int, p - y \in Bit,
                      NEW x \in zone_tree, x <= p, p < x + PAGES
               PROVE  y = x
    BY <1>4, <1>5, ZenonT(40) DEF IInv, Whole
  <2>1. x \in Nat /\ y \in Nat
    BY <1>0 DEF IInv, Types
  <2>2. ~Apart(x, y)
    BY <2>1, <1>0 DEF Apart, Bit
  <2> QED
    BY <2>2 DEF IInv, Disjoint
<1>12. At(h, i + 1) = z + PAGES
  BY <1>4, <1>5, Places DEF IInv
<1>13. CASE DeallocateNothing(c)
  <2>1. Masked(a) \notin zone_tree /\ UNCHANGED <<pages, free_page>>
    BY <1>2, <1>13 DEF DeallocateNothing
  <2>2. z % PAGES # 0
    <3> SUFFICES ASSUME z % PAGES = 0 PROVE FALSE
      OBVIOUS
    <3>1. a - z \in 0 .. PAGES - 1 /\ z + (a - z) = a
      BY <1>0, <1>4, <1>5
    <3>2. a % PAGES = a - z
      BY <3>1, <1>0, <1>4, Residue, SMTT(40)
    <3>3. Masked(a) = z
      BY <3>1, <3>2, <1>4 DEF Masked
    <3> QED
      BY <3>3, <2>1
  <2>3. (z + PAGES) % PAGES # 0
    <3>1. PAGES \in Nat /\ PAGES > 0 /\ z \in Nat
      BY <1>0, <1>4
    <3> QED
      BY <2>2, <3>1, Aligned, Zenon
  <2>4. ASSUME NEW y \in zone_tree, y % PAGES = 0, NEW p \in Block(c), p - y \in Bit
        PROVE  FALSE
    <3>1. p \in Int /\ p \in a .. a + n - 1
      BY <2>4, <1>2
    <3>2. y = z \/ y = z + PAGES
      BY <3>1, <2>4, <1>0, <1>4, <1>5, <1>11, <1>12
    <3> QED
      BY <3>2, <2>2, <2>3, <2>4
  <2> QED
    BY <2>1, <2>4, <1>1, <1>2, <1>3, <1>10 DEF Releases, Idles
<1>14. CASE DeallocateInZone(c)
  <2>1. /\ Masked(a) \in zone_tree /\ (a % PAGES) + n <= PAGES
        /\ pages' = [pages EXCEPT ![Masked(a)] = @ \ (a % PAGES .. (a % PAGES) + n - 1)]
        /\ Given(Masked(a), n)
    BY <1>2, <1>14 DEF DeallocateInZone
  <2>2. /\ z + u = a /\ u + n <= PAGES
        /\ pages' = [pages EXCEPT ![z] = @ \ (u .. u + n - 1)] /\ Given(z, n)
    BY <2>1, <1>6, <1>8
  <2>3. /\ free_page' \in [Zone -> Nat]
        /\ \A g \in head : g # h => free_page'[g] = free_page[g]
        /\ free_page'[h] >= free_page[h]
        /\ i = 0 => free_page'[h] = free_page[h] + n
    <3>1. CASE z \in head
      <4>1. z = h /\ free_page' = [free_page EXCEPT ![h] = @ + n]
        BY <3>1, <2>2, <1>9 DEF Given
      <4> QED
        BY <4>1, <1>0, <1>10
    <3>2. CASE z \notin head
      <4>1. free_page' = free_page /\ i # 0
        BY <3>2, <2>2, <1>5, <1>9 DEF Given
      <4> QED
        BY <4>1, <1>10
    <3> QED
      BY <3>1, <3>2
  <2>4. /\ pages' \in [Zone -> SUBSET Bit] /\ pages'[z] = pages[z] \ (u .. u + n - 1)
        /\ \A y \in zone_tree : y # z => pages'[y] = pages[y]
    BY <2>2, <1>4, <1>10 DEF IInv, Types
  <2>5. \A p \in Int : IsMarked(p)' <=> IsMarked(p) /\ p \notin a .. a + n - 1
    <3> TAKE p \in Int
    <3>1. p \in a .. a + n - 1 <=> p - z \in u .. u + n - 1
      BY <2>2, <1>0, <1>4
    <3>2. IsMarked(p)' <=> \E y \in zone_tree : p - y \in pages'[y]
      BY <1>1 DEF IsMarked
    <3>3. p \in a .. a + n - 1 => \A y \in zone_tree : p - y \in pages[y] => y = z
      <4> SUFFICES ASSUME p \in a .. a + n - 1, NEW y \in zone_tree, p - y \in pages[y]
                   PROVE  y = z
        OBVIOUS
      <4>1. p - y \in Bit
        BY <1>10 DEF IInv, Types
      <4>2. z <= p /\ p < z + PAGES
        BY <2>2, <1>0, <1>4
      <4> QED
        BY <4>1, <4>2, <1>11
    <3> QED
      BY <3>1, <3>2, <3>3, <2>4 DEF IsMarked
  <2> QED
    BY <2>3, <2>4, <2>5, <1>1, <1>2, <1>3 DEF Releases, Clears
<1>15. CASE DeallocateSpan(c)
  <2> DEFINE rest == n - (PAGES - (a % PAGES))
  <2>1. /\ Masked(a) \in zone_tree /\ (a % PAGES) + n > PAGES
        /\ pages' = IF Masked(a) + PAGES \in ArrayOf(Masked(a))
                    THEN [[pages EXCEPT ![Masked(a)] = @ \ (a % PAGES .. PAGES - 1)]
                             EXCEPT ![Masked(a) + PAGES] = @ \ (0 .. (rest % PAGES) - 1)]
                    ELSE [pages EXCEPT ![Masked(a)] = @ \ (a % PAGES .. PAGES - 1)]
        /\ Given(Owner(Masked(a)), n)
    BY <1>2, <1>15 DEF DeallocateSpan
  <2>2. /\ Masked(a) = z /\ a = z + u /\ u + n > PAGES /\ Given(h, n) /\ i + 1 \in Index(h)
    BY <2>1, <1>0, <1>4, <1>5, <1>6, <1>8, <1>9
  <2>3. PICK y \in zone_tree : y = z + PAGES /\ y \in Nat /\ y \in Zone /\ y \in ArrayOf(z)
    BY <2>2, <1>0, <1>5, <1>9, <1>12 DEF IInv, Whole, Types
  <2>4. PICK r \in 1 .. PAGES - 1 : r = rest /\ rest % PAGES = r /\ u + n = PAGES + r
    <3>1. rest = n - (PAGES - u) /\ rest \in 1 .. PAGES - 1 /\ rest = 0 * PAGES + rest
      BY <2>2, <1>0, <1>4, <1>5, <1>6
    <3>2. rest % PAGES = rest
      <4> HIDE DEF rest
      <4> QED
        BY <3>1, <1>0, Remainder
    <3> QED
      BY <3>1, <3>2, <1>0
  <2>5. pages' = [[pages EXCEPT ![z] = @ \ (u .. PAGES - 1)] EXCEPT ![y] = @ \ (0 .. r - 1)]
    BY <2>1, <2>2, <2>3, <2>4, <1>6
  <2>6. /\ free_page' \in [Zone -> Nat]
        /\ \A g \in head : g # h => free_page'[g] = free_page[g]
        /\ free_page'[h] >= free_page[h]
        /\ i = 0 => free_page'[h] = free_page[h] + n
    <3>1. free_page' = [free_page EXCEPT ![h] = @ + n]
      BY <2>2, <1>5 DEF Given
    <3> QED
      BY <3>1, <1>0, <1>10
  <2>7. /\ pages' \in [Zone -> SUBSET Bit]
        /\ pages'[z] = pages[z] \ (u .. PAGES - 1)
        /\ pages'[y] = pages[y] \ (0 .. r - 1)
        /\ \A x \in zone_tree : x # z /\ x # y => pages'[x] = pages[x]
    <3>1. y # z
      BY <2>3, <1>0, <1>4
    <3> QED
      BY <3>1, <2>3, <2>5, <1>4, <1>10 DEF IInv, Types
  <2>8. \A p \in Int : IsMarked(p)' <=> IsMarked(p) /\ p \notin a .. a + n - 1
    <3> TAKE p \in Int
    <3>1. p \in a .. a + n - 1 <=> p - z \in u .. PAGES - 1 \/ p - y \in 0 .. r - 1
      BY <2>2, <2>3, <2>4, <1>0, <1>4
    <3>2. IsMarked(p)' <=> \E x \in zone_tree : p - x \in pages'[x]
      BY <1>1 DEF IsMarked
    <3>3. /\ p - z \in u .. PAGES - 1 => \A x \in zone_tree : p - x \in pages[x] => x = z
          /\ p - y \in 0 .. r - 1 => \A x \in zone_tree : p - x \in pages[x] => x = y
      <4> SUFFICES ASSUME NEW x \in zone_tree, p - x \in pages[x]
                   PROVE  /\ p - z \in u .. PAGES - 1 => x = z
                          /\ p - y \in 0 .. r - 1 => x = y
        OBVIOUS
      <4>1. p - x \in Bit
        BY <1>10 DEF IInv, Types
      <4>2. p - z \in u .. PAGES - 1 => z <= p /\ p < z + PAGES
        BY <1>0, <1>4
      <4>3. p - y \in 0 .. r - 1 => y <= p /\ p < y + PAGES
        BY <2>3, <2>4, <1>0
      <4> QED
        BY <4>1, <4>2, <4>3, <2>2, <2>3, <1>11, <1>12
    <3> QED
      BY <3>1, <3>2, <3>3, <2>7 DEF IsMarked
  <2> QED
    BY <2>6, <2>7, <2>8, <1>1, <1>2, <1>3 DEF Releases, Clears
<1> QED
  BY <1>13, <1>14, <1>15 DEF Deallocate

\* A release clears the client's pages, which were nobody else's.
LEMMA ReleaseInv ==
  ASSUME PageAssumption, Regular, IInv, NEW c \in Client, NEW h, NEW i,
         Releases(c, h, i), Clears(c, h, i) \/ Idles(c)
  PROVE  IInv'
<1>1. /\ held[c] # None /\ UNCHANGED <<zone_tree, head, zone_count>>
      /\ held' = [held EXCEPT ![c] = None]
      /\ free_page' \in [Zone -> Nat] /\ pages' \in [Zone -> SUBSET Bit]
  BY DEF Releases
<1>2. \A d \in Client : d # c => held'[d] = held[d] /\ Block(d)' = Block(d)
  BY <1>1 DEF IInv, Types, Block
<1>3. held'[c] = None /\ Block(c)' = {}
  BY <1>1 DEF IInv, Types, Block
<1>4. \A p \in Int : IsMarked(p) /\ p \notin Block(c) => IsMarked(p)'
  <2>1. CASE Clears(c, h, i)
    BY <2>1 DEF Clears
  <2>2. CASE Idles(c)
    BY <2>2, <1>1 DEF Idles, IsMarked
  <2> QED
    BY <2>1, <2>2
<1>5. Types'
  BY <1>1 DEF IInv, Types
<1>6. Whole' /\ Covered' /\ Disjoint'
  BY <1>1 DEF IInv, Whole, Covered, Disjoint, Index, At, Apart, Array
<1>7. \A b, m, g, k : Lies(b, m, g, k)' <=> Lies(b, m, g, k)
  BY <1>1 DEF Lies, Index, At
<1>8. Placed'
  <2> SUFFICES ASSUME NEW d \in Client, held'[d] # None
               PROVE  \E g, k : Lies(held'[d][1], held'[d][2], g, k)
    BY <1>7 DEF Placed
  <2> QED
    BY <1>2, <1>3 DEF IInv, Placed
<1>9. AllMarked'
  <2>1. ASSUME NEW d \in Client, NEW p \in Block(d)' PROVE IsMarked(p)'
    <3>1. d # c /\ p \in Block(d)
      BY <2>1, <1>2, <1>3
    <3>2. p \in Int /\ IsMarked(p) /\ p \notin Block(c)
      BY <3>1, BlockNat DEF IInv, AllMarked, Once
    <3> QED
      BY <3>2, <1>4
  <2>2. ASSUME NEW e \in Map, NEW p \in e[1] .. e[2] - 1 PROVE IsMarked(p)'
    <3>1. p \in Int /\ IsMarked(p) /\ p \notin Block(c)
      BY <2>2 DEF IInv, AllMarked, Once
    <3> QED
      BY <3>1, <1>4
  <2> QED
    BY <2>1, <2>2 DEF AllMarked
<1>10. Once'
  BY <1>2, <1>3 DEF IInv, Once
<1> QED
  BY <1>5, <1>6, <1>8, <1>9, <1>10 DEF IInv

LEMMA StepInv ==
  ASSUME PageAssumption, Regular, IInv, [Next]_vars, [Sound]_vars
  PROVE  IInv'
<1>1. CASE UNCHANGED vars
  BY <1>1 DEF vars, IInv, Types, Whole, Covered, Disjoint, Placed, AllMarked, Once,
              Index, At, Apart, Array, IsMarked, Lies, Block
<1>2. CASE Next /\ Sound
  <2>1. PICK c \in Client : Allocate(c) \/ Deallocate(c)
    BY <1>2 DEF Next
  <2>2. CASE Allocate(c)
    <3>1. PICK n \in Sizes : AllocateInZone(c, n) \/ AllocateSpan(c, n) \/ Grow(c, n)
      BY <2>2 DEF Allocate
    <3>2. CASE AllocateInZone(c, n)
      BY <3>2, <1>2, InZoneServes, ServesInv
    <3>3. CASE AllocateSpan(c, n)
      BY <3>3, <1>2, SpanServes, ServesInv
    <3>4. CASE Grow(c, n)
      BY <3>4, Grown, GrowInv
    <3> QED
      BY <3>1, <3>2, <3>3, <3>4
  <2>3. CASE Deallocate(c)
    BY <2>3, Released, ReleaseInv
  <2> QED
    BY <2>1, <2>2, <2>3
<1> QED
  BY <1>1, <1>2

-----------------------------------------------------------------------------
(* The books: what is marked has a use, and the head counts what is clear *)

NoLeak ==
    \A p \in Int : IsMarked(p) =>
        \/ \E c \in Client : p \in Block(c)
        \/ \E e \in Map : p \in e[1] .. e[2] - 1
        \/ \E z \in zone_tree : z % PAGES # 0 /\ p - z \in Bit

\* The pages that the head of h counts as free: it is not told of blocks that
\* begin behind its own zone.
Open(h) == {p \in Array(h) : \/ ~IsMarked(p)
                             \/ \E c \in Client : p \in Block(c) /\ Address(c) >= h + PAGES}
Counted == \A h \in head : free_page[h] >= Cardinality(Open(h))

LEMMA OpenFinite ==
  ASSUME PageAssumption, Types, NEW h \in head
  PROVE  IsFiniteSet(Open(h)) /\ Cardinality(Open(h)) \in Nat /\ h \in Nat /\ free_page[h] \in Nat
<1>1. PICK m \in Int : h \in Nat /\ m = h + zone_count[h] * PAGES - 1 /\ free_page[h] \in Nat
  <2>1. h \in Nat /\ zone_count[h] \in Nat /\ PAGES \in Nat /\ free_page[h] \in Nat
    BY ZoneNat DEF Types
  <2> DEFINE k == zone_count[h]
  <2>2. k * PAGES \in Nat
    <3>1. k \in Nat
      BY <2>1
    <3> HIDE DEF k
    <3> QED
      BY <2>1, <3>1
  <2> QED
    BY <2>1, <2>2
<1>2. IsFiniteSet(Array(h))
  <2>1. Array(h) = h .. m
    BY <1>1 DEF Array
  <2> QED
    BY <2>1, <1>1, FS_Interval
<1>3. Open(h) \in SUBSET Array(h)
  BY DEF Open
<1>4. IsFiniteSet(Open(h))
  BY <1>2, <1>3, FS_Subset
<1> QED
  BY <1>1, <1>4, FS_CardinalityType

LEMMA InitBooks ==
  ASSUME PageAssumption, Regular, Init, IInv
  PROVE  NoLeak /\ Counted
<1>0. PAGES \in Nat /\ PAGES > 0 /\ ZONES \in Nat /\ ZONES > 0 /\ ZONES * PAGES \in Nat
  BY DEF PageAssumption
<1>1. NoLeak
  <2> SUFFICES ASSUME NEW p \in Int, IsMarked(p)
               PROVE  \E e \in Map : p \in e[1] .. e[2] - 1
    BY DEF NoLeak
  <2>1. PICK z \in Boot : p - z \in pages[z]
    BY DEF IsMarked, Init
  <2>2. z \in Int /\ z \in Zone
    BY <1>0 DEF Boot, Zone
  <2>3. p - z \in Marked(z)
    BY <2>1, <2>2 DEF Init
  <2>4. PICK e \in Map : z + (p - z) \in e[1] .. e[2] - 1
    BY <2>3 DEF Marked
  <2>5. z + (p - z) = p
    BY <2>2
  <2> QED
    BY <2>4, <2>5
<1>2. Counted
  <2>1. 0 \in Zone
    <3>1. 0 = 0 * PAGES /\ 0 \in 0 .. ZONES - 1
      BY <1>0
    <3> QED
      BY <3>1 DEF Boot, Zone
  <2>2. head = {0} /\ free_page[0] = ZONES * PAGES /\ Array(0) = 0 .. ZONES * PAGES - 1
    BY <2>1, <1>0 DEF Init, Array
  <2>3. Cardinality(0 .. ZONES * PAGES - 1) = ZONES * PAGES /\ IsFiniteSet(0 .. ZONES * PAGES - 1)
    <3> DEFINE m == ZONES * PAGES
    <3>1. m \in Nat
      BY <1>0
    <3> HIDE DEF m
    <3>2. IsFiniteSet(0 .. m - 1) /\ Cardinality(0 .. m - 1) = IF 0 > m - 1 THEN 0 ELSE m - 1 - 0 + 1
      BY <3>1, FS_Interval
    <3>3. Cardinality(0 .. m - 1) = m
      BY <3>1, <3>2
    <3> QED
      BY <3>2, <3>3 DEF m
  <2>4. Open(0) \in SUBSET (0 .. ZONES * PAGES - 1)
    BY <2>2 DEF Open
  <2>5. Cardinality(Open(0)) <= Cardinality(0 .. ZONES * PAGES - 1)
    BY <2>3, <2>4, FS_Subset
  <2>6. \A h \in head : h = 0
    BY <2>2
  <2> QED
    BY <2>2, <2>3, <2>5, <2>6 DEF Counted
<1> QED
  BY <1>1, <1>2

\* An array whose open pages become no more and whose count no less.
LEMMA CountKept ==
  ASSUME PageAssumption, Types, Types', Counted, NEW h \in head, h \in head',
         Open(h)' \subseteq Open(h), free_page'[h] >= free_page[h]
  PROVE  free_page'[h] >= Cardinality(Open(h)')
<1>1. IsFiniteSet(Open(h)) /\ Cardinality(Open(h)) \in Nat /\ free_page[h] \in Nat
  BY OpenFinite
<1>2. IsFiniteSet(Open(h)') /\ Cardinality(Open(h)') <= Cardinality(Open(h))
  BY <1>1, FS_Subset
<1>3. Cardinality(Open(h)') \in Nat
  BY <1>2, FS_CardinalityType
<1>4. free_page[h] >= Cardinality(Open(h))
  BY DEF Counted
<1>5. free_page'[h] \in Nat
  BY ZoneNat DEF Types
<1> QED
  BY <1>1, <1>2, <1>3, <1>4, <1>5

LEMMA ServesBooks ==
  ASSUME PageAssumption, Regular, IInv, IInv', NoLeak, Counted, NEW c \in Client, NEW n \in Sizes,
         NEW h, NEW i, NEW a, Serves(c, n, h, i, a)
  PROVE  NoLeak' /\ Counted'
<1>0. PAGES \in Nat /\ PAGES > 0 /\ n \in Nat /\ n > 0
  BY SizesAre
<1>1. /\ a \in Nat /\ h \in head /\ i \in Index(h) /\ Lies(a, n, h, i)
      /\ UNCHANGED <<zone_tree, head, zone_count>>
      /\ held[c] = None /\ held' = [held EXCEPT ![c] = <<a, n>>]
      /\ free_page[h] >= n /\ Taken(h, i, n)
  BY DEF Serves, Lies
<1> DEFINE B == a .. a + n - 1
<1>2. /\ \A p \in B : ~IsMarked(p)
      /\ \A p \in Int : IsMarked(p)' <=> IsMarked(p) \/ p \in B
  BY DEF Serves
<1>3. /\ Block(c)' = B /\ Address(c)' = a /\ Block(c) = {}
      /\ \A d \in Client : d # c => Block(d)' = Block(d) /\ Address(d)' = Address(d)
  <2>1. held'[c] = <<a, n>> /\ <<a, n>> # None /\ \A d \in Client : d # c => held'[d] = held[d]
    BY <1>0, <1>1 DEF IInv, Types, PageAssumption
  <2> QED
    BY <2>1, <1>1 DEF Block, Address
<1>4. B \subseteq Array(h) /\ B \subseteq Int /\ Array(h) \subseteq Int
  BY <1>0, <1>1, LiesIn DEF IInv, Array
<1>5. NoLeak'
  BY <1>1, <1>2, <1>3 DEF NoLeak
<1>6. ASSUME NEW g \in head
      PROVE  /\ Array(g)' = Array(g) /\ Array(g) \subseteq Int
             /\ g # h => Array(g) \cap B = {}
             /\ \A p \in Array(g) \ B : p \in Open(g)' <=> p \in Open(g)
  <2>1. Array(g)' = Array(g) /\ Array(g) \subseteq Int
    BY <1>1 DEF Array
  <2>2. g # h => Array(g) \cap B = {}
    BY <1>1, <1>4 DEF IInv, Disjoint
  <2>3. ASSUME NEW p \in Array(g) \ B PROVE p \in Open(g)' <=> p \in Open(g)
    <3>1. IsMarked(p)' <=> IsMarked(p)
      BY <2>1, <2>3, <1>2
    <3>2. (\E d \in Client : p \in Block(d) /\ Address(d) >= g + PAGES)'
             <=> \E d \in Client : p \in Block(d) /\ Address(d) >= g + PAGES
      BY <2>3, <1>3
    <3> QED
      BY <2>1, <2>3, <3>1, <3>2, Zenon DEF Open
  <2> QED
    BY <2>1, <2>2, <2>3
<1>7. ASSUME NEW g \in head, g # h PROVE free_page'[g] >= Cardinality(Open(g)')
  <2>1. Open(g)' \subseteq Open(g)
    <3>1. Open(g)' \subseteq Array(g)
      BY <1>6 DEF Open
    <3> QED
      BY <3>1, <1>6, <1>7
  <2>2. free_page'[g] = free_page[g] /\ free_page[g] \in Nat
    BY <1>1, <1>7 DEF Taken, IInv, Types
  <2> QED
    BY <2>1, <2>2, <1>1, CountKept DEF IInv
<1>8. free_page'[h] >= Cardinality(Open(h)')
  <2>1. h \in Nat /\ At(h, i) <= a /\ (i = 0 => At(h, i) = h) /\ (i # 0 => At(h, i) >= h + PAGES)
        /\ a < At(h, i) + PAGES /\ At(h, i) \in Nat
    BY <1>1, Places DEF IInv, Lies
  <2>2. h \in Zone /\ free_page \in [Zone -> Nat]
    BY <1>1 DEF IInv, Types
  <2>3. CASE i # 0
    <3>1. a >= h + PAGES
      BY <2>1, <2>3, <1>0, <1>1
    <3>2. Open(h)' \subseteq Open(h)
      <4>1. B \subseteq Open(h)
        BY <1>2, <1>4 DEF Open
      <4>2. Open(h)' \subseteq Array(h)
        BY <1>1, <1>6 DEF Open
      <4> QED
        BY <4>1, <4>2, <1>1, <1>6
    <3>3. free_page'[h] = free_page[h] /\ free_page[h] \in Nat
      BY <2>2, <2>3, <1>1 DEF Taken
    <3> QED
      BY <3>2, <3>3, <1>1, CountKept DEF IInv
  <2>4. CASE i = 0
    <3>1. a < h + PAGES
      BY <2>1, <2>4
    <3>2. B \subseteq Open(h)
      BY <1>2, <1>4 DEF Open
    <3>3. \A p \in B : p \notin Open(h)'
      <4> SUFFICES ASSUME NEW p \in B, p \in Open(h)' PROVE FALSE
        OBVIOUS
      <4>1. IsMarked(p)'
        BY <1>2, <1>4
      <4>2. PICK d \in Client : p \in Block(d)' /\ Address(d)' >= h + PAGES
        BY <4>1 DEF Open
      <4>3. d # c
        BY <4>2, <3>1, <2>1, <1>0, <1>1, <1>3
      <4>4. p \in Block(c)'
        BY <1>3
      <4> QED
        BY <4>2, <4>3, <4>4 DEF IInv, Once
    <3>4. Open(h)' = Open(h) \ B
      <4>1. Open(h)' \subseteq Array(h) /\ Open(h) \subseteq Array(h)
        BY <1>1, <1>6 DEF Open
      <4> QED
        BY <4>1, <3>3, <1>1, <1>6
    <3>5. IsFiniteSet(Open(h)) /\ Cardinality(Open(h)) \in Nat
      BY <1>1, OpenFinite DEF IInv
    <3>6. Cardinality(Open(h) \ B) = Cardinality(Open(h)) - n
      <4>1. Open(h) \cap B = B
        BY <3>2
      <4>2. Cardinality(B) = n
        <5>1. Cardinality(B) = IF a > a + n - 1 THEN 0 ELSE a + n - 1 - a + 1
          BY <1>0, <1>1, FS_Interval
        <5> QED
          BY <5>1, <1>0, <1>1
      <4> QED
        BY <4>1, <4>2, <3>5, FS_Difference
    <3>7. free_page'[h] = free_page[h] - n /\ free_page[h] \in Nat
      BY <2>2, <2>4, <1>1 DEF Taken
    <3>8. free_page[h] >= Cardinality(Open(h))
      BY <1>1 DEF Counted
    <3>9. Cardinality(Open(h)') = Cardinality(Open(h)) - n
      BY <3>4, <3>6
    <3> QED
      BY <3>5, <3>7, <3>8, <3>9, <1>0
  <2> QED
    BY <2>3, <2>4
<1>9. Counted'
  <2>1. head' = head
    BY <1>1
  <2> QED
    BY <2>1, <1>7, <1>8 DEF Counted
<1> QED
  BY <1>5, <1>9

LEMMA GrowBooks ==
  ASSUME PageAssumption, Regular, IInv, IInv', NoLeak, Counted, NEW c \in Client, NEW n \in Sizes,
         NEW b, Grows(c, n, b)
  PROVE  NoLeak' /\ Counted'
<1>0. PAGES \in Nat /\ PAGES > 0 /\ n \in Nat /\ n > 0
  BY SizesAre
<1>1. PICK k \in Nat : k = ZonesFor(n) /\ k * PAGES \in Nat /\ k * PAGES > n
  <2>1. 1 * PAGES = PAGES /\ 2 * PAGES = PAGES + PAGES
    BY <1>0
  <2> QED
    BY <2>1, SizesAre
<1>2. /\ b \in Nat /\ b \in Zone /\ b \notin zone_tree /\ head' = head \cup {b}
      /\ zone_tree \subseteq zone_tree'
      /\ held[c] = None /\ held' = [held EXCEPT ![c] = <<b, n>>]
      /\ zone_count' = [zone_count EXCEPT ![b] = k]
      /\ free_page' = [free_page EXCEPT ![b] = k * PAGES - n]
      /\ zone_count \in [Zone -> Nat] /\ free_page \in [Zone -> Nat]
      /\ head \subseteq zone_tree /\ zone_tree \subseteq Zone
  BY <1>1 DEF Grows, IInv, Types
<1> DEFINE B == b .. b + n - 1
<1>3. \A p \in Int : IsMarked(p)' <=> IsMarked(p) \/ p \in B
  BY DEF Grows
<1>4. /\ Block(c)' = B /\ Address(c)' = b /\ Block(c) = {}
      /\ \A d \in Client : d # c => Block(d)' = Block(d) /\ Address(d)' = Address(d)
  <2>1. held'[c] = <<b, n>> /\ <<b, n>> # None /\ \A d \in Client : d # c => held'[d] = held[d]
    BY <1>0, <1>2 DEF IInv, Types, PageAssumption
  <2> QED
    BY <2>1, <1>2 DEF Block, Address
<1>5. NoLeak'
  BY <1>2, <1>3, <1>4 DEF NoLeak
<1>6. /\ Array(b)' = b .. b + k * PAGES - 1 /\ B \subseteq Array(b)'
      /\ free_page'[b] = k * PAGES - n
      /\ \A g \in head : /\ g # b /\ Array(g)' = Array(g) /\ free_page'[g] = free_page[g]
                         /\ free_page[g] \in Nat
  <2>1. zone_count'[b] = k /\ free_page'[b] = k * PAGES - n
    BY <1>2
  <2>2. ASSUME NEW g \in head
        PROVE g # b /\ zone_count'[g] = zone_count[g] /\ free_page'[g] = free_page[g]
              /\ free_page[g] \in Nat
    BY <1>2
  <2>3. B \subseteq b .. b + k * PAGES - 1
    BY <1>0, <1>1, <1>2
  <2> QED
    BY <2>1, <2>2, <2>3 DEF Array
<1>7. ASSUME NEW g \in head PROVE free_page'[g] >= Cardinality(Open(g)')
  <2>1. Array(g) \cap B = {} /\ Array(g) \subseteq Int
    <3>1. Array(g)' \cap Array(b)' = {}
      BY <1>2, <1>6 DEF IInv, Disjoint
    <3>2. Array(g) \subseteq Int
      BY DEF Array
    <3> QED
      BY <3>1, <3>2, <1>6
  <2>2. Open(g)' \subseteq Open(g)
    <3> SUFFICES ASSUME NEW p \in Open(g)' PROVE p \in Open(g)
      OBVIOUS
    <3>1. p \in Array(g) /\ p \in Int /\ p \notin B
      BY <2>1, <1>6 DEF Open
    <3>2. IsMarked(p)' <=> IsMarked(p)
      BY <3>1, <1>3
    <3>3. (\E d \in Client : p \in Block(d) /\ Address(d) >= g + PAGES)'
             => \E d \in Client : p \in Block(d) /\ Address(d) >= g + PAGES
      BY <3>1, <1>4
    <3>4. ~IsMarked(p)' \/ (\E d \in Client : p \in Block(d) /\ Address(d) >= g + PAGES)'
      BY DEF Open
    <3> QED
      BY <3>1, <3>2, <3>3, <3>4, Zenon DEF Open
  <2>3. free_page'[g] >= free_page[g] /\ g \in head'
    BY <1>2, <1>6
  <2> QED
    BY <2>2, <2>3, CountKept DEF IInv
<1>8. free_page'[b] >= Cardinality(Open(b)')
  <2>1. \A p \in B : p \notin Open(b)'
    <3> SUFFICES ASSUME NEW p \in B, p \in Open(b)' PROVE FALSE
      OBVIOUS
    <3>1. IsMarked(p)'
      BY <1>2, <1>3
    <3>2. PICK d \in Client : p \in Block(d)' /\ Address(d)' >= b + PAGES
      BY <3>1 DEF Open
    <3>3. d # c
      BY <3>2, <1>0, <1>2, <1>4
    <3>4. p \in Block(c)'
      BY <1>4
    <3> QED
      BY <3>2, <3>3, <3>4 DEF IInv, Once
  <2>2. Open(b)' \subseteq Array(b)'
    BY DEF Open
  <2> DEFINE R == b + n .. b + k * PAGES - 1
  <2>3. Open(b)' \subseteq R
    <3> SUFFICES ASSUME NEW p \in Open(b)' PROVE p \in R
      OBVIOUS
    <3>1. p \in b .. b + k * PAGES - 1 /\ p \notin B
      BY <2>1, <2>2, <1>6
    <3> QED
      BY <3>1, <1>0, <1>1, <1>2
  <2>4. IsFiniteSet(R) /\ Cardinality(R) = k * PAGES - n
    <3> DEFINE m == k * PAGES
    <3>1. m \in Nat /\ m > n
      BY <1>1
    <3> HIDE DEF m
    <3>2. PICK u \in Nat, v \in Int : u = b + n /\ v = b + m - 1
      BY <3>1, <1>0, <1>2
    <3>3. IsFiniteSet(u .. v) /\ Cardinality(u .. v) = IF u > v THEN 0 ELSE v - u + 1
      BY FS_Interval
    <3>4. Cardinality(u .. v) = m - n
      BY <3>1, <3>2, <3>3, <1>0, <1>2
    <3> QED
      BY <3>2, <3>3, <3>4 DEF m
  <2>5. Cardinality(Open(b)') <= Cardinality(R)
    BY <2>3, <2>4, FS_Subset
  <2> QED
    BY <2>4, <2>5, <1>6
<1>9. Counted'
  BY <1>2, <1>7, <1>8 DEF Counted
<1> QED
  BY <1>5, <1>9

\* A release of the client's pages makes as many open, at most, as it counts.
LEMMA ReleaseBooks ==
  ASSUME PageAssumption, Regular, IInv, IInv', NoLeak, Counted, NEW c \in Client,
         NEW h, NEW i, Releases(c, h, i), Clears(c, h, i) \/ Idles(c)
  PROVE  NoLeak' /\ Counted'
<1>0. PAGES \in Nat /\ PAGES > 0 /\ Sizes \subseteq Nat
  BY DEF PageAssumption
<1>1. /\ held[c] # None /\ UNCHANGED <<zone_tree, head, zone_count>>
      /\ held' = [held EXCEPT ![c] = None] /\ h \in head /\ i \in Index(h)
      /\ \A g \in head : g # h => free_page'[g] = free_page[g]
  BY DEF Releases, Lies
<1>2. PICK a \in Nat, n \in Nat : a = Address(c) /\ n = held[c][2] /\ Block(c) = a .. a + n - 1
                                  /\ Lies(a, n, h, i)
  BY <1>0, <1>1, Holds DEF IInv, Address, Releases
<1>3. /\ Block(c)' = {}
      /\ \A d \in Client : d # c => Block(d)' = Block(d) /\ Address(d)' = Address(d)
  BY <1>1 DEF IInv, Types, Block, Address
<1>4. \A p \in Int : IsMarked(p)' => IsMarked(p)
  BY <1>1 DEF Clears, Idles, IsMarked
<1>5. \A p \in Int : p \notin Block(c) /\ IsMarked(p) => IsMarked(p)'
  BY <1>1 DEF Clears, Idles, IsMarked
<1>6. NoLeak'
  <2> SUFFICES ASSUME NEW p \in Int, IsMarked(p)'
               PROVE  \/ \E d \in Client : p \in Block(d)'
                      \/ \E e \in Map : p \in e[1] .. e[2] - 1
                      \/ \E z \in zone_tree : z % PAGES # 0 /\ p - z \in Bit
    BY <1>1 DEF NoLeak
  <2>1. CASE p \notin Block(c)
    <3>1. IsMarked(p)
      BY <1>4
    <3> QED
      BY <2>1, <3>1, <1>3 DEF NoLeak
  <2>2. CASE p \in Block(c)
    <3>1. Idles(c)
      BY <2>2 DEF Clears
    <3>2. PICK z \in zone_tree : p - z \in pages[z]
      BY <1>4 DEF IsMarked
    <3>3. p - z \in Bit
      BY <3>2 DEF IInv, Types
    <3> QED
      BY <2>2, <3>1, <3>3 DEF Idles
  <2> QED
    BY <2>1, <2>2
<1>7. ASSUME NEW g \in head
      PROVE  /\ Open(g)' \subseteq Open(g) \cup Block(c)
             /\ Open(g)' \subseteq Array(g)
  <2>1. Array(g)' = Array(g) /\ Array(g) \subseteq Int
    BY <1>1 DEF Array
  <2>2. Open(g)' \subseteq Array(g)
    BY <2>1 DEF Open
  <2>3. ASSUME NEW p \in Open(g)', p \notin Block(c) PROVE p \in Open(g)
    <3>1. p \in Array(g) /\ p \in Int
      BY <2>1, <2>2
    <3>2. IsMarked(p) => IsMarked(p)'
      BY <2>3, <3>1, <1>5
    <3>3. (\E d \in Client : p \in Block(d) /\ Address(d) >= g + PAGES)'
             => \E d \in Client : p \in Block(d) /\ Address(d) >= g + PAGES
      BY <1>3
    <3>4. ~IsMarked(p)' \/ (\E d \in Client : p \in Block(d) /\ Address(d) >= g + PAGES)'
      BY DEF Open
    <3> QED
      BY <3>1, <3>2, <3>3, <3>4, Zenon DEF Open
  <2> QED
    BY <2>2, <2>3
<1>8. Block(c) \subseteq Array(h)
  BY <1>2, LiesIn DEF IInv
<1>9. ASSUME NEW g \in head, g # h PROVE free_page'[g] >= Cardinality(Open(g)')
  <2>1. Array(g) \cap Block(c) = {}
    BY <1>1, <1>8, <1>9 DEF IInv, Disjoint
  <2>2. Open(g)' \subseteq Open(g)
    BY <2>1, <1>7
  <2>3. free_page'[g] = free_page[g] /\ free_page[g] \in Nat
    BY <1>0, <1>1, <1>9 DEF IInv, Types
  <2> QED
    BY <2>2, <2>3, <1>1, CountKept DEF IInv
<1>10. free_page'[h] >= Cardinality(Open(h)')
  <2>1. /\ h \in Nat /\ At(h, i) <= a /\ (i # 0 => At(h, i) >= h + PAGES) /\ At(h, i) \in Nat
    BY <1>1, <1>2, Places DEF IInv, Lies
  <2>2. free_page[h] \in Nat
    BY <1>1 DEF IInv, Types
  <2>3. CASE Idles(c)
    <3>1. Open(h)' \subseteq Open(h)
      <4> SUFFICES ASSUME NEW p \in Open(h)' PROVE p \in Open(h)
        OBVIOUS
      <4>1. p \in Array(h) /\ (IsMarked(p) <=> IsMarked(p)')
        BY <2>3, <1>1, <1>7 DEF Idles, IsMarked
      <4>2. (\E d \in Client : p \in Block(d) /\ Address(d) >= h + PAGES)'
             => \E d \in Client : p \in Block(d) /\ Address(d) >= h + PAGES
        BY <1>3
      <4>3. ~IsMarked(p)' \/ (\E d \in Client : p \in Block(d) /\ Address(d) >= h + PAGES)'
        BY DEF Open
      <4> QED
        BY <4>1, <4>2, <4>3, Zenon DEF Open
    <3>2. free_page'[h] >= free_page[h]
      BY <2>2, <2>3 DEF Idles
    <3> QED
      BY <3>1, <3>2, <1>1, CountKept DEF IInv
  <2>4. CASE Clears(c, h, i) /\ i # 0
    <3>1. a >= h + PAGES
      BY <2>1, <2>4, <1>0, <1>2
    <3>2. Block(c) \subseteq Open(h)
      BY <3>1, <1>2, <1>8 DEF Open
    <3>3. Open(h)' \subseteq Open(h)
      BY <3>2, <1>1, <1>7
    <3> QED
      BY <2>4, <3>3, <1>1, CountKept DEF IInv, Clears
  <2>5. CASE Clears(c, h, i) /\ i = 0
    <3>1. free_page'[h] = free_page[h] + n
      BY <2>5, <1>2 DEF Clears
    <3>2. IsFiniteSet(Open(h)) /\ Cardinality(Open(h)) \in Nat
      BY <1>1, OpenFinite DEF IInv
    <3>3. IsFiniteSet(Block(c)) /\ Cardinality(Block(c)) \in Nat /\ Cardinality(Block(c)) <= n
      <4>1. PICK v \in Int : v = a + n - 1
        OBVIOUS
      <4>2. IsFiniteSet(a .. v) /\ Cardinality(a .. v) = IF a > v THEN 0 ELSE v - a + 1
        BY FS_Interval
      <4>3. Cardinality(a .. v) = n
        BY <4>1, <4>2
      <4> QED
        BY <4>1, <4>2, <4>3, <1>2
    <3>4. PICK S : S = Open(h) \cup Block(c)
      OBVIOUS
    <3>5. IsFiniteSet(S) /\ Cardinality(S) <= Cardinality(Open(h)) + Cardinality(Block(c))
      <4>1. /\ IsFiniteSet(Open(h) \cup Block(c))
            /\ Cardinality(Open(h) \cup Block(c))
                  = Cardinality(Open(h)) + Cardinality(Block(c)) - Cardinality(Open(h) \cap Block(c))
        BY <3>2, <3>3, FS_Union
      <4>2. Cardinality(Open(h) \cap Block(c)) \in Nat
        <5>1. IsFiniteSet(Open(h) \cap Block(c))
          BY <3>2, FS_Subset
        <5> QED
          BY <5>1, FS_CardinalityType
      <4> QED
        BY <4>1, <4>2, <3>2, <3>3, <3>4
    <3>6. Open(h)' \in SUBSET S
      BY <3>4, <1>1, <1>7
    <3>7. /\ Cardinality(Open(h)') <= Cardinality(S)
          /\ Cardinality(Open(h)') \in Nat /\ Cardinality(S) \in Nat
      BY <3>5, <3>6, FS_Subset, FS_CardinalityType
    <3>8. free_page[h] >= Cardinality(Open(h))
      BY <1>1 DEF Counted
    <3> QED
      BY <3>1, <3>2, <3>3, <3>5, <3>7, <3>8, <2>2
  <2> QED
    BY <2>3, <2>4, <2>5
<1>11. Counted'
  <2>1. head' = head
    BY <1>1
  <2> QED
    BY <2>1, <1>9, <1>10 DEF Counted
<1> QED
  BY <1>6, <1>11

LEMMA StepBooks ==
  ASSUME PageAssumption, Regular, IInv, IInv', NoLeak, Counted, [Next]_vars, [Sound]_vars
  PROVE  NoLeak' /\ Counted'
<1>1. CASE UNCHANGED vars
  <2>1. /\ head' = head /\ free_page' = free_page
        /\ \A h : Open(h)' = Open(h)
    BY <1>1 DEF vars, Open, Array, IsMarked, Block, Address
  <2>2. NoLeak'
    BY <1>1 DEF vars, NoLeak, IsMarked, Block
  <2> QED
    BY <2>1, <2>2 DEF Counted
<1>2. CASE Next /\ Sound
  <2>1. PICK c \in Client : Allocate(c) \/ Deallocate(c)
    BY <1>2 DEF Next
  <2>2. CASE Allocate(c)
    <3>1. PICK n \in Sizes : AllocateInZone(c, n) \/ AllocateSpan(c, n) \/ Grow(c, n)
      BY <2>2 DEF Allocate
    <3>2. CASE AllocateInZone(c, n)
      BY <3>2, <1>2, InZoneServes, ServesBooks
    <3>3. CASE AllocateSpan(c, n)
      BY <3>3, <1>2, SpanServes, ServesBooks
    <3>4. CASE Grow(c, n)
      BY <3>4, Grown, GrowBooks
    <3> QED
      BY <3>1, <3>2, <3>3, <3>4
  <2>3. CASE Deallocate(c)
    BY <2>3, Released, ReleaseBooks
  <2> QED
    BY <2>1, <2>2, <2>3
<1> QED
  BY <1>1, <1>2

-----------------------------------------------------------------------------
(* Theorems *)

Books == IInv /\ NoLeak /\ Counted

\* What is held is marked once and the books are right, for as long as every
\* request is served soundly.
THEOREM Invariance ==
  ASSUME Regular
  PROVE  Spec /\ [][Sound]_vars => []Books
<1>1. Init => Books
  BY PageAssumption, InitInv, InitBooks DEF Books
<1>2. Books /\ [Next]_vars /\ [Sound]_vars => Books'
  BY PageAssumption, StepInv, StepBooks DEF Books
<1> QED
  BY <1>1, <1>2, PTL DEF Spec

\* TypeOK: the values of the allocator's state stay what the code declares,
\* the count of the free pages never below zero.
THEOREM PageTypes ==
  ASSUME Regular
  PROVE  Spec /\ [][Sound]_vars => []TypeOK
<1>1. Books => TypeOK
  <2>1. Sizes \subseteq Nat
    BY PageAssumption DEF PageAssumption
  <2>2. \A x \in Nat \X Sizes : x \in Nat \X Nat
    BY <2>1
  <2>3. held \in [Client -> (Nat \X Sizes) \cup {None}] => held \in [Client -> (Nat \X Nat) \cup {None}]
    BY <2>2
  <2> QED
    BY <2>3 DEF Books, IInv, Types, TypeOK
<1> QED
  BY <1>1, Invariance, PTL

\* NoOverlap: no page is given to two clients, for requests of all sizes but
\* whole zones, any order of releases and any growths that do not overlap,
\* while no search reports a run over a full word (bitset:184) and no block is
\* given behind the last zone (:152).
THEOREM PagesDisjoint ==
  ASSUME Regular
  PROVE  Spec /\ [][Sound]_vars => []NoOverlap
<1>1. Books => NoOverlap
  BY DEF Books, IInv, Once, NoOverlap
<1> QED
  BY <1>1, Invariance, PTL

\* HeldMarked: under the same conditions what a client holds is marked in a
\* zone of the tree, in both if it lies in two.
THEOREM PagesMarked ==
  ASSUME Regular
  PROVE  Spec /\ [][Sound]_vars => []HeldMarked
<1>1. Books => HeldMarked
  <2> SUFFICES ASSUME Books, NEW c \in Client, NEW p \in Block(c)
               PROVE  \E z \in zone_tree : p - z \in Bit /\ p - z \in pages[z]
    BY DEF HeldMarked
  <2>1. IsMarked(p)
    BY DEF Books, IInv, AllMarked
  <2>2. \A z \in zone_tree : pages[z] \subseteq Bit
    BY DEF Books, IInv, Types
  <2> QED
    BY <2>1, <2>2 DEF IsMarked
<1> QED
  BY <1>1, Invariance, PTL

\* ReservedSafe: under the same conditions no client is given a page of an
\* entry of the map that keeps to one zone.
THEOREM ReservedKept ==
  ASSUME Regular
  PROVE  Spec /\ [][Sound]_vars => []ReservedSafe
<1>1. Books => ReservedSafe
  BY DEF Books, IInv, Once, ReservedSafe
<1> QED
  BY <1>1, Invariance, PTL

\* NothingLeaks: under the same conditions a page that is marked in a zone at a
\* multiple of its size is held or reserved.  Of other zones it says nothing:
\* there releases are lost (:230).
THEOREM NoPageLeaks ==
  ASSUME Regular
  PROVE  Spec /\ [][Sound]_vars => []NothingLeaks
<1>1. PageAssumption /\ Books => NothingLeaks
  <2> SUFFICES ASSUME PageAssumption, Books,
                      NEW y \in zone_tree, y % PAGES = 0, NEW j \in pages[y]
               PROVE  \/ \E c \in Client : y + j \in Block(c)
                      \/ \E e \in Map : y + j \in e[1] .. e[2] - 1
    BY DEF NothingLeaks
  <2>1. y \in Nat /\ j \in Bit /\ j \in Nat /\ PAGES \in Nat
    BY ZoneNat DEF Books, IInv, Types, Bit
  <2>2. PICK p \in Int : p = y + j
    BY <2>1
  <2>3. p - y = j
    BY <2>1, <2>2
  <2>4. IsMarked(p)
    BY <2>3 DEF IsMarked
  <2>5. ASSUME NEW z \in zone_tree, z % PAGES # 0, p - z \in Bit PROVE FALSE
    <3>1. z \in Nat
      BY ZoneNat DEF Books, IInv, Types
    <3>2. ~Apart(y, z)
      BY <2>1, <2>2, <2>5, <3>1 DEF Apart, Bit
    <3> QED
      BY <2>5, <3>2 DEF Books, IInv, Disjoint
  <2> QED
    BY <2>2, <2>4, <2>5 DEF Books, NoLeak
<1> QED
  BY <1>1, PageAssumption, Invariance, PTL

\* CountNeverShort: under the same conditions a head's count is never below the
\* clear pages of its array.
THEOREM CountIsEnough ==
  ASSUME Regular
  PROVE  Spec /\ [][Sound]_vars => []CountNeverShort
<1>1. PageAssumption /\ Books => CountNeverShort
  <2> SUFFICES ASSUME PageAssumption, Books, NEW h \in head
               PROVE  free_page[h] >=
                        Cardinality(UNION {{At(h, i) + j : j \in Bit \ pages[At(h, i)]} : i \in Index(h)})
    BY DEF CountNeverShort
  <2> DEFINE S == UNION {{At(h, i) + j : j \in Bit \ pages[At(h, i)]} : i \in Index(h)}
  <2>1. S \subseteq Open(h)
    <3> SUFFICES ASSUME NEW i \in Index(h), NEW j \in Bit \ pages[At(h, i)]
                 PROVE  At(h, i) + j \in Open(h)
      OBVIOUS
    <3>1. /\ h \in Nat /\ At(h, i) \in Nat /\ At(h, i) >= h /\ zone_count[h] * PAGES \in Nat
          /\ At(h, i) + PAGES <= h + zone_count[h] * PAGES
      BY Places DEF Books, IInv
    <3>2. PICK z \in zone_tree : z = At(h, i) /\ z \in Nat
      BY <3>1 DEF Books, IInv, Whole
    <3>3. PICK m \in Nat : m = zone_count[h] * PAGES
      BY <3>1
    <3>4. PAGES \in Nat /\ j \in 0 .. PAGES - 1 /\ j \notin pages[z]
      BY <3>2, ZoneNat DEF Bit
    <3>5. PICK p \in Int : p = At(h, i) + j
      BY <3>1, <3>4
    <3>6. p \in h .. h + m - 1 /\ z <= p /\ p < z + PAGES /\ p - z = j
      BY <3>1, <3>2, <3>3, <3>4, <3>5
    <3>7. ~IsMarked(p)
      BY <3>4, <3>6, MarkedIn DEF Books, IInv
    <3> QED
      BY <3>3, <3>5, <3>6, <3>7 DEF Open, Array
  <2>2. /\ IsFiniteSet(Open(h)) /\ Cardinality(Open(h)) \in Nat
        /\ free_page[h] \in Nat /\ free_page[h] >= Cardinality(Open(h))
    BY OpenFinite DEF Books, IInv, Counted
  <2> HIDE DEF S
  <2>3. IsFiniteSet(S) /\ Cardinality(S) <= Cardinality(Open(h))
    BY <2>1, <2>2, FS_Subset
  <2>4. Cardinality(S) \in Nat
    BY <2>3, FS_CardinalityType
  <2>5. free_page[h] >= Cardinality(S)
    BY <2>2, <2>3, <2>4
  <2> QED
    BY <2>5 DEF S
<1> QED
  BY <1>1, PageAssumption, Invariance, PTL

\* A clear run of n pages in a zone keeps its array among those that serve n.
LEMMA RoomServes ==
  ASSUME PageAssumption, Regular, Books, NEW n \in Sizes, NEW z \in zone_tree, NEW s \in Bit,
         s + n <= PAGES, (s .. s + n - 1) \cap pages[z] = {}, NEW lucky
  PROVE  Able(n, lucky) # {}
<1>0. PAGES \in Nat /\ n \in Nat /\ n > 0 /\ s \in 0 .. PAGES - 1 /\ s \in Nat
  BY SizesAre DEF Bit
<1>10. PICK h \in head : \E i \in Index(h) : z = At(h, i)
  BY DEF Books, IInv, Covered
<1>1. PICK i \in Index(h) : z = At(h, i)
  BY <1>10
<1>2. Fits(pages[z], n, s)
  BY <1>0, RunFits
<1>3. i \in Single(h, n)
  <2>1. n <= PAGES
    BY <1>0
  <2> QED
    BY <2>1, <1>1, <1>2, Zenon DEF Single
<1>4. /\ h \in Nat /\ z \in Nat /\ z >= h /\ z + PAGES <= h + zone_count[h] * PAGES
      /\ zone_count[h] * PAGES \in Nat
  BY <1>1, Places DEF Books, IInv
<1>5. PICK m \in Nat, a \in Nat, v \in Int : m = zone_count[h] * PAGES /\ a = z + s /\ v = a + n - 1
  <2>1. z + s \in Nat /\ z + s + n - 1 \in Int
    BY <1>0, <1>4
  <2> QED
    BY <2>1, <1>4
<1>6. a .. v \subseteq Open(h)
  <2> SUFFICES ASSUME NEW p \in a .. v PROVE p \in Open(h)
    OBVIOUS
  <2>1. p \in h .. h + m - 1 /\ z <= p /\ p < z + PAGES /\ p - z \in s .. s + n - 1 /\ p \in Int
    BY <1>0, <1>4, <1>5
  <2>2. ~IsMarked(p)
    BY <2>1, MarkedIn DEF Books, IInv
  <2> QED
    BY <2>1, <2>2, <1>5 DEF Open, Array
<1>7. /\ IsFiniteSet(Open(h)) /\ Cardinality(Open(h)) \in Nat
      /\ free_page[h] \in Nat /\ free_page[h] >= Cardinality(Open(h))
  BY OpenFinite DEF Books, IInv, Counted
<1>8. Cardinality(a .. v) = n /\ Cardinality(a .. v) <= Cardinality(Open(h))
  <2>0. a \in Int /\ v \in Int
    BY <1>5
  <2>1. Cardinality(a .. v) = IF a > v THEN 0 ELSE v - a + 1
    BY <2>0, FS_Interval
  <2>2. Cardinality(a .. v) = n
    BY <2>1, <1>0, <1>5
  <2> QED
    BY <2>2, <1>6, <1>7, FS_Subset
<1>9. free_page[h] >= n
  BY <1>0, <1>7, <1>8
<1> QED
  BY <1>3, <1>9 DEF Able

\* GrowsOnlyWhenFull: under the same conditions an array is added only for a
\* request that no zone has the pages for in one piece.
THEOREM GrowthIsNeeded ==
  ASSUME Regular
  PROVE  Spec /\ [][Sound]_vars => GrowsOnlyWhenFull
<1> DEFINE Needed ==
      zone_tree' # zone_tree =>
          \E c \in Client : \E n \in Sizes :
              /\ held[c] = None /\ held'[c] # None /\ held'[c][2] = n
              /\ \A z \in zone_tree : \A s \in Bit :
                    ~(s + n <= PAGES /\ (s .. s + n - 1) \cap pages[z] = {})
<1>1. PageAssumption /\ Books /\ [Next]_vars => [Needed]_vars
  <2> SUFFICES ASSUME PageAssumption, Books, Next, zone_tree' # zone_tree
               PROVE  \E c \in Client : \E n \in Sizes :
                        /\ held[c] = None /\ held'[c] # None /\ held'[c][2] = n
                        /\ \A z \in zone_tree : \A s \in Bit :
                              ~(s + n <= PAGES /\ (s .. s + n - 1) \cap pages[z] = {})
    BY DEF vars
  <2>1. PICK c \in Client : Allocate(c) \/ Deallocate(c)
    BY DEF Next
  <2>2. PICK n \in Sizes : Grow(c, n)
    BY <2>1 DEF Allocate, Deallocate, AllocateInZone, AllocateSpan,
                DeallocateInZone, DeallocateSpan, DeallocateNothing
  <2>3. held[c] = None /\ \E lucky \in SUBSET head : Able(n, lucky) = {}
    BY <2>2 DEF Grow
  <2>4. held'[c] # None /\ held'[c][2] = n
    <3>1. PICK b \in Bases : held' = [held EXCEPT ![c] = <<b, n>>]
      BY <2>2 DEF Grow
    <3>2. held'[c] = <<b, n>>
      BY <3>1 DEF Books, IInv, Types
    <3>3. <<b, n>> # None
      BY DEF PageAssumption
    <3> QED
      BY <3>2, <3>3
  <2>5. ASSUME NEW z \in zone_tree, NEW s \in Bit,
               s + n <= PAGES, (s .. s + n - 1) \cap pages[z] = {}
        PROVE  FALSE
    BY <2>3, <2>5, RoomServes
  <2> QED
    BY <2>3, <2>4, <2>5
<1>2. Spec => [][Next]_vars
  BY DEF Spec
<1> QED
  BY <1>1, <1>2, PageAssumption, Invariance, PTL DEF GrowsOnlyWhenFull

\* What is reported to who asks for one page is clear, and a zone that is clear
\* at its top has a page to give.
LEMMA OneIsRight ==
  ASSUME PageAssumption, Regular, IInv, 1 \in Sizes
  PROVE  SearchIsRight(1) /\ SpanIsRight(1)
<1>0. PAGES \in Nat /\ PAGES > 1
  BY SizesAre
<1>1. SearchIsRight(1)
  <2> SUFFICES ASSUME NEW z \in zone_tree, NEW s \in find(pages[z], 1)
               PROVE  s + 1 <= PAGES /\ (s .. s + 1 - 1) \cap pages[z] = {}
    BY DEF SearchIsRight
  <2>1. s \in Bit /\ Fits(pages[z], 1, s)
    BY DEF find, Least
  <2>2. s \notin pages[z]
    BY <2>1 DEF Fits
  <2>3. s \in Nat /\ s + 1 <= PAGES /\ s + 1 - 1 = s /\ s .. s = {s}
    BY <1>0, <2>1 DEF Bit
  <2> QED
    BY <2>2, <2>3
<1>2. SpanIsRight(1)
  <2> SUFFICES ASSUME NEW h \in head, Single(h, 1) = {}, NEW i \in Least(Span(h, 1, head))
               PROVE  FALSE
    BY DEF SpanIsRight
  <2> DEFINE t == ClearAtTop(pages[At(h, i)])
  <2>1. i \in Index(h) /\ t # 0
    BY DEF Least, Span
  <2>2. t \in 0 .. PAGES /\ \A j \in Bit : j >= PAGES - t => j \notin pages[At(h, i)]
    BY <1>0, TopIsClear
  <2> HIDE DEF t
  <2>3. PICK s \in Bit : s = PAGES - 1
    BY <1>0 DEF Bit
  <2>4. s \notin pages[At(h, i)] /\ s + 1 <= PAGES
    BY <1>0, <2>1, <2>2, <2>3
  <2>5. \A j \in s .. s + 1 - 1 : j \notin pages[At(h, i)]
    BY <1>0, <2>3, <2>4
  <2>6. Fits(pages[At(h, i)], 1, s)
    BY <1>0, <2>4, <2>5, RunFits
  <2>7. i \in Single(h, 1)
    BY <1>0, <2>1, <2>6 DEF Single
  <2> QED
    BY <2>7
<1> QED
  BY <1>1, <1>2

\* AllSound: requests for single pages are always served soundly, so what is
\* said above holds of them with no condition on the searches.
THEOREM SinglesAreSound ==
  ASSUME Regular, Sizes = {1}
  PROVE  Spec => AllSound
<1>1. PageAssumption /\ IInv /\ [Next]_vars => [Sound]_vars
  <2> SUFFICES ASSUME PageAssumption, IInv, Next,
                      NEW d \in Client, held[d] = None, held'[d] # None
               PROVE  SearchIsRight(held'[d][2]) /\ SpanIsRight(held'[d][2])
    BY DEF Sound
  <2>1. PICK c \in Client : Allocate(c) \/ Deallocate(c)
    BY DEF Next
  <2>2. held' = [held EXCEPT ![c] = None] \/ \E a : held' = [held EXCEPT ![c] = <<a, 1>>]
    BY <2>1 DEF Allocate, Deallocate, AllocateInZone, AllocateSpan, Grow,
                DeallocateInZone, DeallocateSpan, DeallocateNothing
  <2>3. held'[d][2] = 1
    BY <2>2 DEF IInv, Types
  <2> QED
    BY <2>3, OneIsRight
<1>2. PageAssumption /\ Init => IInv
  BY InitInv
<1>3. PageAssumption /\ IInv /\ [Next]_vars /\ [Sound]_vars => IInv'
  BY StepInv
<1> QED
  BY <1>1, <1>2, <1>3, PageAssumption, PTL DEF Spec, AllSound
=============================================================================
