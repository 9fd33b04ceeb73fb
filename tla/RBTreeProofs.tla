---------------------------- MODULE RBTreeProofs ----------------------------
(***************************************************************************)
(* Proofs about RBTree with one caller, for every set of keys and nodes:   *)
(* no step of an insertion hides a key, the tree is balanced between       *)
(* operations, a loop meets every node in the order of the keys, and the   *)
(* tree implements a growing set of keys.                                  *)
(***************************************************************************)
EXTENDS RBTree, TLAPS, WellFoundedInduction, FiniteSetTheorems

-----------------------------------------------------------------------------
(* The shape of a tree *)

Nodes == [Node -> [key : Key, col : {RED, BLACK}, parent : Node \cup {Null},
                   kid : [Side -> Node \cup {Null}]]]

\* Node m lies on side d of node n.
On(d, n, m) == IF d = "left" THEN m[1] < n[1] ELSE n[1] < m[1]

Up(N, n)     == N[n].parent
Kid(N, n, d) == N[n].kid[d]

(* u gives each node of the tree of root r those at and below it. *)
Typed(r, u) ==
    /\ r \in Node \cup {Null} /\ u \in [Node \cup {Null} -> SUBSET Node]
    /\ u[Null] = {} /\ (r # Null => r \in u[r])

Downs(N, r, u) ==
    \A n \in u[r] : \A d \in Side :
        Kid(N, n, d) # Null => Kid(N, n, d) \in u[r] /\ Up(N, Kid(N, n, d)) = n

Ups(N, r, u) ==
    /\ r # Null => Up(N, r) = Null
    /\ \A n \in u[r] : n # r => Up(N, n) \in u[r] /\ \E d \in Side : Kid(N, Up(N, n), d) = n

Parts(N, r, u) ==
    \A n \in u[r] : \A d \in Side :
        u[n] = {n} \cup u[Kid(N, n, d)] \cup u[Kid(N, n, Other(d))]

Sorted(N, r, u) ==
    \A n \in u[r] : \A d \in Side : \A m \in u[Kid(N, n, d)] : On(d, n, m)

Nested(N, r, u) ==
    \A n \in u[r] : \A m \in u[n] : u[m] \subseteq u[n] /\ (m # n => Up(N, m) \in u[n])

Keyed(r, u) == \A m, n \in u[r] : m[1] = n[1] => m = n

Shape(N, r, u) ==
    /\ Typed(r, u) /\ Downs(N, r, u) /\ Ups(N, r, u) /\ Parts(N, r, u)
    /\ Sorted(N, r, u) /\ Nested(N, r, u) /\ Keyed(r, u)

\* A node is not null, and its key is a number and a key.
LEMMA NodeFacts == Null \notin Node /\ IsFiniteSet(Node) /\ \A n \in Node : n[1] \in Nat /\ n[1] \in Key
<1>1. Key \subseteq Nat
  BY RBTreeAssumption DEF Key
<1>2. QED BY <1>1, RBTreeAssumption

\* There are two sides.
LEMMA Sides ==
  ASSUME NEW d \in Side
  PROVE  /\ Other(d) \in Side /\ Other(d) # d /\ Other(Other(d)) = d
         /\ \A e \in Side : e = d \/ e = Other(d)
BY DEF Side, Other

\* Lying on a side of a node is a strict order of the keys.
LEMMA OnSides ==
  ASSUME NEW d \in Side, NEW a \in Node, NEW b \in Node
  PROVE  /\ ~ On(d, a, a)
         /\ On(d, a, b) <=> On(Other(d), b, a)
         /\ ~ (On(d, a, b) /\ On(Other(d), a, b))
         /\ a[1] # b[1] => On(d, a, b) \/ On(Other(d), a, b)
         /\ \A c \in Node : On(d, a, b) /\ On(d, b, c) => On(d, a, c)
<1>1. a[1] \in Nat /\ b[1] \in Nat /\ \A c \in Node : c[1] \in Nat
  BY NodeFacts
<1>2. d = "left" \/ d = "right"
  BY DEF Side
<1>3. QED BY <1>1, <1>2 DEF On, Other

\* What a node's two parts are.
LEMMA Around ==
  ASSUME NEW N, NEW r, NEW u, Shape(N, r, u), NEW n \in u[r], NEW d \in Side
  PROVE  /\ n \in Node /\ n # Null /\ n \in u[n] /\ u[n] \subseteq u[r]
         /\ r \in Node /\ r # Null /\ r \in u[r]
         /\ Kid(N, n, d) \in u[r] \cup {Null}
         /\ Kid(N, n, d) # Null =>
              /\ Kid(N, n, d) \in Node /\ Up(N, Kid(N, n, d)) = n
              /\ Kid(N, n, d) \in u[Kid(N, n, d)] /\ On(d, n, Kid(N, n, d))
              /\ Kid(N, n, d) \in u[n] /\ Kid(N, n, d) # Kid(N, n, Other(d)) /\ Kid(N, n, d) # n
         /\ n \notin u[Kid(N, n, d)] /\ u[Kid(N, n, d)] \subseteq u[n]
         /\ u[Kid(N, n, d)] \cap u[Kid(N, n, Other(d))] = {}
<1> USE DEF Shape
<1>1. n \in Node /\ n # Null /\ r \in Node /\ r # Null /\ r \in u[r] /\ u[r] \subseteq Node
  BY NodeFacts DEF Typed
<1>2. /\ u[n] = {n} \cup u[Kid(N, n, d)] \cup u[Kid(N, n, Other(d))]
      /\ u[n] \subseteq u[r]
  BY <1>1 DEF Parts, Nested
<1>3. Other(d) \in Side
  BY Sides
<1>4. \A m \in u[Kid(N, n, d)] : On(d, n, m) /\ m \in Node
  BY <1>1, <1>2 DEF Sorted
<1>5. \A m \in u[Kid(N, n, Other(d))] : On(Other(d), n, m) /\ m \in Node
  BY <1>1, <1>2, <1>3 DEF Sorted
<1>6. n \notin u[Kid(N, n, d)]
  BY <1>1, <1>4, OnSides
<1>7. u[Kid(N, n, d)] \cap u[Kid(N, n, Other(d))] = {}
  BY <1>1, <1>4, <1>5, OnSides
<1>8. ASSUME Kid(N, n, d) # Null
      PROVE /\ Kid(N, n, d) \in u[r] /\ Up(N, Kid(N, n, d)) = n /\ Kid(N, n, d) \in Node
            /\ Kid(N, n, d) \in u[Kid(N, n, d)]
  <2>1. Kid(N, n, d) \in u[r] /\ Up(N, Kid(N, n, d)) = n
    BY <1>8 DEF Downs
  <2>2. Kid(N, n, d) \in u[Kid(N, n, d)]
    BY <2>1 DEF Parts
  <2>3. QED BY <1>1, <2>1, <2>2
<1>9. QED BY <1>1, <1>2, <1>4, <1>6, <1>7, <1>8

-----------------------------------------------------------------------------
(* Rotations *)

\* The child that comes up when p goes down on side d, and the one that changes sides.
Riser(N, p, d) == Kid(N, p, Other(d))
Mover(N, p, d) == Kid(N, Riser(N, p, d), d)

\* What a rotation makes of the links of the nodes in T.
Turn(N, r, M, q, p, d, T) ==
    LET s == Riser(N, p, d)
        m == Mover(N, p, d)
    IN
    /\ q = IF p = r THEN s ELSE r
    /\ \A n \in T :
          Up(M, n) = IF n = p THEN s ELSE IF n = m THEN p ELSE IF n = s THEN Up(N, p) ELSE Up(N, n)
    /\ Kid(M, p, d) = Kid(N, p, d) /\ Kid(M, p, Other(d)) = m
    /\ Kid(M, s, d) = p /\ Kid(M, s, Other(d)) = Kid(N, s, Other(d))
    /\ \A n \in T \ {p, s} : \A e \in Side :
          Kid(M, n, e) = IF Kid(N, n, e) = p THEN s ELSE Kid(N, n, e)

Swung(N, u, p, d) ==
    [u EXCEPT ![p] = {p} \cup u[Kid(N, p, d)] \cup u[Mover(N, p, d)], ![Riser(N, p, d)] = u[p]]

\* The nodes a rotation is about are where they are.
LEMMA Turning ==
  ASSUME NEW N, NEW r, NEW u, Shape(N, r, u), NEW p \in u[r], NEW d \in Side, Riser(N, p, d) # Null
  PROVE  LET s == Riser(N, p, d)
             m == Mover(N, p, d)
         IN /\ s \in u[r] /\ s # p /\ s # r /\ Up(N, s) = p /\ s \in u[p] /\ s \in u[s]
            /\ m # Null => m \in u[r] /\ m # p /\ m # s /\ m # r /\ Up(N, m) = s /\ m \in u[p]
            /\ p # r => Up(N, p) \in u[r] /\ Up(N, p) # p /\ Up(N, p) # s /\ Up(N, p) # m
            /\ p = r => Up(N, p) = Null
            /\ p \notin u[s] /\ s \notin u[m] /\ p \notin u[m] /\ s \notin u[Kid(N, p, d)] /\ p \notin u[Kid(N, p, d)]
            /\ m \notin u[Kid(N, p, d)]
            /\ u[p] = {p} \cup u[Kid(N, p, d)] \cup u[s]
            /\ u[s] = {s} \cup u[m] \cup u[Kid(N, s, Other(d))]
<1> DEFINE s == Riser(N, p, d)
           m == Mover(N, p, d)
           o == Other(d)
<1> USE DEF Riser, Mover
<1>1. o \in Side /\ Other(o) = d /\ o # d /\ d \in Side
  BY Sides
<1>2. /\ s \in u[r] /\ s \in Node /\ Up(N, s) = p /\ s \in u[s] /\ s \in u[p] /\ s # p /\ p \notin u[s]
      /\ u[s] \cap u[Kid(N, p, d)] = {} /\ p \notin u[Kid(N, p, d)] /\ p \in Node /\ u[s] \subseteq u[p]
  BY <1>1, Around
<1>3. u[p] = {p} \cup u[Kid(N, p, d)] \cup u[s] /\ u[s] = {s} \cup u[m] \cup u[Kid(N, s, Other(d))]
  BY <1>1, <1>2 DEF Shape, Parts
<1>4. s \notin u[m] /\ u[m] \subseteq u[s] /\ (m # Null => m \in u[r] /\ Up(N, m) = s /\ m \in u[m] /\ m # s /\ m \in Node)
  BY <1>1, <1>2, Around
<1>5. (r # Null => Up(N, r) = Null) /\ r # Null /\ Null \notin u[r]
  BY Around, NodeFacts DEF Shape, Ups, Typed
<1>6. s # r /\ m # r
  BY <1>2, <1>4, <1>5
<1>7. ASSUME p # r
      PROVE Up(N, p) \in u[r] /\ Up(N, p) # p /\ Up(N, p) # s /\ Up(N, p) # m
  <2> DEFINE x == Up(N, p)
  <2>1. x \in u[r] /\ \E e \in Side : Kid(N, x, e) = p
    BY <1>7 DEF Shape, Ups
  <2>2. PICK e \in Side : Kid(N, x, e) = p
    BY <2>1
  <2>3. p \in u[x] /\ x # p /\ x \notin u[p]
    BY <2>1, <2>2, <1>2, Around, NodeFacts
  <2>4. QED BY <2>1, <2>3, <1>2, <1>4, NodeFacts
<1>8. m \notin u[Kid(N, p, d)]
  <2>1. CASE m = Null
    BY <2>1, Around, <1>5
  <2>2. CASE m # Null
    BY <2>2, <1>2, <1>4
  <2>3. QED BY <2>1, <2>2
<1>9. QED BY <1>2, <1>3, <1>4, <1>5, <1>6, <1>7, <1>8

\* A rotation keeps the shape of the tree and its nodes.
LEMMA TurnShape ==
  ASSUME NEW N, NEW r, NEW u, Shape(N, r, u), NEW p \in u[r], NEW d \in Side, Riser(N, p, d) # Null,
         NEW M, NEW q, Turn(N, r, M, q, p, d, u[r])
  PROVE  Shape(M, q, Swung(N, u, p, d)) /\ Swung(N, u, p, d)[q] = u[r]
<1> DEFINE s == Riser(N, p, d)
           m == Mover(N, p, d)
           o == Other(d)
           T == u[r]
           a == Kid(N, p, d)
           b == Kid(N, s, o)
           w == Up(N, p)
           v == Swung(N, u, p, d)
<1>1. /\ s \in T /\ s # p /\ s # r /\ Up(N, s) = p /\ s \in u[p] /\ s \in u[s]
      /\ m # Null => m \in T /\ m # p /\ m # s /\ m # r /\ Up(N, m) = s /\ m \in u[p]
      /\ p # r => w \in T /\ w # p /\ w # s /\ w # m
      /\ p = r => w = Null
      /\ p \notin u[s] /\ s \notin u[m] /\ p \notin u[m] /\ s \notin u[a] /\ p \notin u[a]
      /\ m \notin u[a]
      /\ u[p] = {p} \cup u[a] \cup u[s]
      /\ u[s] = {s} \cup u[m] \cup u[b]
  BY Turning
<1>2. /\ q = IF p = r THEN s ELSE r
      /\ \A n \in T : Up(M, n) = IF n = p THEN s ELSE IF n = m THEN p ELSE IF n = s THEN w ELSE Up(N, n)
      /\ Kid(M, p, d) = a /\ Kid(M, p, o) = m
      /\ Kid(M, s, d) = p /\ Kid(M, s, o) = b
      /\ \A n \in T \ {p, s} : \A e \in Side : Kid(M, n, e) = IF Kid(N, n, e) = p THEN s ELSE Kid(N, n, e)
  BY DEF Turn
<1>3. /\ T \subseteq Node /\ Null \notin T /\ r \in T /\ p \in T /\ s \in Node /\ p \in Node /\ Null \notin Node
      /\ u \in [Node \cup {Null} -> SUBSET Node] /\ u[Null] = {}
      /\ a \in T \cup {Null} /\ b \in T \cup {Null} /\ m \in T \cup {Null}
      /\ o \in Side /\ Other(o) = d /\ o # d /\ d \in Side /\ \A e \in Side : e = d \/ e = o
  <2>1. o \in Side /\ Other(o) = d /\ o # d /\ d \in Side /\ \A e \in Side : e = d \/ e = o
    BY Sides
  <2>2. u \in [Node \cup {Null} -> SUBSET Node] /\ u[Null] = {} /\ r \in Node \cup {Null}
    BY DEF Shape, Typed
  <2>3. Null \notin Node /\ r \in T /\ s \in Node /\ p \in Node /\ T \subseteq Node /\ Null \notin T
    BY <1>1, <2>2, Around, NodeFacts
  <2>4. a \in T \cup {Null} /\ b \in T \cup {Null} /\ m \in T \cup {Null}
    BY <1>1, <2>1, Around
  <2>5. QED BY <2>1, <2>2, <2>3, <2>4
<1>4. /\ v \in [Node \cup {Null} -> SUBSET Node]
      /\ v[p] = {p} \cup u[a] \cup u[m] /\ v[s] = u[p]
      /\ \A x \in Node \cup {Null} : x # p /\ x # s => v[x] = u[x]
  <2>1. u[p] \subseteq Node /\ u[a] \subseteq Node /\ u[m] \subseteq Node /\ s \in Node
    BY <1>3
  <2>2. v = [u EXCEPT ![p] = {p} \cup u[a] \cup u[m], ![s] = u[p]]
    BY Zenon DEF Swung
  <2> HIDE DEF v, s, m, a, b, w
  <2>3. QED BY <1>1, <1>3, <2>1, <2>2
<1>5. v[q] = T
  BY <1>1, <1>2, <1>3, <1>4
<1>6. Typed(q, v)
  BY <1>1, <1>2, <1>3, <1>4, <1>5 DEF Typed
\* A node other than w keeps its children, except p and s.
<1>7. ASSUME NEW n \in T, NEW e \in Side
      PROVE  /\ Kid(N, n, e) = p => n = w /\ p # r
             /\ Kid(N, n, e) = s => n = p
             /\ Kid(N, n, e) = m /\ m # Null => n = s
             /\ Kid(N, n, e) # Null => Kid(N, n, e) \in T /\ Up(N, Kid(N, n, e)) = n
  <2>1. Kid(N, n, e) # Null => Kid(N, n, e) \in T /\ Up(N, Kid(N, n, e)) = n
    BY DEF Shape, Downs
  <2>2. r \in T => Up(N, r) = Null
    BY <1>3 DEF Shape, Ups
  <2>3. QED BY <1>1, <1>3, <2>1, <2>2
<1>8. Downs(M, q, v)
  <2>1. SUFFICES ASSUME NEW n \in T, NEW e \in Side, Kid(M, n, e) # Null
                 PROVE  Kid(M, n, e) \in T /\ Up(M, Kid(M, n, e)) = n
    BY <1>5 DEF Downs
  <2> HIDE DEF v, s, m, a, b, w, T
  <2>2. CASE n = p /\ e = d
    <3>1. a # Null /\ a \in T /\ Up(N, a) = p
      BY <2>1, <2>2, <1>2, <1>7, <1>3 DEF a
    <3>2. a # p /\ a # s /\ a # m
      BY <3>1, <1>1, <1>3
    <3>3. QED BY <2>2, <3>1, <3>2, <1>2
  <2>3. CASE n = p /\ e = o
    BY <2>1, <2>3, <1>1, <1>2
  <2>4. CASE n = s /\ e = d
    BY <2>1, <2>4, <1>1, <1>2, <1>3
  <2>5. CASE n = s /\ e = o
    <3>1. b # Null /\ b \in T /\ Up(N, b) = s
      BY <2>1, <2>5, <1>1, <1>2, <1>7, <1>3 DEF b
    <3>2. b # m
      <4>1. CASE m = Null
        BY <3>1, <4>1
      <4>2. CASE m # Null
        <5>1. s \in u[r] /\ Kid(N, s, d) # Null
          BY <4>2, <1>1 DEF m, Mover, s, T
        <5>2. Kid(N, s, d) # Kid(N, s, Other(d))
          BY <5>1, Around
        <5>3. QED BY <5>2 DEF b, m, Mover, s
      <4>3. QED BY <4>1, <4>2
    <3>3. QED BY <2>5, <3>1, <3>2, <1>1, <1>2, <1>3
  <2>6. CASE n # p /\ n # s
    <3>1. CASE Kid(N, n, e) = p
      BY <2>6, <3>1, <1>1, <1>2, <1>7
    <3>2. CASE Kid(N, n, e) # p
      <4>1. Kid(M, n, e) = Kid(N, n, e) /\ Kid(N, n, e) \in T /\ Up(N, Kid(N, n, e)) = n
        BY <2>1, <2>6, <3>2, <1>2, <1>7
      <4>2. Kid(N, n, e) # s /\ Kid(N, n, e) # m
        BY <2>1, <2>6, <4>1, <1>7
      <4>3. QED BY <3>2, <4>1, <4>2, <1>2
    <3>3. QED BY <3>1, <3>2
  <2>7. QED BY <2>2, <2>3, <2>4, <2>5, <2>6, <1>3
<1>9. Ups(M, q, v)
  <2>1. Up(M, q) = Null /\ Up(N, r) = Null
    <3>1. Up(N, r) = Null
      BY <1>3 DEF Shape, Ups
    <3>2. QED BY <3>1, <1>1, <1>2, <1>3
  <2>2. ASSUME NEW n \in T, n # q
        PROVE Up(M, n) \in T /\ \E e \in Side : Kid(M, Up(M, n), e) = n
    <3>1. n # r => Up(N, n) \in T /\ \E e \in Side : Kid(N, Up(N, n), e) = n
      BY DEF Shape, Ups
    <3> HIDE DEF v, s, m, a, b, w, T
    <3>2. CASE n = p
      BY <3>2, <1>1, <1>2, <1>3
    <3>3. CASE n = s
      <4>1. p # r /\ Up(M, s) = w /\ w \in T /\ w # p /\ w # s
        BY <2>2, <3>3, <1>1, <1>2
      <4>2. PICK e \in Side : Kid(N, w, e) = p
        <5>1. p \in T /\ (p # r => \E e \in Side : Kid(N, Up(N, p), e) = p)
          BY DEF Shape, Ups, T
        <5>2. QED BY <4>1, <5>1 DEF w
      <4>3. Kid(M, w, e) = s
        BY <4>1, <4>2, <1>2
      <4>4. QED BY <3>3, <4>1, <4>3
    <3>4. CASE n = m
      BY <3>4, <1>1, <1>2, <1>3
    <3>5. CASE n # p /\ n # s /\ n # m
      <4>1. n # r /\ Up(M, n) = Up(N, n)
        BY <2>2, <3>5, <1>2
      <4>2. PICK e \in Side : Kid(N, Up(N, n), e) = n
        BY <3>1, <4>1
      <4>3. CASE Up(N, n) = p
        <5>1. e = d
          BY <4>2, <4>3, <3>5, <1>3 DEF s, Riser
        <5>2. QED BY <4>1, <4>2, <4>3, <5>1, <3>1, <1>2, <1>3 DEF a
      <4>4. CASE Up(N, n) = s
        <5>1. e = o
          BY <4>2, <4>4, <3>5, <1>3 DEF m, Mover, s
        <5>2. QED BY <4>1, <4>2, <4>4, <5>1, <3>1, <1>2, <1>3 DEF b
      <4>5. CASE Up(N, n) # p /\ Up(N, n) # s
        BY <4>1, <4>2, <4>5, <3>1, <3>5, <1>2
      <4>6. QED BY <4>3, <4>4, <4>5
    <3>6. QED BY <3>2, <3>3, <3>4, <3>5
  <2>3. QED BY <1>5, <2>1, <2>2 DEF Ups
\* Every node has the parts it had, but p and s.
<1>10. ASSUME NEW n \in T, n # p, n # s, NEW e \in Side
       PROVE  v[n] = u[n] /\ v[Kid(M, n, e)] = u[Kid(N, n, e)]
  <2>1. Kid(N, n, e) \in Node \cup {Null} /\ Kid(N, n, e) # s
    BY <1>3, <1>7, <1>10
  <2> HIDE DEF v, s, m, a, b, w
  <2>2. QED BY <1>2, <1>3, <1>4, <1>10, <2>1
<1>11. /\ v[Kid(M, p, d)] = u[a] /\ v[Kid(M, p, o)] = u[m]
       /\ v[Kid(M, s, d)] = v[p] /\ v[Kid(M, s, o)] = u[b]
  <2>1. a # p /\ a # s /\ m # p /\ m # s /\ b # p /\ b # s
    <3>1. a # p /\ a # s
      <4>1. a # Null => a \in u[a]
        BY Around
      <4> HIDE DEF v, s, m, a, b, w
      <4>2. QED BY <4>1, <1>1, <1>3
    <3>2. m # p /\ m # s
      BY <1>1, <1>3
    <3>3. b # p /\ b # s
      <4>1. b # Null => b # s /\ b \in u[b] /\ u[b] \subseteq u[s]
        BY <1>1, <1>3, Around
      <4> HIDE DEF v, s, m, a, b, w
      <4>2. QED BY <4>1, <1>1, <1>3
    <3>4. QED BY <3>1, <3>2, <3>3
  <2> HIDE DEF v, s, m, a, b, w
  <2>2. QED BY <2>1, <1>2, <1>3, <1>4
<1>12. Parts(M, q, v)
  <2>1. ASSUME NEW n \in T, NEW e \in Side
        PROVE  v[n] = {n} \cup v[Kid(M, n, e)] \cup v[Kid(M, n, Other(e))]
    <3>1. CASE n # p /\ n # s
      <4>1. Other(e) \in Side
        BY Sides
      <4>2. u[n] = {n} \cup u[Kid(N, n, e)] \cup u[Kid(N, n, Other(e))]
        BY DEF Shape, Parts
      <4>3. v[n] = u[n] /\ v[Kid(M, n, e)] = u[Kid(N, n, e)] /\ v[Kid(M, n, Other(e))] = u[Kid(N, n, Other(e))]
        BY <1>10, <3>1, <4>1
      <4> HIDE DEF v
      <4>4. QED BY <4>2, <4>3, Zenon
    <3> HIDE DEF v, s, m, a, b, w
    <3>2. e = d \/ e = o
      BY <1>3
    <3>3. CASE n = p
      BY <3>2, <3>3, <1>1, <1>3, <1>4, <1>11
    <3>4. CASE n = s
      BY <3>2, <3>4, <1>1, <1>3, <1>4, <1>11
    <3>5. QED BY <3>1, <3>3, <3>4
  <2>2. QED BY <1>5, <2>1 DEF Parts
<1>13. Sorted(M, q, v)
  <2>1. ASSUME NEW n \in T, NEW e \in Side, NEW x \in v[Kid(M, n, e)]
        PROVE  On(e, n, x)
    <3>1. \A y \in T : \A f \in Side : \A z \in u[Kid(N, y, f)] : On(f, y, z)
      BY DEF Shape, Sorted
    <3>2. CASE n # p /\ n # s
      BY <1>10, <2>1, <3>1, <3>2
    <3>3. e = d \/ e = o
      BY <1>3
    <3>4. CASE n = p
      <4>1. (\A z \in u[a] : On(d, p, z)) /\ \A z \in u[s] : On(o, p, z)
        BY <1>3, <3>1 DEF Riser
      <4> HIDE DEF v, s, m, a, b, w
      <4>2. QED BY <3>3, <3>4, <4>1, <1>1, <1>11, <2>1
    <3>5. CASE n = s
      <4>1. (\A z \in u[a] : On(d, p, z)) /\ On(o, p, s)
        BY <1>1, <1>3, <3>1 DEF Riser
      <4>2. (\A z \in u[m] : On(d, s, z)) /\ \A z \in u[b] : On(o, s, z)
        BY <1>1, <1>3, <3>1 DEF Mover
      <4>3. \A z \in u[a] \cup u[m] \cup u[b] : z \in Node
        BY <1>3
      <4> HIDE DEF v, s, m, a, b, w
      <4>4. On(d, s, p)
        BY <4>1, <1>3, OnSides
      <4>5. \A z \in u[a] : On(d, s, z)
        BY <4>1, <4>3, <4>4, <1>3, OnSides
      <4>6. QED BY <3>3, <3>5, <4>2, <4>4, <4>5, <1>4, <1>11, <2>1
    <3>6. QED BY <3>2, <3>4, <3>5
  <2>2. QED BY <1>5, <2>1 DEF Sorted
<1>14. Nested(M, q, v)
  <2>1. /\ \A x \in T : \A y \in u[x] : u[y] \subseteq u[x] /\ (y # x => Up(N, y) \in u[x])
        /\ \A x \in T : u[x] \subseteq T /\ x \in u[x]
    BY <1>3, Around DEF Shape, Nested
  <2>2. ASSUME NEW n \in T, NEW x \in v[n]
        PROVE  v[x] \subseteq v[n] /\ (x # n => Up(M, x) \in v[n])
    <3> HIDE DEF v, s, m, a, b, w, T
    <3>1. v[n] \subseteq T /\ x \in T /\ x \in Node
      BY <2>1, <2>2, <1>1, <1>3, <1>4
    <3>2. v[p] \subseteq u[p] /\ s \notin v[p]
      BY <1>1, <1>4
    <3>3. CASE n # p /\ n # s
      <4>1. v[n] = u[n] /\ x \in u[n] /\ n \in Node
        BY <2>2, <3>3, <1>3, <1>4
      <4>2. (s \in u[n] <=> p \in u[n])
        BY <2>1, <3>3, <1>1
      <4>3. v[x] \subseteq u[n]
        BY <2>1, <3>1, <3>2, <4>1, <4>2, <1>4
      <4>4. p \in u[n] => w \in u[n]
        BY <2>1, <3>3 DEF w
      <4>5. x # n => Up(M, x) \in u[n]
        <5>1. Up(M, x) = IF x = p THEN s ELSE IF x = m THEN p ELSE IF x = s THEN w ELSE Up(N, x)
          BY <3>1, <1>2
        <5>2. x # n => Up(N, x) \in u[n]
          BY <2>1, <2>2, <4>1
        <5>3. x = m => Up(N, x) = s
          BY <3>1, <1>1, <1>3
        <5>4. QED BY <4>1, <4>2, <4>4, <5>1, <5>2, <5>3
      <4>6. QED BY <4>1, <4>3, <4>5
    <3>4. CASE n = p
      <4>1. x # s
        BY <2>2, <3>2, <3>4
      <4>2. x # p => x \in u[a] \/ x \in u[m]
        BY <2>2, <3>4, <1>4
      <4>3. v[x] \subseteq v[p]
        <5>1. CASE x = p
          BY <5>1
        <5>2. CASE x # p
          <6>1. v[x] = u[x]
            BY <4>1, <5>2, <3>1, <1>4
          <6>2. x \in u[a] => a \in T
            BY <1>3
          <6>3. x \in u[m] => m \in T
            BY <1>3
          <6>4. QED BY <2>1, <4>2, <5>2, <6>1, <6>2, <6>3, <1>4
        <5>3. QED BY <5>1, <5>2
      <4>4. ASSUME x # p PROVE Up(M, x) \in v[p]
        <5>1. CASE x = m
          BY <5>1, <4>4, <3>1, <1>2, <1>4
        <5>2. CASE x # m
          <6>1. Up(M, x) = Up(N, x)
            BY <4>1, <4>4, <5>2, <3>1, <1>2
          <6>2. CASE x = a
            <7>1. Up(N, x) = p
              BY <6>2, <1>3, <1>7, <3>1 DEF a, T
            <7>2. QED BY <6>1, <7>1, <1>4
          <6>3. CASE x # a
            <7>1. x \in u[a] => a \in T
              BY <1>3
            <7>2. x \in u[m] => m \in T
              BY <1>3
            <7>3. QED BY <2>1, <4>2, <4>4, <5>2, <6>1, <6>3, <7>1, <7>2, <1>4
          <6>4. QED BY <6>2, <6>3
        <5>3. QED BY <5>1, <5>2
      <4>5. QED BY <3>4, <4>3, <4>4
    <3>5. CASE n = s
      <4>1. x \in u[p] /\ v[s] = u[p] /\ p \in T
        BY <2>2, <3>5, <1>4 DEF T
      <4>2. v[x] \subseteq u[p]
        BY <2>1, <3>1, <3>2, <4>1, <1>4
      <4>3. x # s => Up(M, x) \in u[p]
        BY <2>1, <3>1, <4>1, <1>1, <1>2
      <4>4. QED BY <3>5, <4>1, <4>2, <4>3
    <3>6. QED BY <3>3, <3>4, <3>5
  <2>3. QED BY <1>5, <2>2 DEF Nested
<1>15. Keyed(q, v)
  BY <1>5 DEF Shape, Keyed
<1>16. QED BY <1>5, <1>6, <1>8, <1>9, <1>12, <1>13, <1>14, <1>15 DEF Shape

-----------------------------------------------------------------------------
(* A new leaf *)

\* Node x is hung at side d of p.
Hung(N, M, p, d, x, T) ==
    /\ Up(M, x) = p /\ \A e \in Side : Kid(M, x, e) = Null
    /\ \A n \in T : /\ Up(M, n) = Up(N, n)
                    /\ \A e \in Side : Kid(M, n, e) = IF n = p /\ e = d THEN x ELSE Kid(N, n, e)

\* Whoever has n below goes to that side for x.
WayTo(N, u, r, n, x) == \A m \in u[r] : \A e \in Side : n \in u[Kid(N, m, e)] => On(e, m, x)

Grown(u, r, p, x) ==
    [n \in Node \cup {Null} |-> IF n = x THEN {x} ELSE IF n \in u[r] /\ p \in u[n] THEN u[n] \cup {x} ELSE u[n]]

\* A node hung where a search for its key ends keeps the shape, and is the one
\* node added.
LEMMA HungShape ==
  ASSUME NEW N, NEW r, NEW u, Shape(N, r, u), NEW p \in u[r], NEW d \in Side, Kid(N, p, d) = Null,
         NEW x \in Node, x \notin u[r], On(d, p, x), WayTo(N, u, r, p, x), \A n \in u[r] : n[1] # x[1],
         NEW M, Hung(N, M, p, d, x, u[r])
  PROVE  Shape(M, r, Grown(u, r, p, x)) /\ Grown(u, r, p, x)[r] = u[r] \cup {x}
<1> DEFINE T == u[r]
           v == Grown(u, r, p, x)
<1>1. /\ Up(M, x) = p /\ \A e \in Side : Kid(M, x, e) = Null
      /\ \A n \in T : /\ Up(M, n) = Up(N, n)
                      /\ \A e \in Side : Kid(M, n, e) = IF n = p /\ e = d THEN x ELSE Kid(N, n, e)
  BY DEF Hung
<1>2. /\ T \subseteq Node /\ Null \notin T /\ r \in T /\ p \in T /\ Null \notin Node /\ x # Null /\ x # p /\ x # r
      /\ r \in Node
      /\ u \in [Node \cup {Null} -> SUBSET Node] /\ u[Null] = {}
      /\ \A n \in T : u[n] \subseteq T /\ n \in u[n] /\ n # x
  <2>1. u \in [Node \cup {Null} -> SUBSET Node] /\ u[Null] = {} /\ r \in Node \cup {Null}
    BY DEF Shape, Typed
  <2>2. QED BY <2>1, Around, NodeFacts
<1>3. /\ v[x] = {x} /\ v[Null] = {}
      /\ \A n \in T : v[n] = IF p \in u[n] THEN u[n] \cup {x} ELSE u[n]
  BY <1>2 DEF Grown
<1>4. v[r] = T \cup {x}
  BY <1>2, <1>3
<1>5. Typed(r, v)
  <2>1. v \in [Node \cup {Null} -> SUBSET Node]
    BY <1>2 DEF Grown
  <2> HIDE DEF v
  <2>2. QED BY <2>1, <1>2, <1>3, <1>4 DEF Typed
<1>6. \A n \in T : \A e \in Side :
          /\ Kid(N, n, e) = Null \/ (Kid(N, n, e) \in T /\ Up(N, Kid(N, n, e)) = n)
          /\ \A m \in u[Kid(N, n, e)] : On(e, n, m)
          /\ u[n] = {n} \cup u[Kid(N, n, e)] \cup u[Kid(N, n, Other(e))]
          /\ (p \in u[Kid(N, n, e)] => On(e, n, x)) /\ p \in {p}
          /\ Other(e) \in Side /\ Other(e) # e
          /\ n \notin u[Kid(N, n, e)] /\ u[Kid(N, n, e)] \cap u[Kid(N, n, Other(e))] = {}
  BY Around, Sides DEF Shape, Downs, Sorted, Parts, WayTo
<1> HIDE DEF v
<1>7. Downs(M, r, v)
  <2>1. ASSUME NEW n \in T \cup {x}, NEW e \in Side, Kid(M, n, e) # Null
        PROVE  Kid(M, n, e) \in T \cup {x} /\ Up(M, Kid(M, n, e)) = n
    BY <1>1, <1>2, <1>6, <2>1
  <2>2. QED BY <1>4, <2>1 DEF Downs
<1>8. Ups(M, r, v)
  <2>1. /\ Up(N, r) = Null
        /\ \A n \in T : n # r => Up(N, n) \in T /\ \E e \in Side : Kid(N, Up(N, n), e) = n
    BY <1>2 DEF Shape, Ups
  <2>2. ASSUME NEW n \in T \cup {x}, n # r
        PROVE  Up(M, n) \in T \cup {x} /\ \E e \in Side : Kid(M, Up(M, n), e) = n
    <3>1. CASE n = x
      BY <3>1, <1>1, <1>2
    <3>2. CASE n # x
      <4>1. n \in T /\ Up(M, n) = Up(N, n) /\ Up(N, n) \in T
        BY <2>1, <2>2, <3>2, <1>1
      <4>2. PICK e \in Side : Kid(N, Up(N, n), e) = n
        BY <2>1, <2>2, <4>1
      <4>3. Kid(M, Up(N, n), e) = n
        BY <4>1, <4>2, <1>1, <1>2
      <4>4. QED BY <4>1, <4>3
    <3>3. QED BY <3>1, <3>2
  <2>3. QED BY <1>1, <1>2, <1>4, <2>1, <2>2 DEF Ups
<1>9. \A n \in T : \A e \in Side :
         v[Kid(M, n, e)] = IF (n = p /\ e = d) \/ p \in u[Kid(N, n, e)] THEN u[Kid(N, n, e)] \cup {x} ELSE u[Kid(N, n, e)]
  <2>1. ASSUME NEW n \in T, NEW e \in Side
        PROVE  v[Kid(M, n, e)] = IF (n = p /\ e = d) \/ p \in u[Kid(N, n, e)] THEN u[Kid(N, n, e)] \cup {x} ELSE u[Kid(N, n, e)]
    <3>1. CASE n = p /\ e = d
      BY <3>1, <1>1, <1>2, <1>3
    <3>2. CASE ~ (n = p /\ e = d)
      <4>1. Kid(M, n, e) = Kid(N, n, e) /\ (Kid(N, n, e) = Null \/ Kid(N, n, e) \in T)
        BY <3>2, <1>1, <1>6
      <4>2. QED BY <3>2, <4>1, <1>2, <1>3
    <3>3. QED BY <3>1, <3>2
  <2>2. QED BY <2>1
<1>10. Parts(M, r, v)
  <2>1. ASSUME NEW n \in T \cup {x}, NEW e \in Side
        PROVE  v[n] = {n} \cup v[Kid(M, n, e)] \cup v[Kid(M, n, Other(e))]
    <3>1. CASE n = x
      BY <3>1, <1>1, <1>3, Sides
    <3>2. CASE n # x
      <4>1. n \in T /\ Other(e) \in Side /\ (d = e \/ d = Other(e))
        BY <3>2, <1>6, Sides
      <4> DEFINE f == Other(e)
                 A == u[Kid(N, n, e)]
                 B == u[Kid(N, n, f)]
      <4>2. u[n] = {n} \cup A \cup B /\ n \notin A /\ n \notin B /\ A \cap B = {} /\ f # e
        <5>1. u[n] = {n} \cup A \cup B /\ n \notin A /\ A \cap B = {} /\ f # e
          BY <1>6, <4>1
        <5>2. n \notin B
          BY <1>6, <4>1
        <5>3. QED BY <5>1, <5>2
      <4>3. /\ v[n] = IF p \in u[n] THEN u[n] \cup {x} ELSE u[n]
            /\ v[Kid(M, n, e)] = IF (n = p /\ e = d) \/ p \in A THEN A \cup {x} ELSE A
            /\ v[Kid(M, n, f)] = IF (n = p /\ f = d) \/ p \in B THEN B \cup {x} ELSE B
        BY <1>3, <1>9, <4>1
      <4> HIDE DEF A, B, f
      <4>4. v[n] = {n} \cup v[Kid(M, n, e)] \cup v[Kid(M, n, f)]
        BY <4>1, <4>2, <4>3 DEF f
      <4>5. QED BY <4>4 DEF f
    <3>3. QED BY <3>1, <3>2
  <2>2. QED BY <1>4, <2>1 DEF Parts
<1>11. Sorted(M, r, v)
  <2>1. ASSUME NEW n \in T \cup {x}, NEW e \in Side, NEW m \in v[Kid(M, n, e)]
        PROVE  On(e, n, m)
    <3>1. n # x
      BY <2>1, <1>1, <1>3
    <3>2. n \in T /\ (m \in u[Kid(N, n, e)] \/ (m = x /\ ((n = p /\ e = d) \/ p \in u[Kid(N, n, e)])))
      BY <2>1, <3>1, <1>9
    <3>3. QED BY <3>2, <1>6
  <2>2. QED BY <1>4, <2>1 DEF Sorted
<1>12. Nested(M, r, v)
  <2>1. \A n \in T : \A m \in u[n] : u[m] \subseteq u[n] /\ (m # n => Up(N, m) \in u[n])
    BY DEF Shape, Nested
  <2>2. ASSUME NEW n \in T \cup {x}, NEW m \in v[n]
        PROVE  v[m] \subseteq v[n] /\ (m # n => Up(M, m) \in v[n])
    <3>1. CASE n = x
      BY <3>1, <2>2, <1>3
    <3>2. CASE n # x
      <4>1. n \in T /\ v[n] = IF p \in u[n] THEN u[n] \cup {x} ELSE u[n]
        BY <3>2, <1>3
      <4>2. CASE m = x
        BY <4>1, <4>2, <2>2, <1>1, <1>2, <1>3
      <4>3. CASE m # x
        <5>1. m \in u[n] /\ m \in T
          BY <4>1, <4>3, <2>2, <1>2
        <5>2. u[m] \subseteq u[n] /\ v[m] = IF p \in u[m] THEN u[m] \cup {x} ELSE u[m]
          BY <4>1, <5>1, <2>1, <1>3
        <5>3. m # n => Up(M, m) \in u[n]
          BY <4>1, <5>1, <2>1, <1>1
        <5>4. QED BY <4>1, <5>2, <5>3
      <4>4. QED BY <4>2, <4>3
    <3>3. QED BY <3>1, <3>2
  <2>3. QED BY <1>4, <2>2 DEF Nested
<1>13. Keyed(r, v)
  BY <1>4 DEF Shape, Keyed
<1>14. QED BY <1>4, <1>5, <1>7, <1>8, <1>10, <1>11, <1>12, <1>13 DEF Shape, v

Alone(x) == [n \in Node \cup {Null} |-> IF n = x THEN {x} ELSE {}]

\* One node with no links is a tree.
LEMMA AloneShape ==
  ASSUME NEW M, NEW x \in Node, Up(M, x) = Null, \A e \in Side : Kid(M, x, e) = Null
  PROVE  Shape(M, x, Alone(x)) /\ Alone(x)[x] = {x}
<1> DEFINE v == Alone(x)
<1>1. /\ v \in [Node \cup {Null} -> SUBSET Node] /\ v[x] = {x} /\ v[Null] = {}
  BY NodeFacts DEF Alone
<1> HIDE DEF v
<1>2. /\ Typed(x, v) /\ Downs(M, x, v) /\ Ups(M, x, v) /\ Parts(M, x, v)
  BY <1>1, Sides DEF Typed, Downs, Ups, Parts
<1>3. /\ Sorted(M, x, v) /\ Nested(M, x, v) /\ Keyed(x, v)
  BY <1>1, Sides DEF Sorted, Nested, Keyed
<1>4. QED BY <1>1, <1>2, <1>3 DEF Shape, v

\* So is none.
LEMMA EmptyShape ==
  ASSUME NEW M
  PROVE  Shape(M, Null, [n \in Node \cup {Null} |-> {}])
<1> DEFINE v == [n \in Node \cup {Null} |-> {}]
<1>1. /\ v \in [Node \cup {Null} -> SUBSET Node] /\ v[Null] = {}
  BY NodeFacts
<1> HIDE DEF v
<1>2. QED BY <1>1 DEF Shape, Typed, Downs, Ups, Parts, Sorted, Nested, Keyed

\* Recolouring leaves the shape alone.
LEMMA SameShape ==
  ASSUME NEW N, NEW r, NEW u, Shape(N, r, u), NEW M,
         \A n \in u[r] : Up(M, n) = Up(N, n) /\ \A d \in Side : Kid(M, n, d) = Kid(N, n, d)
  PROVE  Shape(M, r, u)
<1>1. \A n \in u[r] : \A d \in Side : Kid(N, n, d) # Null => Kid(N, n, d) \in u[r]
  BY DEF Shape, Downs
<1>2. Downs(M, r, u)
  BY <1>1 DEF Shape, Downs
<1>3. Ups(M, r, u)
  BY DEF Shape, Ups, Typed
<1>4. Parts(M, r, u)
  BY Sides DEF Shape, Parts
<1>5. Sorted(M, r, u)
  BY DEF Shape, Sorted
<1>6. Nested(M, r, u)
  <2>1. \A n \in u[r] : u[n] \subseteq u[r]
    BY Around DEF Side
  <2>2. QED BY <2>1 DEF Shape, Nested
<1>7. QED BY <1>2, <1>3, <1>4, <1>5, <1>6 DEF Shape

\* A search that goes from n toward x stays on the way to it.
LEMMA WayRoot ==
  ASSUME NEW N, NEW r, NEW u, Shape(N, r, u), NEW x
  PROVE  WayTo(N, u, r, r, x)
<1>1. SUFFICES ASSUME NEW m \in u[r], NEW e \in Side, r \in u[Kid(N, m, e)] PROVE FALSE
  BY DEF WayTo
<1>2. r \in u[r] /\ r # Null /\ Null \notin u[r] /\ m \in u[r] /\ u[m] \subseteq u[r] /\ Kid(N, m, e) # Null
  BY <1>1, Around, NodeFacts DEF Shape, Typed
<1>3. Kid(N, m, e) \in u[r] /\ Up(N, Kid(N, m, e)) = m /\ Up(N, r) = Null
  BY <1>1, <1>2 DEF Shape, Downs, Ups
<1>4. r # Kid(N, m, e) => Up(N, r) \in u[Kid(N, m, e)]
  BY <1>1, <1>3 DEF Shape, Nested
<1>5. u[Kid(N, m, e)] \subseteq u[r]
  BY <1>3, Around
<1>6. QED BY <1>2, <1>3, <1>4, <1>5

\* Whoever goes to the side of n where x belongs is still on the way to x.
LEMMA WayDown ==
  ASSUME NEW N, NEW r, NEW u, Shape(N, r, u), NEW n \in u[r], NEW d \in Side, Kid(N, n, d) # Null,
         NEW x, WayTo(N, u, r, n, x), On(d, n, x)
  PROVE  WayTo(N, u, r, Kid(N, n, d), x)
<1> DEFINE c == Kid(N, n, d)
<1>1. SUFFICES ASSUME NEW m \in u[r], NEW e \in Side, c \in u[Kid(N, m, e)] PROVE On(e, m, x)
  BY DEF WayTo
<1>2. c \in u[r] /\ Up(N, c) = n
  BY DEF Shape, Downs
<1>3. Kid(N, m, e) # Null
  BY <1>1 DEF Shape, Typed
<1>4. Kid(N, m, e) \in u[r] /\ Up(N, Kid(N, m, e)) = m
  BY <1>3 DEF Shape, Downs
<1>5. CASE c = Kid(N, m, e)
  <2>1. m = n
    BY <1>2, <1>4, <1>5
  <2>2. e = d
    BY <1>5, <2>1, Around, Sides
  <2>3. QED BY <2>1, <2>2
<1>6. CASE c # Kid(N, m, e)
  <2>1. n \in u[Kid(N, m, e)]
    BY <1>1, <1>2, <1>4, <1>6 DEF Shape, Nested
  <2>2. QED BY <2>1 DEF WayTo
<1>7. QED BY <1>5, <1>6

-----------------------------------------------------------------------------
(* Induction and subtrees *)

Less == {p \in Nat \X Nat : p[1] < p[2]}

\* A set of numbers that is not empty has a least one.
LEMMA LeastNat ==
  ASSUME NEW X \in SUBSET Nat, X # {}
  PROVE  \E i \in X : \A j \in X : i <= j
<1>1. Less = OpToRel(<, Nat)
  BY DEF Less, OpToRel
<1>2. IsWellFoundedOn(Less, Nat)
  BY <1>1, NatLessThanWellFounded DEF Less, OpToRel
<1>3. PICK i \in X : \A j \in X : ~ (<<j, i>> \in Less)
  BY <1>2, WFMin
<1>4. \A j \in X : ~ (j < i)
  BY <1>3 DEF Less
<1>5. QED BY <1>3, <1>4

\* What passes from each number to the next holds of all.
LEMMA Upto ==
  ASSUME NEW D \in Nat, NEW X, 0 \in X, \A i \in 1 .. D : i - 1 \in X => i \in X
  PROVE  \A i \in 0 .. D : i \in X
<1> DEFINE B == {i \in 0 .. D : i \notin X}
<1>1. SUFFICES ASSUME B # {} PROVE FALSE
  OBVIOUS
<1>2. B \in SUBSET Nat
  OBVIOUS
<1>3. PICK i \in B : \A j \in B : i <= j
  BY <1>1, <1>2, LeastNat
<1>4. i # 0 /\ i \in 1 .. D /\ i - 1 \in 0 .. D /\ ~ (i <= i - 1)
  BY <1>3
<1>5. i - 1 \in X
  BY <1>3, <1>4
<1>6. QED BY <1>3, <1>4, <1>5

\* A function can be followed from any point for any number of steps.
Follows(f, x, D, S) == \E g \in [0 .. D -> S] : g[0] = x /\ \A i \in 1 .. D : g[i] = f[g[i - 1]]

\* So the loops of the model's operators are defined: a function can be
\* followed for any number of steps.
LEMMA Followed ==
  ASSUME NEW S, NEW f \in [S -> S], NEW x \in S, NEW D \in Nat
  PROVE  Follows(f, x, D, S)
<1> DEFINE Ok(n) == Follows(f, x, n, S)
           X == {n \in 0 .. D : Ok(n)}
<1>1. 0 \in X
  <2> DEFINE h == [i \in 0 .. 0 |-> x]
  <2>1. h \in [0 .. 0 -> S] /\ h[0] = x /\ \A i \in 1 .. 0 : h[i] = f[h[i - 1]]
    OBVIOUS
  <2> HIDE DEF h
  <2>2. Ok(0)
    BY <2>1 DEF Follows
  <2>3. QED BY <2>2
<1>2. ASSUME NEW n \in 1 .. D, n - 1 \in X PROVE n \in X
  <2>1. PICK g \in [0 .. n - 1 -> S] : g[0] = x /\ \A i \in 1 .. n - 1 : g[i] = f[g[i - 1]]
    BY <1>2 DEF Follows
  <2> DEFINE h == [i \in 0 .. n |-> IF i = n THEN f[g[n - 1]] ELSE g[i]]
  <2>2. n - 1 \in 0 .. n - 1 /\ 0 \in 0 .. n - 1 /\ 0 # n /\ \A i \in 0 .. n : i = n \/ i \in 0 .. n - 1
    BY <1>2
  <2>3. h \in [0 .. n -> S]
    BY <2>2
  <2>4. h[0] = x
    BY <2>1, <2>2
  <2>5. ASSUME NEW i \in 1 .. n PROVE h[i] = f[h[i - 1]]
    <3>1. i \in 0 .. n /\ i - 1 \in 0 .. n /\ i - 1 # n /\ i - 1 \in 0 .. n - 1
      OBVIOUS
    <3>2. CASE i = n
      BY <3>1, <3>2
    <3>3. CASE i # n
      <4>1. i \in 1 .. n - 1
        BY <3>3
      <4>2. QED BY <2>1, <3>1, <3>3, <4>1
    <3>4. QED BY <3>2, <3>3
  <2> HIDE DEF h
  <2>6. Ok(n)
    BY <2>3, <2>4, <2>5 DEF Follows
  <2>7. QED BY <2>6
<1> HIDE DEF Ok
<1>3. D \in X
  <2> HIDE DEF X
  <2>1. \A i \in 0 .. D : i \in X
    BY <1>1, <1>2, Upto
  <2>2. QED BY <2>1
<1>4. QED BY <1>3 DEF Ok

\* Sizes of parts.
LEMMA Smaller ==
  ASSUME NEW A \in SUBSET Node, NEW B \in SUBSET Node, A \subseteq B
  PROVE  /\ Depth \in Nat /\ Cardinality(A) \in Nat /\ Cardinality(B) \in Nat /\ Cardinality(B) <= Depth
         /\ Cardinality(A) <= Cardinality(B)
         /\ \A x \in B : x \notin A => Cardinality(A) + 1 <= Cardinality(B)
         /\ \A x \in A : 1 <= Cardinality(A)
<1>1. IsFiniteSet(Node) /\ Depth = Cardinality(Node)
  BY NodeFacts DEF Depth
<1>2. IsFiniteSet(A) /\ IsFiniteSet(B)
  BY <1>1, FS_Subset
<1>3. Depth \in Nat /\ Cardinality(A) \in Nat /\ Cardinality(B) \in Nat
  BY <1>1, <1>2, FS_CardinalityType
<1>4. Cardinality(B) <= Depth /\ Cardinality(A) <= Cardinality(B) /\ (Cardinality(A) = Cardinality(B) => A = B)
  BY <1>1, <1>2, FS_Subset
<1>5. Cardinality(A) = 0 <=> A = {}
  BY <1>2, FS_EmptySet
<1>6. \A x \in B : x \notin A => Cardinality(A) + 1 <= Cardinality(B)
  BY <1>3, <1>4
<1>7. \A x \in A : 1 <= Cardinality(A)
  BY <1>3, <1>5
<1>8. QED BY <1>3, <1>4, <1>6, <1>7

\* What is above a node.
LEMMA Above ==
  ASSUME NEW N, NEW r, NEW u, Shape(N, r, u), NEW n \in u[r]
  PROVE  /\ n = r <=> Up(N, n) = Null
         /\ n # r => /\ Up(N, n) \in u[r] /\ Up(N, n) \in Node /\ n \in u[Up(N, n)] /\ Up(N, n) \notin u[n]
                     /\ u[n] \subseteq u[Up(N, n)]
                     /\ \E d \in Side : Kid(N, Up(N, n), d) = n
<1>1. n \in Node /\ r # Null /\ n # Null /\ u[r] \subseteq Node /\ Null \notin Node
  BY Around, NodeFacts DEF Side
<1>2. n = r => Up(N, n) = Null
  BY <1>1 DEF Shape, Ups
<1>3. ASSUME n # r
      PROVE /\ Up(N, n) \in u[r] /\ Up(N, n) \in Node /\ n \in u[Up(N, n)] /\ Up(N, n) \notin u[n]
            /\ u[n] \subseteq u[Up(N, n)]
            /\ \E d \in Side : Kid(N, Up(N, n), d) = n
  <2>1. Up(N, n) \in u[r] /\ \E d \in Side : Kid(N, Up(N, n), d) = n
    BY <1>3 DEF Shape, Ups
  <2>2. PICK d \in Side : Kid(N, Up(N, n), d) = n
    BY <2>1
  <2>3. QED BY <1>1, <2>1, <2>2, Around
<1>4. QED BY <1>1, <1>2, <1>3

\* Two nodes part somewhere.
LEMMA Parting ==
  ASSUME NEW N, NEW r, NEW u, Shape(N, r, u), NEW x \in u[r], NEW y \in u[r]
  PROVE  \E a \in u[r] : /\ x \in u[a] /\ y \in u[a]
                         /\ \A d \in Side : ~ (x \in u[Kid(N, a, d)] /\ y \in u[Kid(N, a, d)])
<1> DEFINE C == {a \in u[r] : x \in u[a] /\ y \in u[a]}
           X == {Cardinality(u[a]) : a \in C}
<1>1. r \in u[r] /\ u[r] \subseteq Node /\ \A a \in u[r] : u[a] \subseteq u[r]
  BY Around DEF Side
<1>2. X \in SUBSET Nat /\ X # {}
  <2>1. \A a \in C : Cardinality(u[a]) \in Nat
    BY <1>1, Smaller
  <2>2. QED BY <1>1, <2>1
<1>3. PICK i \in X : \A j \in X : i <= j
  BY <1>2, LeastNat
<1>4. PICK a \in C : i = Cardinality(u[a])
  BY <1>3
<1>5. ASSUME NEW d \in Side, x \in u[Kid(N, a, d)], y \in u[Kid(N, a, d)] PROVE FALSE
  <2> DEFINE k == Kid(N, a, d)
  <2>1. a \in u[r] /\ k # Null
    BY <1>5 DEF Shape, Typed
  <2>2. k \in u[r] /\ u[k] \subseteq u[a] /\ a \notin u[k] /\ a \in u[a]
    BY <2>1, Around
  <2>3. k \in C
    BY <1>5, <2>2
  <2>4. Cardinality(u[k]) + 1 <= Cardinality(u[a]) /\ Cardinality(u[k]) \in Nat /\ Cardinality(u[a]) \in Nat
    BY <1>1, <2>1, <2>2, Smaller
  <2>5. Cardinality(u[a]) <= Cardinality(u[k])
    BY <1>3, <1>4, <2>3
  <2>6. QED BY <2>4, <2>5
<1>6. QED BY <1>4, <1>5

\* What is outside a part lies on one side of all of it.
LEMMA Convex ==
  ASSUME NEW N, NEW r, NEW u, Shape(N, r, u), NEW n \in u[r], NEW x \in u[r], x \notin u[n],
         NEW y \in u[n], NEW z \in u[n], NEW d \in Side, On(d, x, y)
  PROVE  On(d, x, z)
<1>1. PICK a \in u[r] : /\ x \in u[a] /\ n \in u[a]
                        /\ \A e \in Side : ~ (x \in u[Kid(N, a, e)] /\ n \in u[Kid(N, a, e)])
  BY Parting
<1>2. /\ u[n] \subseteq u[r] /\ u[r] \subseteq Node /\ n \in u[n] /\ n # a
      /\ Other(d) \in Side
  BY <1>1, Around, Sides
<1>3. y \in Node /\ z \in Node /\ x \in Node /\ a \in Node
  BY <1>1, <1>2
<1>4. PICK e \in Side : n \in u[Kid(N, a, e)]
  BY <1>1, <1>2 DEF Shape, Parts
<1>5. Kid(N, a, e) # Null /\ Kid(N, a, e) \in u[r]
  BY <1>1, <1>4 DEF Shape, Typed, Downs
<1>6. u[n] \subseteq u[Kid(N, a, e)]
  BY <1>4, <1>5 DEF Shape, Nested
<1>7. On(e, a, y) /\ On(e, a, z)
  BY <1>1, <1>4, <1>6 DEF Shape, Sorted
<1>8. x = a \/ x \in u[Kid(N, a, Other(e))]
  BY <1>1, <1>4 DEF Shape, Parts
<1>9. Other(e) \in Side /\ Other(Other(e)) = e
  BY Sides
<1>10. x # a => On(Other(e), a, x)
  BY <1>1, <1>8, <1>9 DEF Shape, Sorted
<1>11. x # a => On(e, x, a)
  BY <1>3, <1>9, <1>10, OnSides
<1>12. On(e, x, y) /\ On(e, x, z)
  BY <1>3, <1>7, <1>11, OnSides
<1>13. d = e
  BY <1>3, <1>12, OnSides, Sides
<1>14. QED BY <1>12, <1>13

-----------------------------------------------------------------------------
(* The program's tree, and the search *)

\* The tree of the state has shape u.
Drawn(u) == node \in Nodes /\ (\A n \in Node : node[n].key = n[1]) /\ Shape(node, root, u)

\* What the program's tree is made of.
LEMMA DrawnFacts ==
  ASSUME NEW u, Drawn(u)
  PROVE  /\ root \in Node \cup {Null} /\ Null \notin Node /\ u \in [Node \cup {Null} -> SUBSET Node] /\ u[Null] = {}
         /\ root # Null => root \in u[root]
         /\ u[root] \subseteq Node
         /\ \A n \in Node : /\ node[n].key = n[1] /\ n[1] \in Nat
                            /\ node[n].parent \in Node \cup {Null}
                            /\ Up(node, n) = node[n].parent
                            /\ \A d \in Side : /\ node[n].kid[d] \in Node \cup {Null}
                                               /\ Kid(node, n, d) = node[n].kid[d]
         /\ \A n \in u[root] : u[n] \subseteq u[root] /\ n \in u[n] /\ Cardinality(u[n]) \in Nat /\ 1 <= Cardinality(u[n])
                               /\ Cardinality(u[n]) <= Depth
         /\ Depth \in Nat
         /\ "left" \in Side /\ "right" \in Side
<1>1. Shape(node, root, u) /\ node \in Nodes /\ \A n \in Node : node[n].key = n[1]
  BY DEF Drawn
<1>2. /\ root \in Node \cup {Null} /\ u \in [Node \cup {Null} -> SUBSET Node] /\ u[Null] = {}
      /\ root # Null => root \in u[root]
  BY <1>1 DEF Shape, Typed
<1>3. \A n \in u[root] : u[n] \subseteq u[root] /\ n \in u[n]
  BY <1>1, Around DEF Side
<1>4. \A n \in Node : /\ node[n].parent \in Node \cup {Null}
                      /\ \A d \in Side : node[n].kid[d] \in Node \cup {Null}
  BY <1>1 DEF Nodes
<1>5. u[root] \subseteq Node
  BY <1>2
<1>6. \A n \in u[root] : u[n] \in SUBSET Node
  BY <1>3, <1>5
<1>7. \A n \in u[root] : Cardinality(u[n]) \in Nat /\ 1 <= Cardinality(u[n]) /\ Cardinality(u[n]) <= Depth
  BY <1>3, <1>6, Smaller
<1>8. Depth \in Nat
  BY Smaller
<1>9. QED BY <1>1, <1>2, <1>3, <1>4, <1>5, <1>7, <1>8, NodeFacts DEF Up, Kid, Side

\* A child is smaller than its parent.
LEMMA KidSmaller ==
  ASSUME NEW u, Drawn(u), NEW n \in u[root], NEW d \in Side, node[n].kid[d] # Null
  PROVE  /\ node[n].kid[d] \in u[root] /\ u[node[n].kid[d]] \subseteq u[n] /\ On(d, n, node[n].kid[d])
         /\ Cardinality(u[node[n].kid[d]]) + 1 <= Cardinality(u[n])
<1> DEFINE k == node[n].kid[d]
<1>1. Shape(node, root, u) /\ k = Kid(node, n, d) /\ n \in Node
  BY DrawnFacts DEF Drawn
<1>2. k \in u[root] /\ u[k] \subseteq u[n] /\ n \notin u[k] /\ n \in u[n] /\ On(d, n, k)
  BY <1>1, Around
<1>3. u[k] \in SUBSET Node /\ u[n] \in SUBSET Node
  BY <1>2, DrawnFacts
<1>4. Cardinality(u[k]) + 1 <= Cardinality(u[n])
  BY <1>2, <1>3, Smaller
<1>5. QED BY <1>2, <1>4

\* The search from the root comes to every key of the tree.
LEMMA FindIs ==
  ASSUME NEW u, Drawn(u), NEW x \in u[root]
  PROVE  Find(x[1]) \in Node /\ Find(x[1])[1] = x[1]
<1> DEFINE k == x[1]
           next(n) == IF n = Null \/ node[n].key = k THEN n ELSE node[n].kid[Toward(n, k)]
           step(p) == [i \in 0 .. Depth |-> IF i = 0 THEN root ELSE next(p[i - 1])]
           f == [n \in Node \cup {Null} |-> next(n)]
           c == CHOOSE p : p = step(p)
<1>1. /\ \A n \in Node : Toward(n, k) \in Side /\ (n[1] < k => Toward(n, k) = "right") /\ (~ (n[1] < k) => Toward(n, k) = "left")
  BY DrawnFacts DEF Toward
<1>2. f \in [Node \cup {Null} -> Node \cup {Null}]
  BY <1>1, DrawnFacts
<1>0. Depth \in Nat /\ root \in Node \cup {Null}
  BY DrawnFacts
<1>3. PICK g \in [0 .. Depth -> Node \cup {Null}] : g[0] = root /\ \A i \in 1 .. Depth : g[i] = f[g[i - 1]]
  <2> DEFINE S == Node \cup {Null}
  <2>1. f \in [S -> S] /\ root \in S
    BY <1>0, <1>2
  <2> HIDE DEF f, S
  <2>2. Follows(f, root, Depth, S)
    BY <1>0, <2>1, Followed
  <2>3. QED BY <2>2 DEF Follows, S
<1>4. g = step(g)
  <2>1. ASSUME NEW i \in 0 .. Depth PROVE g[i] = IF i = 0 THEN root ELSE next(g[i - 1])
    <3>1. CASE i = 0
      BY <1>3, <3>1
    <3>2. CASE i # 0
      <4>1. i \in 1 .. Depth /\ i - 1 \in 0 .. Depth
        BY <1>0, <3>2
      <4>2. g[i] = f[g[i - 1]] /\ g[i - 1] \in Node \cup {Null}
        BY <1>3, <4>1
      <4>3. QED BY <3>2, <4>2
    <3>3. QED BY <3>1, <3>2
  <2>2. QED BY <2>1
<1>5. c = step(c)
  <2> HIDE DEF step
  <2>1. QED BY <1>4
<1>6. Find(k) = c[Depth]
  BY DEF Find
<1>7. c[0] = root /\ \A i \in 1 .. Depth : c[i] = next(c[i - 1])
  <2> HIDE DEF c, next
  <2>1. Depth \in Nat
    BY DrawnFacts
  <2>2. \A i \in 0 .. Depth : c[i] = IF i = 0 THEN root ELSE next(c[i - 1])
    BY <1>5
  <2>3. QED BY <2>1, <2>2
<1> HIDE DEF c, next, step, f
<1> DEFINE Ok(i) == /\ c[i] \in u[root]
                    /\ \/ c[i][1] = k
                       \/ x \in u[c[i]] /\ i + Cardinality(u[c[i]]) <= Depth
           X == {i \in 0 .. Depth : Ok(i)}
<1>8. 0 \in X
  BY <1>7, DrawnFacts
<1>9. ASSUME NEW i \in 1 .. Depth, i - 1 \in X PROVE i \in X
  <2> DEFINE n == c[i - 1]
             d == Toward(n, k)
  <2>1. n \in u[root] /\ n \in Node /\ node[n].key = n[1] /\ n[1] \in Nat /\ k \in Nat /\ x \in Node /\ n # Null
    BY <1>9, DrawnFacts
  <2>2. c[i] = IF n[1] = k THEN n ELSE node[n].kid[d]
    BY <1>7, <2>1 DEF next
  <2>3. CASE n[1] = k
    BY <2>1, <2>2, <2>3
  <2>4. CASE n[1] # k
    <3>1. x \in u[n] /\ i - 1 + Cardinality(u[n]) <= Depth /\ x # n /\ Cardinality(u[n]) \in Nat
      BY <1>9, <2>4, DrawnFacts
    <3>2. d \in Side /\ On(d, n, x) /\ c[i] = node[n].kid[d] /\ c[i] = Kid(node, n, d)
      BY <1>1, <2>1, <2>2, <2>4, DrawnFacts DEF On
    <3>3. x \in u[Kid(node, n, d)] \/ x \in u[Kid(node, n, Other(d))]
      BY <2>1, <3>1, <3>2 DEF Drawn, Shape, Parts
    <3>4. x \notin u[Kid(node, n, Other(d))]
      <4>1. Other(d) \in Side /\ (x \in u[Kid(node, n, Other(d))] => On(Other(d), n, x))
        BY <2>1, <3>2, Sides DEF Drawn, Shape, Sorted
      <4>2. QED BY <2>1, <3>2, <4>1, OnSides
    <3>5. x \in u[c[i]] /\ c[i] # Null
      BY <3>2, <3>3, <3>4, DrawnFacts
    <3>6. c[i] \in u[root] /\ Cardinality(u[c[i]]) + 1 <= Cardinality(u[n])
      <4> HIDE DEF n, d
      <4>1. node[n].kid[d] # Null
        BY <3>2, <3>5
      <4>2. node[n].kid[d] \in u[root] /\ Cardinality(u[node[n].kid[d]]) + 1 <= Cardinality(u[n])
        BY <2>1, <3>2, <4>1, KidSmaller
      <4>3. QED BY <3>2, <4>2
    <3>7. Cardinality(u[c[i]]) \in Nat
      BY <3>6, DrawnFacts
    <3>8. i + Cardinality(u[c[i]]) <= Depth
      <4> HIDE DEF n
      <4>1. QED BY <1>0, <3>1, <3>6, <3>7
    <3>9. QED BY <3>5, <3>6, <3>8
  <2>5. QED BY <2>3, <2>4
<1>10. \A i \in 0 .. Depth : i \in X
  <2> HIDE DEF X
  <2>1. QED BY <1>8, <1>9, Upto, DrawnFacts
<1>11. Ok(Depth)
  BY <1>10, DrawnFacts
<1>12. c[Depth] \in Node /\ c[Depth][1] = k
  BY <1>11, DrawnFacts
<1>13. QED BY <1>6, <1>12

-----------------------------------------------------------------------------
(* The nodes of the tree *)

\* Level by level, the nodes of the tree are those the shape says.
LEMMA TreeIs ==
  ASSUME NEW u, Drawn(u)
  PROVE  InTree = u[root]
<1> DEFINE under(A) == {node[n].kid[d] : n \in A, d \in Side} \ {Null}
           step(p) == [i \in 0 .. Depth |-> IF i = 0 THEN {root} \ {Null} ELSE under(p[i - 1])]
           f == [A \in SUBSET Node |-> under(A)]
           T == u[root]
<1>0. Depth \in Nat /\ {root} \ {Null} \in SUBSET Node
  BY DrawnFacts
<1>1. \A A \in SUBSET Node : under(A) \in SUBSET Node
  BY DrawnFacts
<1>2. Level = CHOOSE p : p = step(p)
  BY DEF Level
<1>3. PICK g \in [0 .. Depth -> SUBSET Node] :
          g[0] = {root} \ {Null} /\ \A i \in 1 .. Depth : g[i] = f[g[i - 1]]
  <2> DEFINE S == SUBSET Node
             x == {root} \ {Null}
  <2>1. f \in [S -> S] /\ x \in S
    BY <1>0, <1>1
  <2> HIDE DEF f, S, x
  <2>2. Follows(f, x, Depth, S)
    BY <1>0, <2>1, Followed
  <2>3. QED BY <2>2 DEF Follows, S, x
<1>4. g = step(g)
  <2>1. ASSUME NEW i \in 0 .. Depth PROVE g[i] = IF i = 0 THEN {root} \ {Null} ELSE under(g[i - 1])
    <3>1. CASE i = 0
      BY <1>3, <3>1
    <3>2. CASE i # 0
      <4>1. i \in 1 .. Depth /\ i - 1 \in 0 .. Depth
        BY <1>0, <3>2
      <4> HIDE DEF under, f
      <4>2. g[i] = f[g[i - 1]] /\ g[i - 1] \in SUBSET Node
        BY <1>3, <4>1
      <4>3. f[g[i - 1]] = under(g[i - 1])
        BY <4>2 DEF f
      <4>4. QED BY <3>2, <4>2, <4>3
    <3>3. QED BY <3>1, <3>2
  <2> HIDE DEF under
  <2>2. QED BY <2>1, <1>3
<1>5. Level = step(Level)
  <2> HIDE DEF step
  <2>1. QED BY <1>2, <1>4
<1>6. Level[0] = {root} \ {Null} /\ \A i \in 1 .. Depth : Level[i] = under(Level[i - 1])
  <2> DEFINE c == Level
  <2> HIDE DEF step
  <2>0. c = step(c)
    BY <1>5
  <2> HIDE DEF c, under
  <2>1. \A i \in 0 .. Depth : c[i] = IF i = 0 THEN {root} \ {Null} ELSE under(c[i - 1])
    BY <2>0 DEF step
  <2>2. c[0] = {root} \ {Null} /\ \A i \in 1 .. Depth : c[i] = under(c[i - 1])
    BY <1>0, <2>1
  <2>3. QED BY <2>2 DEF c
<1> DEFINE L(i) == Level[i]
<1> HIDE DEF step, f
<1>7. L(0) = {root} \ {Null} /\ \A i \in 1 .. Depth : L(i) = under(L(i - 1))
  BY <1>6
<1> HIDE DEF L
<1>8. \A i \in 0 .. Depth : L(i) \subseteq T
  <2> DEFINE X == {i \in 0 .. Depth : L(i) \subseteq T}
  <2>1. 0 \in X
    BY <1>0, <1>7, DrawnFacts
  <2>2. ASSUME NEW i \in 1 .. Depth, i - 1 \in X PROVE i \in X
    <3>1. \A n \in T : \A d \in Side : node[n].kid[d] # Null => node[n].kid[d] \in T
      BY KidSmaller
    <3>2. L(i - 1) \subseteq T /\ L(i) = under(L(i - 1))
      BY <1>7, <2>2
    <3>3. L(i) \subseteq T
      BY <3>1, <3>2
    <3>4. QED BY <3>3
  <2> HIDE DEF X
  <2>3. \A i \in 0 .. Depth : i \in X
    BY <1>0, <2>1, <2>2, Upto
  <2>4. QED BY <2>3 DEF X
<1>9. ASSUME NEW x \in T PROVE \E i \in 0 .. Depth : x \in L(i)
  <2> DEFINE Deep(i) == \E n \in L(i) : x \in u[n] /\ i + Cardinality(u[n]) <= Depth
             X == {i \in 0 .. Depth : (\E j \in 0 .. Depth : x \in L(j)) \/ Deep(i)}
  <2>1. 0 \in X
    <3>1. root # Null /\ root \in T
      BY <1>9, DrawnFacts
    <3>2. root \in L(0) /\ x \in u[root] /\ 0 + Cardinality(u[root]) <= Depth
      BY <1>7, <1>9, <3>1, DrawnFacts
    <3>3. QED BY <1>0, <3>2
  <2>2. ASSUME NEW i \in 1 .. Depth, i - 1 \in X PROVE i \in X
    <3>0. i \in 0 .. Depth /\ i - 1 \in 0 .. Depth
      BY <1>0
    <3>1. CASE \E j \in 0 .. Depth : x \in L(j)
      BY <3>0, <3>1
    <3>2. CASE ~ \E j \in 0 .. Depth : x \in L(j)
      <4>1. PICK n \in L(i - 1) : x \in u[n] /\ i - 1 + Cardinality(u[n]) <= Depth
        BY <2>2, <3>2
      <4>2. n \in T /\ x # n
        BY <1>8, <3>0, <3>2, <4>1
      <4>3. PICK d \in Side : x \in u[Kid(node, n, d)]
        BY <4>1, <4>2, DrawnFacts, Sides DEF Drawn, Shape, Parts
      <4>4. Kid(node, n, d) = node[n].kid[d] /\ node[n].kid[d] # Null
        BY <4>2, <4>3, DrawnFacts
      <4> DEFINE k == node[n].kid[d]
      <4>5. k \in T /\ Cardinality(u[k]) + 1 <= Cardinality(u[n])
        BY <4>2, <4>4, KidSmaller
      <4>6. k \in L(i)
        BY <1>7, <4>1, <4>4
      <4>7. Cardinality(u[k]) \in Nat /\ Cardinality(u[n]) \in Nat /\ x \in u[k]
        BY <4>2, <4>3, <4>4, <4>5, DrawnFacts
      <4> HIDE DEF k
      <4>8. i + Cardinality(u[k]) <= Depth
        BY <1>0, <4>1, <4>5, <4>7
      <4>9. QED BY <3>0, <4>6, <4>7, <4>8
    <3>3. QED BY <3>1, <3>2
  <2> HIDE DEF X
  <2>3. \A i \in 0 .. Depth : i \in X
    BY <1>0, <2>1, <2>2, Upto
  <2>4. Depth \in X /\ Depth \in 0 .. Depth
    BY <1>0, <2>3
  <2>5. ~ Deep(Depth)
    <3>1. SUFFICES ASSUME NEW n \in L(Depth), Depth + Cardinality(u[n]) <= Depth PROVE FALSE
      OBVIOUS
    <3>2. n \in T
      BY <1>8, <2>4
    <3>3. Cardinality(u[n]) \in Nat /\ 1 <= Cardinality(u[n])
      BY <3>2, DrawnFacts
    <3>4. QED BY <1>0, <3>1, <3>3
  <2>6. QED BY <2>4, <2>5 DEF X
<1>10. InTree = UNION {L(i) : i \in 0 .. Depth}
  BY DEF InTree, L
<1>11. QED BY <1>8, <1>9, <1>10

-----------------------------------------------------------------------------
(* Ancestors and the leftmost node *)

\* The ancestors of a node are those it is below of.
LEMMA AncestorsAre ==
  ASSUME NEW u, Drawn(u), NEW x \in u[root]
  PROVE  Ancestors(x) = {m \in u[root] : x \in u[m]}
<1> DEFINE next(n) == IF n = Null THEN Null ELSE node[n].parent
           step(p) == [i \in 0 .. Depth |-> IF i = 0 THEN x ELSE next(p[i - 1])]
           f == [n \in (Node \cup {Null}) |-> next(n)]
           c == CHOOSE p : p = step(p)
<1>0. Depth \in Nat /\ x \in (Node \cup {Null})
  BY DrawnFacts
<1>1. \A n \in (Node \cup {Null}) : next(n) \in (Node \cup {Null})
  BY DrawnFacts
<1>2. PICK g \in [0 .. Depth -> (Node \cup {Null})] : g[0] = x /\ \A i \in 1 .. Depth : g[i] = f[g[i - 1]]
  <2> DEFINE S == (Node \cup {Null})
             x0 == x
  <2>1. f \in [S -> S] /\ x0 \in S
    BY <1>0, <1>1
  <2> HIDE DEF f, S, x0
  <2>2. Follows(f, x0, Depth, S)
    BY <1>0, <2>1, Followed
  <2>3. QED BY <2>2 DEF Follows, S, x0
<1>3. g = step(g)
  <2> HIDE DEF next
  <2>1. ASSUME NEW i \in 0 .. Depth PROVE g[i] = IF i = 0 THEN x ELSE next(g[i - 1])
    <3>1. CASE i = 0
      BY <1>2, <3>1
    <3>2. CASE i # 0
      <4>1. i \in 1 .. Depth /\ i - 1 \in 0 .. Depth
        BY <1>0, <3>2
      <4> HIDE DEF f
      <4>2. g[i] = f[g[i - 1]] /\ g[i - 1] \in (Node \cup {Null})
        BY <1>2, <4>1
      <4>3. f[g[i - 1]] = next(g[i - 1])
        BY <4>2 DEF f
      <4>4. QED BY <3>2, <4>2, <4>3
    <3>3. QED BY <3>1, <3>2
  <2>2. QED BY <1>2, <2>1
<1>4. c = step(c)
  <2> HIDE DEF step
  <2>1. QED BY <1>3
<1>5. c[0] = x /\ \A i \in 1 .. Depth : c[i] = next(c[i - 1])
  <2> HIDE DEF c, next
  <2>1. \A i \in 0 .. Depth : c[i] = IF i = 0 THEN x ELSE next(c[i - 1])
    BY <1>4
  <2>2. QED BY <1>0, <2>1
<1>6. Ancestors(x) = {c[i] : i \in 0 .. Depth} \ {Null}
  BY DEF Ancestors
<1> DEFINE T == u[root]
           C(i) == c[i]
<1> HIDE DEF step, f
<1>7. C(0) = x /\ \A i \in 1 .. Depth : C(i) = IF C(i - 1) = Null THEN Null ELSE node[C(i - 1)].parent
  BY <1>5
<1>8. Ancestors(x) = {C(i) : i \in 0 .. Depth} \ {Null}
  BY <1>6
<1> HIDE DEF c, next, C
<1>9. \A m \in T : /\ m # Null /\ m \in Node /\ m \in u[m] /\ u[m] \in SUBSET Node
                   /\ node[m].parent = Null <=> m = root
                   /\ m # root => /\ node[m].parent \in T /\ node[m].parent \notin u[m] /\ node[m].parent \in u[node[m].parent]
                                  /\ u[m] \subseteq u[node[m].parent]
  <2>1. \A m \in T : m # Null /\ m \in Node /\ m \in u[m] /\ u[m] \in SUBSET Node /\ Up(node, m) = node[m].parent
    BY DrawnFacts
  <2>2. ASSUME NEW m \in T
        PROVE  /\ m = root <=> Up(node, m) = Null
               /\ m # root => /\ Up(node, m) \in T /\ Up(node, m) \notin u[m] /\ u[m] \subseteq u[Up(node, m)]
    BY Above DEF Drawn
  <2>3. QED BY <2>1, <2>2
<1>10. \A i \in 0 .. Depth : C(i) = Null \/ (C(i) \in T /\ x \in u[C(i)])
  <2> DEFINE X == {i \in 0 .. Depth : C(i) = Null \/ (C(i) \in T /\ x \in u[C(i)])}
  <2>1. 0 \in X
    BY <1>0, <1>7, <1>9
  <2>2. ASSUME NEW i \in 1 .. Depth, i - 1 \in X PROVE i \in X
    <3>1. CASE C(i - 1) = Null
      BY <1>7, <3>1
    <3>2. CASE C(i - 1) # Null
      BY <1>7, <1>9, <2>2, <3>2
    <3>3. QED BY <3>1, <3>2
  <2> HIDE DEF X
  <2>3. \A i \in 0 .. Depth : i \in X
    BY <1>0, <2>1, <2>2, Upto
  <2>4. QED BY <2>3 DEF X
<1>11. ASSUME NEW m \in T, x \in u[m] PROVE \E i \in 0 .. Depth : C(i) = m
  <2> DEFINE Low(i) == C(i) \in T /\ C(i) \in u[m] /\ C(i) # m /\ i + 1 <= Cardinality(u[C(i)])
             X == {i \in 0 .. Depth : (\E j \in 0 .. Depth : C(j) = m) \/ Low(i)}
  <2>1. 0 \in X
    <3>1. x \in T /\ 1 <= Cardinality(u[x])
      BY DrawnFacts
    <3>2. QED BY <1>0, <1>7, <1>11, <3>1
  <2>2. ASSUME NEW i \in 1 .. Depth, i - 1 \in X PROVE i \in X
    <3>0. i \in 0 .. Depth /\ i - 1 \in 0 .. Depth
      BY <1>0
    <3>1. CASE \E j \in 0 .. Depth : C(j) = m
      BY <3>0, <3>1
    <3>2. CASE ~ \E j \in 0 .. Depth : C(j) = m
      <4> DEFINE b == C(i - 1)
                 a == C(i)
      <4>1. b \in T /\ b \in u[m] /\ b # m /\ i - 1 + 1 <= Cardinality(u[b])
        BY <2>2, <3>2
      <4>2. b # Null /\ a = node[b].parent /\ a # m
        BY <1>7, <1>9, <3>0, <3>2, <4>1
      <4> HIDE DEF a, b
      <4>3. Up(node, b) \in u[m] /\ Up(node, b) = node[b].parent
        BY <4>1, DrawnFacts DEF Drawn, Shape, Nested
      <4>4. a \in u[m] /\ a \in T /\ a \in Node
        BY <4>2, <4>3, DrawnFacts
      <4>5. a \notin u[b] /\ a \in u[a] /\ u[b] \subseteq u[a] /\ u[a] \in SUBSET Node /\ u[b] \in SUBSET Node
        BY <1>9, <4>1, <4>2, <4>4, DrawnFacts
      <4>6. Cardinality(u[b]) + 1 <= Cardinality(u[a]) /\ Cardinality(u[b]) \in Nat /\ Cardinality(u[a]) \in Nat
        BY <4>5, Smaller
      <4>7. i + 1 <= Cardinality(u[a])
        BY <1>0, <4>1, <4>6
      <4>8. QED BY <3>0, <4>2, <4>4, <4>7 DEF a
    <3>3. QED BY <3>1, <3>2
  <2> HIDE DEF X
  <2>3. \A i \in 0 .. Depth : i \in X
    BY <1>0, <2>1, <2>2, Upto
  <2>4. Depth \in X /\ Depth \in 0 .. Depth
    BY <1>0, <2>3
  <2>5. ~ Low(Depth)
    <3>1. SUFFICES ASSUME C(Depth) \in T, Depth + 1 <= Cardinality(u[C(Depth)]) PROVE FALSE
      OBVIOUS
    <3>2. Cardinality(u[C(Depth)]) \in Nat /\ Cardinality(u[C(Depth)]) <= Depth
      BY <3>1, DrawnFacts
    <3>3. QED BY <1>0, <3>1, <3>2
  <2>6. QED BY <2>4, <2>5 DEF X
<1>12. QED BY <1>8, <1>9, <1>10, <1>11

\* Going left from a node ends at the least key of its part.
LEMMA LeftmostIs ==
  ASSUME NEW u, Drawn(u), NEW top \in u[root]
  PROVE  /\ Leftmost(top) \in u[top]
         /\ \A x \in u[top] : x = Leftmost(top) \/ On("left", x, Leftmost(top))
<1> DEFINE next(n) == IF node[n].kid["left"] = Null THEN n ELSE node[n].kid["left"]
           step(p) == [i \in 0 .. Depth |-> IF i = 0 THEN top ELSE next(p[i - 1])]
           f == [n \in Node |-> next(n)]
           c == CHOOSE p : p = step(p)
<1>0. Depth \in Nat /\ top \in Node
  BY DrawnFacts
<1>1. \A n \in Node : next(n) \in Node
  BY DrawnFacts
<1>2. PICK g \in [0 .. Depth -> Node] : g[0] = top /\ \A i \in 1 .. Depth : g[i] = f[g[i - 1]]
  <2> DEFINE S == Node
             x0 == top
  <2>1. f \in [S -> S] /\ x0 \in S
    BY <1>0, <1>1
  <2> HIDE DEF f, S, x0
  <2>2. Follows(f, x0, Depth, S)
    BY <1>0, <2>1, Followed
  <2>3. QED BY <2>2 DEF Follows, S, x0
<1>3. g = step(g)
  <2> HIDE DEF next
  <2>1. ASSUME NEW i \in 0 .. Depth PROVE g[i] = IF i = 0 THEN top ELSE next(g[i - 1])
    <3>1. CASE i = 0
      BY <1>2, <3>1
    <3>2. CASE i # 0
      <4>1. i \in 1 .. Depth /\ i - 1 \in 0 .. Depth
        BY <1>0, <3>2
      <4> HIDE DEF f
      <4>2. g[i] = f[g[i - 1]] /\ g[i - 1] \in Node
        BY <1>2, <4>1
      <4>3. f[g[i - 1]] = next(g[i - 1])
        BY <4>2 DEF f
      <4>4. QED BY <3>2, <4>2, <4>3
    <3>3. QED BY <3>1, <3>2
  <2>2. QED BY <1>2, <2>1
<1>4. c = step(c)
  <2> HIDE DEF step
  <2>1. QED BY <1>3
<1>5. c[0] = top /\ \A i \in 1 .. Depth : c[i] = next(c[i - 1])
  <2> HIDE DEF c, next
  <2>1. \A i \in 0 .. Depth : c[i] = IF i = 0 THEN top ELSE next(c[i - 1])
    BY <1>4
  <2>2. QED BY <1>0, <2>1
<1>6. Leftmost(top) = c[Depth]
  BY DEF Leftmost
<1> DEFINE T == u[root]
           C(i) == c[i]
           lk(n) == node[n].kid["left"]
<1> HIDE DEF step, f
<1>7. C(0) = top /\ \A i \in 1 .. Depth : C(i) = IF lk(C(i - 1)) = Null THEN C(i - 1) ELSE lk(C(i - 1))
  BY <1>5
<1> HIDE DEF c, next, C, lk
<1> DEFINE Before(i) == \A x \in u[top] : x \in u[C(i)] \/ On("left", x, C(i))
           Ok(i) == /\ C(i) \in T /\ C(i) \in u[top] /\ Before(i)
                    /\ lk(C(i)) = Null \/ i + Cardinality(u[C(i)]) <= Depth
           X == {i \in 0 .. Depth : Ok(i)}
<1>8. 0 \in X
  BY <1>0, <1>7, DrawnFacts
<1>9. ASSUME NEW i \in 1 .. Depth, i - 1 \in X PROVE i \in X
  <2> DEFINE b == C(i - 1)
             k == C(i)
  <2>0. i \in 0 .. Depth /\ i - 1 \in 0 .. Depth
    BY <1>0
  <2>1. b \in T /\ b \in u[top] /\ Before(i - 1) /\ (lk(b) = Null \/ i - 1 + Cardinality(u[b]) <= Depth)
    BY <1>9
  <2>2. k = IF lk(b) = Null THEN b ELSE lk(b)
    BY <1>7
  <2>3. CASE lk(b) = Null
    BY <2>0, <2>1, <2>2, <2>3
  <2>4. CASE lk(b) # Null
    <3>1. k = lk(b) /\ lk(b) = Kid(node, b, "left") /\ "left" \in Side /\ b \in Node /\ Other("left") = "right" /\ "right" \in Side
      BY <2>1, <2>2, <2>4, DrawnFacts DEF lk, Other
    <3>2. k \in T /\ u[k] \subseteq u[b] /\ On("left", b, k) /\ Cardinality(u[k]) + 1 <= Cardinality(u[b])
      <4>1. node[b].kid["left"] = k /\ k # Null
        BY <2>4, <3>1 DEF lk
      <4> HIDE DEF k, b
      <4>2. QED BY <2>1, <3>1, <4>1, KidSmaller
    <3>3. u[b] \subseteq u[top] /\ k \in u[top] /\ k \in Node
      <4>1. u[b] \subseteq u[top]
        BY <2>1 DEF Drawn, Shape, Nested
      <4>2. k \in u[k] /\ k \in Node
        BY <3>2, DrawnFacts
      <4>3. QED BY <3>2, <4>1, <4>2
    <3>4. ASSUME NEW x \in u[top] PROVE x \in u[k] \/ On("left", x, k)
      <4>0. x \in Node
        BY DrawnFacts
      <4>1. CASE On("left", x, b)
        BY <3>1, <3>2, <3>3, <4>0, <4>1, OnSides
      <4>2. CASE x \in u[b]
        <5>1. u[b] = {b} \cup u[Kid(node, b, "left")] \cup u[Kid(node, b, "right")]
          BY <2>1, <3>1 DEF Drawn, Shape, Parts
        <5>2. x \in u[Kid(node, b, "right")] => On("right", b, x)
          BY <2>1, <3>1 DEF Drawn, Shape, Sorted
        <5>3. On("right", b, x) => On("left", x, b)
          BY <3>1, <4>0, OnSides
        <5>4. On("left", x, b) => On("left", x, k)
          BY <3>1, <3>2, <3>3, <4>0, OnSides
        <5>5. QED BY <3>1, <3>2, <4>2, <5>1, <5>2, <5>3, <5>4
      <4>3. QED BY <2>1, <4>1, <4>2
    <3>5. i + Cardinality(u[k]) <= Depth
      <4>1. Cardinality(u[k]) \in Nat /\ Cardinality(u[b]) \in Nat
        BY <2>1, <3>2, DrawnFacts
      <4> HIDE DEF k, b
      <4>2. QED BY <1>0, <2>1, <2>4, <3>2, <4>1
    <3>6. QED BY <2>0, <3>2, <3>3, <3>4, <3>5
  <2>5. QED BY <2>3, <2>4
<1>10. \A i \in 0 .. Depth : i \in X
  <2> HIDE DEF X
  <2>1. QED BY <1>0, <1>8, <1>9, Upto
<1>11. Ok(Depth)
  BY <1>0, <1>10
<1> DEFINE e == C(Depth)
<1>12. e \in T /\ e \in u[top] /\ Before(Depth)
  BY <1>11
<1>13. lk(e) = Null
  <2>1. Cardinality(u[e]) \in Nat /\ 1 <= Cardinality(u[e])
    BY <1>12, DrawnFacts
  <2>2. Ok(Depth) /\ Depth \in Nat
    BY <1>0, <1>11
  <2> HIDE DEF Before
  <2>3. QED BY <2>1, <2>2
<1>14. ASSUME NEW x \in u[top] PROVE x = e \/ On("left", x, e)
  <2>1. x \in Node /\ e \in Node /\ Kid(node, e, "left") = Null /\ u[Null] = {} /\ "left" \in Side /\ "right" \in Side
        /\ Other("left") = "right" /\ Other("right") = "left"
    BY <1>12, <1>13, DrawnFacts DEF lk, Other
  <2>2. u[e] = {e} \cup u[Kid(node, e, "left")] \cup u[Kid(node, e, "right")]
    BY <1>12, <2>1 DEF Drawn, Shape, Parts
  <2>3. x \in u[Kid(node, e, "right")] => On("right", e, x)
    BY <1>12, <2>1 DEF Drawn, Shape, Sorted
  <2>4. On("right", e, x) => On("left", x, e)
    BY <2>1, OnSides
  <2>5. QED BY <1>12, <2>1, <2>2, <2>3, <2>4
<1>15. QED BY <1>6, <1>12, <1>14 DEF C

-----------------------------------------------------------------------------
(* The successor *)

\* Climbing from a node with nothing on its right ends at the next greater
\* key, or at Null if there is none.
LEMMA ClimbIs ==
  ASSUME NEW u, Drawn(u), NEW x \in u[root], node[x].kid["right"] = Null
  PROVE  /\ Climb(x) \in u[root] \cup {Null}
         /\ Climb(x) = Null => \A y \in u[root] : y = x \/ On("left", x, y)
         /\ Climb(x) # Null =>
              /\ On("right", x, Climb(x))
              /\ \A y \in u[root] : On("right", x, y) => y = Climb(x) \/ On("right", Climb(x), y)
<1> DEFINE next(n) == IF n[2] # Null /\ node[n[2]].kid["right"] = n[1] THEN <<n[2], node[n[2]].parent>> ELSE n
           step(p) == [i \in 0 .. Depth |-> IF i = 0 THEN <<x, node[x].parent>> ELSE next(p[i - 1])]
           f == [n \in (Node \X (Node \cup {Null})) |-> next(n)]
           c == CHOOSE p : p = step(p)
<1>0. Depth \in Nat /\ <<x, node[x].parent>> \in (Node \X (Node \cup {Null}))
  BY DrawnFacts
<1>1. \A n \in (Node \X (Node \cup {Null})) : next(n) \in (Node \X (Node \cup {Null}))
  BY DrawnFacts
<1>2. PICK g \in [0 .. Depth -> (Node \X (Node \cup {Null}))] : g[0] = <<x, node[x].parent>> /\ \A i \in 1 .. Depth : g[i] = f[g[i - 1]]
  <2> DEFINE S == (Node \X (Node \cup {Null}))
             x0 == <<x, node[x].parent>>
  <2>1. f \in [S -> S] /\ x0 \in S
    BY <1>0, <1>1
  <2> HIDE DEF f, S, x0
  <2>2. Follows(f, x0, Depth, S)
    BY <1>0, <2>1, Followed
  <2>3. QED BY <2>2 DEF Follows, S, x0
<1>3. g = step(g)
  <2> HIDE DEF next
  <2>1. ASSUME NEW i \in 0 .. Depth PROVE g[i] = IF i = 0 THEN <<x, node[x].parent>> ELSE next(g[i - 1])
    <3>1. CASE i = 0
      BY <1>2, <3>1
    <3>2. CASE i # 0
      <4>1. i \in 1 .. Depth /\ i - 1 \in 0 .. Depth
        BY <1>0, <3>2
      <4> HIDE DEF f
      <4>2. g[i] = f[g[i - 1]] /\ g[i - 1] \in (Node \X (Node \cup {Null}))
        BY <1>2, <4>1
      <4>3. f[g[i - 1]] = next(g[i - 1])
        BY <4>2 DEF f
      <4>4. QED BY <3>2, <4>2, <4>3
    <3>3. QED BY <3>1, <3>2
  <2>2. QED BY <1>2, <2>1
<1>4. c = step(c)
  <2> HIDE DEF step
  <2>1. QED BY <1>3
<1>5. c[0] = <<x, node[x].parent>> /\ \A i \in 1 .. Depth : c[i] = next(c[i - 1])
  <2> HIDE DEF c, next
  <2>1. \A i \in 0 .. Depth : c[i] = IF i = 0 THEN <<x, node[x].parent>> ELSE next(c[i - 1])
    BY <1>4
  <2>2. QED BY <1>0, <2>1
<1>6. Climb(x) = c[Depth][2]
  BY DEF Climb
<1> DEFINE T == u[root]
           C(i) == c[i][1]
           P(i) == c[i][2]
           rk(n) == node[n].kid["right"]
<1> HIDE DEF step, f
<1>7. /\ C(0) = x /\ P(0) = node[x].parent
      /\ \A i \in 1 .. Depth : IF P(i - 1) # Null /\ rk(P(i - 1)) = C(i - 1)
                               THEN C(i) = P(i - 1) /\ P(i) = node[P(i - 1)].parent
                               ELSE C(i) = C(i - 1) /\ P(i) = P(i - 1)
  <2>1. C(0) = x /\ P(0) = node[x].parent
    BY <1>5
  <2>2. ASSUME NEW i \in 1 .. Depth
        PROVE  IF P(i - 1) # Null /\ rk(P(i - 1)) = C(i - 1)
               THEN C(i) = P(i - 1) /\ P(i) = node[P(i - 1)].parent
               ELSE C(i) = C(i - 1) /\ P(i) = P(i - 1)
    <3>1. c[i] = next(c[i - 1])
      BY <1>5
    <3> HIDE DEF c
    <3>2. QED BY <3>1
  <2>3. QED BY <2>1, <2>2
<1>8. Climb(x) = P(Depth)
  BY <1>6
<1> HIDE DEF c, next, C, P, rk
<1>9. /\ "left" \in Side /\ "right" \in Side /\ Other("left") = "right" /\ Other("right") = "left"
      /\ \A n \in T : n \in Node /\ n # Null /\ rk(n) = Kid(node, n, "right") /\ Up(node, n) = node[n].parent
  BY DrawnFacts DEF Side, Other, rk
<1> DEFINE Max(n) == \A y \in u[n] : y = x \/ On("left", x, y)
           Ok(i) == /\ C(i) \in T /\ x \in u[C(i)] /\ P(i) = node[C(i)].parent /\ Max(C(i))
                    /\ \/ ~ (P(i) # Null /\ rk(P(i)) = C(i))
                       \/ i + 1 <= Cardinality(u[C(i)])
           X == {i \in 0 .. Depth : Ok(i)}
<1>10. 0 \in X
  <2>1. u[x] = {x} \cup u[Kid(node, x, "left")] \cup u[Kid(node, x, "right")]
    BY <1>9 DEF Drawn, Shape, Parts
  <2>2. Kid(node, x, "right") = Null /\ u[Null] = {}
    BY DrawnFacts
  <2>3. \A y \in u[Kid(node, x, "left")] : On("left", x, y)
    BY <1>9 DEF Drawn, Shape, Sorted
  <2>4. Max(x)
    BY <2>1, <2>2, <2>3
  <2>5. x \in u[x] /\ 0 + 1 <= Cardinality(u[x])
    BY DrawnFacts
  <2> HIDE DEF Max
  <2>6. QED BY <1>0, <1>7, <2>4, <2>5
<1>11. ASSUME NEW i \in 1 .. Depth, i - 1 \in X PROVE i \in X
  <2> DEFINE b == C(i - 1)
             p == P(i - 1)
  <2>0. i \in 0 .. Depth /\ i - 1 \in 0 .. Depth
    BY <1>0
  <2>1. b \in T /\ x \in u[b] /\ p = node[b].parent /\ Max(b) /\ (~ (p # Null /\ rk(p) = b) \/ i - 1 + 1 <= Cardinality(u[b]))
    BY <1>11
  <2>2. IF p # Null /\ rk(p) = b THEN C(i) = p /\ P(i) = node[p].parent ELSE C(i) = b /\ P(i) = p
    BY <1>7
  <2>3. CASE ~ (p # Null /\ rk(p) = b)
    BY <2>0, <2>1, <2>2, <2>3
  <2>4. CASE p # Null /\ rk(p) = b
    <3> HIDE DEF b, p, Max
    <3>1. b # root => p \in T /\ u[b] \subseteq u[p] /\ p \notin u[b]
      BY <2>1, <1>9, Above DEF Drawn
    <3>2. b # root
      <4>1. b = root => Up(node, b) = Null
        BY <2>1, Above DEF Drawn
      <4>2. QED BY <2>1, <2>4, <4>1, <1>9
    <3>3. C(i) = p /\ P(i) = node[p].parent /\ p \in T /\ x \in u[p] /\ p \in Node /\ x \in Node
      BY <2>1, <2>2, <2>4, <3>1, <3>2, <1>9
    <3>4. Kid(node, p, "right") = b
      BY <2>4, <3>3, <1>9
    <3>5. On("right", p, x) /\ \A y \in u[Kid(node, p, "left")] : On("left", p, y)
      BY <2>1, <3>3, <3>4, <1>9 DEF Drawn, Shape, Sorted
    <3>6. u[p] = {p} \cup u[Kid(node, p, "left")] \cup u[b]
      BY <3>3, <3>4, <1>9 DEF Drawn, Shape, Parts
    <3>7. \A y \in u[p] : y \in Node
      BY <3>3, DrawnFacts
    <3>8. On("left", x, p) /\ \A y \in u[Kid(node, p, "left")] : On("left", x, y)
      <4>1. On("left", x, p)
        BY <3>3, <3>5, <1>9, OnSides
      <4>2. \A y \in u[Kid(node, p, "left")] : y \in Node /\ On("left", p, y)
        BY <3>5, <3>6, <3>7
      <4>3. QED BY <3>3, <4>1, <4>2, <1>9, OnSides
    <3>9. Max(p)
      BY <2>1, <3>6, <3>8 DEF Max
    <3>10. i + 1 <= Cardinality(u[p])
      <4>1. u[p] \in SUBSET Node /\ u[b] \in SUBSET Node /\ p \in u[p]
        BY <2>1, <3>3, DrawnFacts
      <4>2. Cardinality(u[b]) + 1 <= Cardinality(u[p]) /\ Cardinality(u[b]) \in Nat /\ Cardinality(u[p]) \in Nat
        BY <3>1, <3>2, <4>1, Smaller
      <4>3. QED BY <1>0, <2>1, <2>4, <4>2
    <3>11. QED BY <2>0, <3>3, <3>9, <3>10
  <2>5. QED BY <2>3, <2>4
<1>12. \A i \in 0 .. Depth : i \in X
  <2> HIDE DEF X
  <2>1. QED BY <1>0, <1>10, <1>11, Upto
<1> DEFINE e == C(Depth)
           q == P(Depth)
<1>13. e \in T /\ x \in u[e] /\ q = node[e].parent /\ Max(e) /\ ~ (q # Null /\ rk(q) = e)
  <2>1. Ok(Depth) /\ Depth \in Nat
    BY <1>0, <1>12
  <2>2. Cardinality(u[e]) \in Nat /\ Cardinality(u[e]) <= Depth
    BY <2>1, DrawnFacts
  <2> HIDE DEF Max
  <2>3. QED BY <2>1, <2>2
<1> HIDE DEF e, q, Max
<1>14. Climb(x) = q
  BY <1>8 DEF q
<1>15. CASE q = Null
  <2>1. e = root
    <3>1. Up(node, e) = Null
      BY <1>9, <1>13, <1>15
    <3>2. e = root <=> Up(node, e) = Null
      BY <1>13, Above DEF Drawn
    <3>3. QED BY <3>1, <3>2
  <2>2. QED BY <1>13, <1>14, <1>15, <2>1 DEF Max
<1>16. CASE q # Null
  <2>1. Up(node, e) = q
    BY <1>9, <1>13
  <2>2. e # root
    BY <1>13, <1>16, <2>1, Above DEF Drawn
  <2>3. q \in T /\ \E d \in Side : Kid(node, q, d) = e
    BY <1>13, <2>1, <2>2, Above DEF Drawn
  <2>4. Kid(node, q, "left") = e
    BY <1>9, <1>13, <1>16, <2>3 DEF Side
  <2>5. q \in Node /\ x \in Node /\ On("left", q, x)
    BY <1>9, <1>13, <2>3, <2>4 DEF Drawn, Shape, Sorted
  <2>6. On("right", x, q)
    BY <1>9, <2>5, OnSides
  <2>7. ASSUME NEW y \in T, On("right", x, y) PROVE y = q \/ On("right", q, y)
    <3>1. y \in Node /\ ~ On("right", x, x) /\ ~ On("left", x, y)
      BY <1>9, <2>5, <2>7, OnSides
    <3>2. y \notin u[e]
      BY <1>13, <2>7, <3>1 DEF Max
    <3>3. CASE y \in u[q]
      <4>1. u[q] = {q} \cup u[e] \cup u[Kid(node, q, "right")]
        BY <1>9, <2>3, <2>4 DEF Drawn, Shape, Parts
      <4>2. y \in u[Kid(node, q, "right")] => On("right", q, y)
        BY <1>9, <2>3 DEF Drawn, Shape, Sorted
      <4>3. QED BY <3>2, <3>3, <4>1, <4>2
    <3>4. CASE y \notin u[q]
      <4>1. On("left", y, x) /\ x \in u[q] /\ q \in u[q]
        <5>1. On("left", y, x)
          BY <1>9, <2>5, <2>7, <3>1, OnSides
        <5>2. u[q] = {q} \cup u[e] \cup u[Kid(node, q, "right")]
          BY <1>9, <2>3, <2>4 DEF Drawn, Shape, Parts
        <5>3. QED BY <1>13, <5>1, <5>2
      <4>2. On("left", y, q)
        BY <1>9, <2>3, <3>4, <4>1, Convex DEF Drawn
      <4>3. QED BY <1>9, <2>5, <3>1, <4>2, OnSides
    <3>5. QED BY <3>3, <3>4
  <2>8. QED BY <1>14, <1>16, <2>3, <2>6, <2>7
<1>17. QED BY <1>15, <1>16

\* operator++ goes to the next node in the order of the keys, and to null from
\* the last.
LEMMA SuccIs ==
  ASSUME NEW u, Drawn(u), NEW x \in u[root]
  PROVE  /\ Succ(x) \in u[root] \cup {Null}
         /\ Succ(x) = Null => \A y \in u[root] : y = x \/ On("left", x, y)
         /\ Succ(x) # Null =>
              /\ On("right", x, Succ(x))
              /\ \A y \in u[root] : On("right", x, y) => y = Succ(x) \/ On("right", Succ(x), y)
<1>1. CASE node[x].kid["right"] = Null
  <2>1. Succ(x) = Climb(x)
    BY <1>1 DEF Succ
  <2>2. QED BY <1>1, <2>1, ClimbIs
<1>2. CASE node[x].kid["right"] # Null
  <2> DEFINE k == node[x].kid["right"]
             q == Leftmost(k)
  <2>1. Succ(x) = q
    BY <1>2 DEF Succ
  <2>2. /\ "left" \in Side /\ "right" \in Side /\ Other("left") = "right" /\ Other("right") = "left"
        /\ x \in Node /\ k = Kid(node, x, "right")
    BY DrawnFacts DEF Other
  <2>3. k \in u[root] /\ u[k] \subseteq u[x]
    BY <1>2, <2>2, KidSmaller
  <2> HIDE DEF k
  <2>4. q \in u[k] /\ \A y \in u[k] : y = q \/ On("left", y, q)
    BY <2>3, LeftmostIs
  <2> HIDE DEF q
  <2>5. q \in u[x] /\ q \in u[root] /\ q \in Node /\ q # Null /\ u[root] \subseteq Node /\ x \in u[x]
    BY <2>3, <2>4, DrawnFacts
  <2>6. On("right", x, q)
    BY <2>2, <2>4 DEF Drawn, Shape, Sorted
  <2>7. ASSUME NEW y \in u[root], On("right", x, y) PROVE y = q \/ On("right", q, y)
    <3>1. y \in Node /\ ~ On("left", x, y) /\ y # x
      BY <2>2, <2>5, <2>7, OnSides
    <3>2. CASE y \in u[x]
      <4>1. u[x] = {x} \cup u[Kid(node, x, "left")] \cup u[k]
        BY <2>2 DEF Drawn, Shape, Parts
      <4>2. y \in u[Kid(node, x, "left")] => On("left", x, y)
        BY <2>2 DEF Drawn, Shape, Sorted
      <4>3. y = q \/ On("left", y, q)
        BY <2>4, <3>1, <3>2, <4>1, <4>2
      <4>4. QED BY <2>2, <2>5, <3>1, <4>3, OnSides
    <3>3. CASE y \notin u[x]
      <4>1. On("left", y, x)
        BY <2>2, <2>7, <3>1, OnSides
      <4>2. On("left", y, q)
        BY <2>2, <2>5, <3>3, <4>1, Convex DEF Drawn
      <4>3. QED BY <2>2, <2>5, <3>1, <4>2, OnSides
    <3>4. QED BY <3>2, <3>3
  <2>8. QED BY <2>1, <2>5, <2>6, <2>7
<1>3. QED BY <1>1, <1>2

-----------------------------------------------------------------------------
(* The loop over the tree *)

\* A loop from begin() by operator++ meets every node of the tree, in the order
\* of the keys.
LEMMA IterationIs ==
  ASSUME NEW u, Drawn(u)
  PROVE  IterationSorted
<1> SUFFICES ASSUME Quiet, root # Null
             PROVE  LET visit[i \in 0 .. Depth] ==
                          IF i = 0 THEN Leftmost(root)
                          ELSE LET n == visit[i - 1] IN IF n = Null THEN Null ELSE Succ(n)
                    IN /\ {visit[i] : i \in 0 .. Depth} \ {Null} = InTree
                       /\ \A i \in 1 .. Depth : visit[i] # Null => visit[i - 1][1] < visit[i][1]
  BY DEF IterationSorted
<1> DEFINE next(n) == IF n = Null THEN Null ELSE Succ(n)
           step(p) == [i \in 0 .. Depth |-> IF i = 0 THEN Leftmost(root) ELSE next(p[i - 1])]
           f == [n \in (u[root] \cup {Null}) |-> next(n)]
           c == CHOOSE p : p = step(p)
<1>0. Depth \in Nat /\ Leftmost(root) \in (u[root] \cup {Null})
  BY DrawnFacts, LeftmostIs
<1>1. \A n \in (u[root] \cup {Null}) : next(n) \in (u[root] \cup {Null})
  BY SuccIs
<1>2. PICK g \in [0 .. Depth -> (u[root] \cup {Null})] : g[0] = Leftmost(root) /\ \A i \in 1 .. Depth : g[i] = f[g[i - 1]]
  <2> DEFINE S == (u[root] \cup {Null})
             x0 == Leftmost(root)
  <2>1. f \in [S -> S] /\ x0 \in S
    BY <1>0, <1>1
  <2> HIDE DEF f, S, x0
  <2>2. Follows(f, x0, Depth, S)
    BY <1>0, <2>1, Followed
  <2>3. QED BY <2>2 DEF Follows, S, x0
<1>3. g = step(g)
  <2> HIDE DEF next
  <2>1. ASSUME NEW i \in 0 .. Depth PROVE g[i] = IF i = 0 THEN Leftmost(root) ELSE next(g[i - 1])
    <3>1. CASE i = 0
      BY <1>2, <3>1
    <3>2. CASE i # 0
      <4>1. i \in 1 .. Depth /\ i - 1 \in 0 .. Depth
        BY <1>0, <3>2
      <4> HIDE DEF f
      <4>2. g[i] = f[g[i - 1]] /\ g[i - 1] \in (u[root] \cup {Null})
        BY <1>2, <4>1
      <4>3. f[g[i - 1]] = next(g[i - 1])
        BY <4>2 DEF f
      <4>4. QED BY <3>2, <4>2, <4>3
    <3>3. QED BY <3>1, <3>2
  <2>2. QED BY <1>2, <2>1
<1>4. c = step(c)
  <2> HIDE DEF step
  <2>1. QED BY <1>3
<1>5. c[0] = Leftmost(root) /\ \A i \in 1 .. Depth : c[i] = next(c[i - 1])
  <2> HIDE DEF c, next
  <2>1. \A i \in 0 .. Depth : c[i] = IF i = 0 THEN Leftmost(root) ELSE next(c[i - 1])
    BY <1>4
  <2>2. QED BY <1>0, <2>1
<1> DEFINE T == u[root]
           C(i) == c[i]
<1>6. SUFFICES /\ {c[i] : i \in 0 .. Depth} \ {Null} = InTree
               /\ \A i \in 1 .. Depth : c[i] # Null => c[i - 1][1] < c[i][1]
  OBVIOUS
<1> HIDE DEF step, f
<1>7. C(0) = Leftmost(root) /\ \A i \in 1 .. Depth : C(i) = IF C(i - 1) = Null THEN Null ELSE Succ(C(i - 1))
  BY <1>5
<1>8. SUFFICES /\ {C(i) : i \in 0 .. Depth} \ {Null} = T
               /\ \A i \in 1 .. Depth : C(i) # Null => C(i - 1)[1] < C(i)[1]
  BY TreeIs
<1> HIDE DEF c, next, C
<1>9. /\ "left" \in Side /\ "right" \in Side /\ Other("left") = "right" /\ Other("right") = "left"
      /\ \A n \in T : n \in Node /\ n # Null
  BY DrawnFacts DEF Other
<1>10. \A n \in T : /\ Succ(n) = Null => \A y \in T : y = n \/ On("left", n, y)
                    /\ Succ(n) # Null =>
                         /\ Succ(n) \in T /\ On("right", n, Succ(n))
                         /\ \A y \in T : On("right", n, y) => y = Succ(n) \/ On("right", Succ(n), y)
  BY SuccIs
<1> DEFINE Seen(i) == \A x \in T : \/ \E j \in 0 .. i : C(j) = x
                                   \/ C(i) # Null /\ On("right", C(i), x)
           Many(i) == C(i) = Null \/ i + 1 <= Cardinality({x \in T : x = C(i) \/ On("left", C(i), x)})
           Ok(i) == C(i) \in T \cup {Null} /\ Seen(i) /\ Many(i)
           X == {i \in 0 .. Depth : Ok(i)}
<1> DEFINE Low(n) == {x \in T : x = n \/ On("left", n, x)}
<1>11. \A n \in T : Low(n) \in SUBSET Node /\ n \in Low(n)
  BY <1>9
<1>12. 0 \in X
  <2> DEFINE e == C(0)
  <2>1. root \in T /\ e \in T /\ \A x \in T : x = e \/ On("left", x, e)
    <3>1. root \in T /\ u[root] = T
      BY DrawnFacts
    <3>2. QED BY <1>7, <3>1, LeftmostIs
  <2>2. \A x \in T : x = e \/ On("right", e, x)
    BY <1>9, <2>1, OnSides
  <2>3. Seen(0)
    BY <1>9, <2>1, <2>2
  <2>4. 0 + 1 <= Cardinality(Low(e))
    BY <1>11, <2>1, Smaller, SMTT(40)
  <2>5. QED BY <1>0, <2>1, <2>3, <2>4
<1>13. ASSUME NEW i \in 1 .. Depth, i - 1 \in X PROVE i \in X
  <2> DEFINE b == C(i - 1)
             q == C(i)
  <2>0. /\ i \in 0 .. Depth /\ i - 1 \in 0 .. Depth /\ i \in Nat /\ i \in 0 .. i
        /\ \A j \in 0 .. i - 1 : j \in 0 .. i
    BY <1>0
  <2>1. b \in T \cup {Null} /\ Seen(i - 1) /\ Many(i - 1) /\ q = IF b = Null THEN Null ELSE Succ(b)
    BY <1>7, <1>13
  <2>2. CASE b = Null
    <3>1. q = Null
      BY <2>1, <2>2
    <3>2. Seen(i)
      BY <2>0, <2>1, <2>2
    <3>3. QED BY <2>0, <3>1, <3>2
  <2>3. CASE b # Null /\ q = Null
    <3>1. b \in T /\ \A y \in T : y = b \/ On("left", b, y)
      BY <1>10, <2>1, <2>3
    <3>2. \A y \in T : ~ On("right", b, y)
      BY <1>9, <3>1, OnSides
    <3>3. Seen(i)
      BY <2>0, <2>1, <3>2
    <3>4. QED BY <2>0, <2>3, <3>3
  <2>4. CASE b # Null /\ q # Null
    <3>1. b \in T /\ q \in T /\ On("right", b, q) /\ \A y \in T : On("right", b, y) => y = q \/ On("right", q, y)
      BY <1>10, <2>1, <2>4
    <3>2. Seen(i)
      BY <2>0, <2>1, <2>4, <3>1
    <3>3. Low(b) \subseteq Low(q) /\ q \notin Low(b)
      <4> HIDE DEF b, q
      <4>1. On("left", q, b) /\ ~ On("left", b, q) /\ q # b
        BY <1>9, <3>1, OnSides
      <4>2. \A x \in T : On("left", b, x) => On("left", q, x)
        BY <1>9, <3>1, <4>1, OnSides
      <4>3. QED BY <4>1, <4>2
    <3>4. i - 1 + 1 <= Cardinality(Low(b))
      BY <2>1, <2>4
    <3>5. i + 1 <= Cardinality(Low(q))
      <4>1. Low(b) \in SUBSET Node /\ Low(q) \in SUBSET Node /\ q \in Low(q)
        BY <1>11, <3>1
      <4> HIDE DEF b, q, Low
      <4>2. Cardinality(Low(b)) + 1 <= Cardinality(Low(q)) /\ Cardinality(Low(b)) \in Nat /\ Cardinality(Low(q)) \in Nat
        BY <3>3, <4>1, Smaller
      <4>3. QED BY <1>0, <3>4, <4>2
    <3> HIDE DEF Seen
    <3>6. QED BY <2>0, <3>1, <3>2, <3>5
  <2>5. QED BY <2>2, <2>3, <2>4
<1>14. \A i \in 0 .. Depth : i \in X
  <2> HIDE DEF X
  <2>1. QED BY <1>0, <1>12, <1>13, Upto
<1>15. C(Depth) = Null
  <2>1. Ok(Depth)
    <3> HIDE DEF Seen, Many
    <3>1. QED BY <1>0, <1>14
  <2>2. SUFFICES ASSUME C(Depth) # Null PROVE FALSE
    OBVIOUS
  <2>3. C(Depth) \in T /\ Depth + 1 <= Cardinality(Low(C(Depth)))
    BY <2>1, <2>2
  <2>4. Low(C(Depth)) \in SUBSET Node
    BY <1>11, <2>3
  <2> HIDE DEF Low
  <2>5. Cardinality(Low(C(Depth))) \in Nat /\ Cardinality(Low(C(Depth))) <= Depth
    BY <2>4, Smaller
  <2>6. QED BY <1>0, <2>3, <2>5
<1>16. \A x \in T : \E j \in 0 .. Depth : C(j) = x
  <2>1. Seen(Depth)
    <3> HIDE DEF Seen, Many
    <3>1. QED BY <1>0, <1>14
  <2>2. QED BY <1>15, <2>1
<1>17. \A i \in 0 .. Depth : C(i) \in T \cup {Null}
  BY <1>14
<1>18. ASSUME NEW i \in 1 .. Depth, C(i) # Null PROVE C(i - 1)[1] < C(i)[1]
  <2>1. i - 1 \in 0 .. Depth /\ C(i - 1) # Null /\ C(i) = Succ(C(i - 1))
    BY <1>0, <1>7, <1>18
  <2>2. On("right", C(i - 1), C(i))
    BY <1>10, <1>17, <1>18, <2>1
  <2>3. QED BY <2>2 DEF On
<1>19. {C(i) : i \in 0 .. Depth} \ {Null} = T
  BY <1>9, <1>16, <1>17
<1>20. QED BY <1>18, <1>19

-----------------------------------------------------------------------------
(* Colours and rotations *)

Paints == [Node -> {RED, BLACK}]
Unit(C, n) == IF C[n] = BLACK THEN 1 ELSE 0

\* h counts the black nodes on the way down from a node, the same on every way.
Even(N, C, r, u, h) ==
    /\ C \in Paints /\ h \in [Node \cup {Null} -> Nat] /\ h[Null] = 0
    /\ \A n \in u[r] : \A d \in Side : h[n] = h[Kid(N, n, d)] + Unit(C, n)

\* No red node but z has a red parent.
NoRedPair(N, C, r, u, z) ==
    \A n \in u[r] : C[n] = RED /\ n # r /\ n # z => C[Up(N, n)] = BLACK

\* A rotation that repaints p and its riser keeps every way down equally black,
\* if the parts it moves were.
LEMMA EvenTurn ==
  ASSUME NEW N, NEW r, NEW u, Shape(N, r, u), NEW p \in u[r], NEW d \in Side, Riser(N, p, d) # Null,
         NEW M, NEW q, Turn(N, r, M, q, p, d, u[r]), NEW v, v[q] = u[r],
         NEW C, NEW h, Even(N, C, r, u, h), NEW B \in Paints,
         \A n \in u[r] : n # p /\ n # Riser(N, p, d) => B[n] = C[n],
         NEW x \in Nat, x = h[Kid(N, p, d)] + Unit(B, p), h[Kid(N, p, d)] = h[Mover(N, p, d)],
         x = h[Kid(N, Riser(N, p, d), Other(d))], h[p] = x + Unit(B, Riser(N, p, d))
  PROVE  Even(M, B, q, v, [h EXCEPT ![p] = x, ![Riser(N, p, d)] = h[p]])
<1> DEFINE s == Riser(N, p, d)
           m == Mover(N, p, d)
           o == Other(d)
           T == u[r]
           a == Kid(N, p, d)
           b == Kid(N, s, o)
           w == Up(N, p)
           g == [h EXCEPT ![p] = x, ![s] = h[p]]
<1>1. /\ s \in T /\ s # p /\ Up(N, s) = p
      /\ m # Null => m \in T /\ m # p /\ m # s /\ Up(N, m) = s
      /\ p # r => w \in T /\ w # p /\ w # s
      /\ p = r => w = Null
      /\ p \notin u[s] /\ s \notin u[a] /\ p \notin u[a]
  BY Turning
<1>2. /\ Kid(M, p, d) = a /\ Kid(M, p, o) = m
      /\ Kid(M, s, d) = p /\ Kid(M, s, o) = b
      /\ \A n \in T \ {p, s} : \A e \in Side : Kid(M, n, e) = IF Kid(N, n, e) = p THEN s ELSE Kid(N, n, e)
  BY DEF Turn
<1>3. /\ T \subseteq Node /\ Null \notin Node /\ s \in Node /\ p \in Node /\ o \in Side /\ \A e \in Side : e = d \/ e = o
  <2>1. T \subseteq Node
    BY DEF Shape, Typed
  <2>2. QED BY <2>1, <1>1, NodeFacts, Sides
<1>4. /\ C \in Paints /\ h \in [Node \cup {Null} -> Nat] /\ h[Null] = 0
      /\ \A n \in T : \A e \in Side : h[n] = h[Kid(N, n, e)] + Unit(C, n)
  BY DEF Even
<1>5. /\ a # p /\ a # s /\ a \in T \cup {Null}
      /\ b # p /\ b # s /\ b \in T \cup {Null}
      /\ m # p /\ m # s /\ m \in T \cup {Null}
  <2>1. /\ a \in T \cup {Null} /\ (a # Null => a \in u[a])
        /\ b \in T \cup {Null} /\ (b # Null => b \in u[b] /\ u[b] \subseteq u[s] /\ b # s)
    BY <1>1, <1>3, Around
  <2> HIDE DEF a, b, m, s
  <2>2. QED BY <2>1, <1>1, <1>3
<1>6. /\ g \in [Node \cup {Null} -> Nat] /\ g[p] = x /\ g[s] = h[p]
      /\ \A y \in Node \cup {Null} : y # p /\ y # s => g[y] = h[y]
  <2>1. h[p] \in Nat
    BY <1>3, <1>4
  <2> HIDE DEF s
  <2>2. QED BY <1>1, <1>3, <1>4, <2>1
<1>7. /\ x = h[a] + Unit(B, p) /\ h[a] = h[m] /\ x = h[b] /\ h[p] = x + Unit(B, s)
  OBVIOUS
<1>8. \A n \in T : n # p /\ n # s => Unit(B, n) = Unit(C, n)
  BY DEF Unit
<1> HIDE DEF g, s, m, o, a, b, w
<1>9. ASSUME NEW n \in T, NEW e \in Side
      PROVE  g[n] = g[Kid(M, n, e)] + Unit(B, n)
  <2>1. CASE n = p
    BY <2>1, <1>2, <1>3, <1>5, <1>6, <1>7
  <2>2. CASE n = s
    BY <2>2, <1>2, <1>3, <1>5, <1>6, <1>7
  <2>3. CASE n # p /\ n # s
    <3>1. g[n] = h[n] /\ h[n] = h[Kid(N, n, e)] + Unit(C, n) /\ Unit(B, n) = Unit(C, n)
      BY <2>3, <1>3, <1>4, <1>6, <1>8
    <3>2. Kid(N, n, e) # s /\ Kid(N, n, e) \in T \cup {Null}
      <4>1. Kid(N, n, e) \in T \cup {Null} /\ (Kid(N, n, e) # Null => Up(N, Kid(N, n, e)) = n)
        BY Around
      <4>2. QED BY <2>3, <4>1, <1>1, <1>3
    <3>3. Kid(M, n, e) = IF Kid(N, n, e) = p THEN s ELSE Kid(N, n, e)
      BY <2>3, <1>2
    <3>4. g[Kid(M, n, e)] = h[Kid(N, n, e)]
      BY <3>2, <3>3, <1>3, <1>6
    <3>5. QED BY <3>1, <3>4
  <2>4. QED BY <2>1, <2>2, <2>3
<1>10. Even(M, B, q, v, g)
  BY <1>4, <1>6, <1>9, <1>3 DEF Even
<1>11. QED BY <1>10 DEF g, s

\* The turn of a red parent and its red inner child leaves a red pair below.
LEMMA InnerTurn ==
  ASSUME NEW N, NEW r, NEW u, Shape(N, r, u), NEW p \in u[r], NEW d \in Side, Riser(N, p, d) # Null, p # r,
         NEW M, NEW q, Turn(N, r, M, q, p, d, u[r]), NEW v, v[q] = u[r],
         NEW C, NEW h, Even(N, C, r, u, h), C[p] = RED, C[Riser(N, p, d)] = RED,
         NoRedPair(N, C, r, u, Riser(N, p, d))
  PROVE  NoRedPair(M, C, q, v, p) /\ \E g : Even(M, C, q, v, g)
<1> DEFINE s == Riser(N, p, d)
           m == Mover(N, p, d)
           T == u[r]
           a == Kid(N, p, d)
           b == Kid(N, s, Other(d))
<1>1. /\ s \in T /\ s # p /\ s # r
      /\ m # Null => m \in T /\ m # p /\ m # s /\ m # r /\ Up(N, m) = s
      /\ Up(N, p) # p /\ Up(N, p) \in T
  BY Turning
<1>2. RED # BLACK /\ Null \notin Node /\ T \subseteq Node
  BY NodeFacts DEF RED, BLACK, Shape, Typed
<1>3. /\ q = r
      /\ \A n \in T : Up(M, n) = IF n = p THEN s ELSE IF n = m THEN p ELSE IF n = s THEN Up(N, p) ELSE Up(N, n)
  BY DEF Turn
<1>4. \A n \in T : C[n] = RED /\ n # r /\ n # s => C[Up(N, n)] = BLACK
  BY DEF NoRedPair
<1>5. C[m] = RED => m = Null \/ m \notin T
  BY <1>1, <1>2, <1>4
<1>6. ASSUME NEW n \in T, C[n] = RED, n # q, n # p PROVE C[Up(M, n)] = BLACK
  <2> HIDE DEF s, m, a, b, T
  <2>1. n # m
    BY <1>1, <1>2, <1>4, <1>6 DEF s, T
  <2>2. QED BY <1>1, <1>2, <1>3, <1>4, <1>6, <2>1 DEF s, T
<1>7. NoRedPair(M, C, q, v, p)
  BY <1>6 DEF NoRedPair
<1>8. /\ C \in Paints /\ h \in [Node \cup {Null} -> Nat]
      /\ \A n \in T : \A e \in Side : h[n] = h[Kid(N, n, e)] + Unit(C, n)
  BY DEF Even
<1>9. Other(d) \in Side /\ Unit(C, p) = 0 /\ Unit(C, s) = 0
  BY <1>2, Sides DEF Unit
<1>10. h[p] = h[a] + 0 /\ h[p] = h[s] + 0 /\ h[s] = h[m] + 0 /\ h[s] = h[b] + 0
  BY <1>1, <1>8, <1>9 DEF Riser, Mover
<1>11. h[p] \in Nat /\ h[a] \in Nat /\ h[m] \in Nat /\ h[b] \in Nat /\ h[s] \in Nat
  <2>1. a \in T \cup {Null} /\ m \in T \cup {Null} /\ b \in T \cup {Null}
    BY <1>1, <1>9, Around DEF Mover
  <2> HIDE DEF s, m, a, b
  <2>2. QED BY <1>1, <1>2, <1>8, <2>1
<1> DEFINE x == h[a]
<1>12. x \in Nat /\ x = h[a] + Unit(C, p) /\ h[a] = h[m] /\ x = h[b] /\ h[p] = x + Unit(C, s)
  BY <1>9, <1>10, <1>11
<1>13. Even(M, C, q, v, [h EXCEPT ![p] = x, ![s] = h[p]])
  BY <1>8, <1>12, EvenTurn
<1>14. QED BY <1>7, <1>13

\* The turn of a black grandparent ends with no red pair.
LEMMA OuterTurn ==
  ASSUME NEW N, NEW r, NEW u, Shape(N, r, u), NEW p \in u[r], NEW d \in Side, Riser(N, p, d) # Null,
         NEW M, NEW q, Turn(N, r, M, q, p, d, u[r]), NEW v, v[q] = u[r],
         NEW C, NEW h, Even(N, C, r, u, h), C[p] = BLACK, C[Riser(N, p, d)] = RED,
         Kid(N, p, d) # Null => C[Kid(N, p, d)] = BLACK,
         NoRedPair(N, C, r, u, Kid(N, Riser(N, p, d), Other(d))),
         NEW B \in Paints, B[p] = RED, B[Riser(N, p, d)] = BLACK,
         \A n \in u[r] : n # p /\ n # Riser(N, p, d) => B[n] = C[n]
  PROVE  NoRedPair(M, B, q, v, Null) /\ \E g : Even(M, B, q, v, g)
<1> DEFINE s == Riser(N, p, d)
           m == Mover(N, p, d)
           T == u[r]
           a == Kid(N, p, d)
           b == Kid(N, s, Other(d))
<1>1. /\ s \in T /\ s # p /\ s # r /\ Up(N, s) = p
      /\ m # Null => m \in T /\ m # p /\ m # s /\ m # r /\ Up(N, m) = s
      /\ s \notin u[a]
  BY Turning, SMTT(40)
<1>2. RED # BLACK /\ Null \notin Node /\ T \subseteq Node /\ r \in T
  BY NodeFacts, Around DEF RED, BLACK, Shape, Typed
<1>3. /\ q = IF p = r THEN s ELSE r
      /\ \A n \in T : Up(M, n) = IF n = p THEN s ELSE IF n = m THEN p ELSE IF n = s THEN Up(N, p) ELSE Up(N, n)
  BY DEF Turn
<1>4. \A n \in T : C[n] = RED /\ n # r /\ n # b => C[Up(N, n)] = BLACK
  BY DEF NoRedPair
<1>5. Other(d) \in Side /\ Other(Other(d)) = d /\ \A e \in Side : e = d \/ e = Other(d)
  BY Sides
<1>6. m # Null => m # b
  BY <1>1, <1>5, Around DEF Mover
<1>7. b # Null => Up(N, b) = s
  BY <1>1, <1>5, Around
<1>8. \A n \in T : n # r /\ Up(N, n) = p => n = a \/ n = s
  <2>1. \A n \in T : n # r => \E e \in Side : Kid(N, Up(N, n), e) = n
    BY DEF Shape, Ups
  <2>2. QED BY <1>5, <2>1 DEF Riser
<1>9. \A n \in T : n # r => Up(N, n) \in T
  BY DEF Shape, Ups
<1>10. ASSUME NEW n \in T, B[n] = RED, n # q PROVE B[Up(M, n)] = BLACK
  <2>1. n # s /\ n # Null
    BY <1>2, <1>10
  <2>2. CASE n = p
    BY <2>2, <1>3
  <2>3. CASE n # p
    <3>1. C[n] = RED /\ n # r
      BY <1>3, <1>10, <2>1, <2>3
    <3>2. n # m
      BY <1>1, <1>2, <1>4, <1>6, <2>1, <3>1
    <3>3. Up(M, n) = Up(N, n)
      BY <1>3, <2>1, <2>3, <3>2
    <3>4. Up(N, n) # p
      BY <1>2, <1>8, <2>1, <3>1
    <3>5. CASE Up(N, n) = s
      BY <3>3, <3>5
    <3>6. CASE Up(N, n) # s
      <4>1. n # b
        BY <1>7, <2>1, <3>6
      <4>2. C[Up(N, n)] = BLACK /\ Up(N, n) \in T
        BY <1>4, <1>9, <3>1, <4>1
      <4>3. QED BY <3>3, <3>4, <3>6, <4>2
    <3>7. QED BY <3>5, <3>6
  <2>4. QED BY <2>2, <2>3
<1>11. NoRedPair(M, B, q, v, Null)
  BY <1>10 DEF NoRedPair
<1>12. /\ C \in Paints /\ h \in [Node \cup {Null} -> Nat]
      /\ \A n \in T : \A e \in Side : h[n] = h[Kid(N, n, e)] + Unit(C, n)
  BY DEF Even
<1>13. Unit(C, p) = 1 /\ Unit(C, s) = 0 /\ Unit(B, p) = 0 /\ Unit(B, s) = 1
  BY <1>2 DEF Unit
<1>14. h[p] = h[a] + 1 /\ h[p] = h[s] + 1 /\ h[s] = h[m] + 0 /\ h[s] = h[b] + 0
  BY <1>1, <1>5, <1>12, <1>13 DEF Riser, Mover
<1>15. h[p] \in Nat /\ h[a] \in Nat /\ h[m] \in Nat /\ h[b] \in Nat /\ h[s] \in Nat
  <2>1. a \in T \cup {Null} /\ m \in T \cup {Null} /\ b \in T \cup {Null}
    BY <1>1, <1>5, Around DEF Mover
  <2> HIDE DEF s, m, a, b
  <2>2. QED BY <1>1, <1>2, <1>12, <2>1
<1> DEFINE x == h[a]
<1>16. x \in Nat /\ x = h[a] + Unit(B, p) /\ h[a] = h[m] /\ x = h[b] /\ h[p] = x + Unit(B, s)
  BY <1>13, <1>14, <1>15
<1>17. Even(M, B, q, v, [h EXCEPT ![p] = x, ![s] = h[p]])
  <2>1. \A n \in u[r] : n # p /\ n # Riser(N, p, d) => B[n] = C[n]
    OBVIOUS
  <2>2. /\ x \in Nat /\ x = h[Kid(N, p, d)] + Unit(B, p) /\ h[Kid(N, p, d)] = h[Mover(N, p, d)]
        /\ x = h[Kid(N, Riser(N, p, d), Other(d))] /\ h[p] = x + Unit(B, Riser(N, p, d))
    BY <1>16
  <2>3. Even(N, C, r, u, h) /\ v[q] = u[r] /\ Turn(N, r, M, q, p, d, u[r]) /\ Riser(N, p, d) # Null /\ B \in Paints
    OBVIOUS
  <2> HIDE DEF x, s
  <2>4. Even(M, B, q, v, [h EXCEPT ![p] = x, ![Riser(N, p, d)] = h[p]])
    BY <2>1, <2>2, <2>3, EvenTurn
  <2>5. QED BY <2>4 DEF s
<1>18. QED BY <1>11, <1>17

-----------------------------------------------------------------------------
(* What a rotation writes *)

\* One assignment to a field of a node.
SetUp(N, x, y)     == [N EXCEPT ![x].parent = y]
SetKid(N, x, d, y) == [N EXCEPT ![x].kid[d] = y]
SetCol(N, x, y)    == [N EXCEPT ![x].col = y]

\* What it leaves.
Else(N, M, x)        == M \in Nodes /\ M[x].key = N[x].key /\ \A n \in Node : n # x => M[n] = N[n]
UpIs(N, M, x, y)     == M[x].parent = y /\ M[x].kid = N[x].kid /\ M[x].col = N[x].col
KidIs(N, M, x, d, y) == /\ M[x].parent = N[x].parent /\ M[x].col = N[x].col
                        /\ \A e \in Side : M[x].kid[e] = IF e = d THEN y ELSE N[x].kid[e]
ColIs(N, M, x, y)    == M[x].parent = N[x].parent /\ M[x].kid = N[x].kid /\ M[x].col = y

\* What an assignment to a parent link changes.
LEMMA UpSet ==
  ASSUME NEW N, NEW x, NEW y, NEW M, N \in Nodes /\ x \in Node /\ y \in Node \cup {Null} /\ M = SetUp(N, x, y)
  PROVE  Else(N, M, x) /\ UpIs(N, M, x, y)
BY DEF Nodes, SetUp, Else, UpIs

\* What an assignment to a child link changes.
LEMMA KidSet ==
  ASSUME NEW N, NEW x, NEW d, NEW y, NEW M,
         N \in Nodes /\ x \in Node /\ d \in Side /\ y \in Node \cup {Null} /\ M = SetKid(N, x, d, y)
  PROVE  Else(N, M, x) /\ KidIs(N, M, x, d, y)
BY DEF Nodes, SetKid, Else, KidIs

\* What an assignment to a colour changes.
LEMMA ColSet ==
  ASSUME NEW N, NEW x, NEW y, NEW M, N \in Nodes /\ x \in Node /\ y \in {RED, BLACK} /\ M = SetCol(N, x, y)
  PROVE  Else(N, M, x) /\ ColIs(N, M, x, y)
BY DEF Nodes, SetCol, Else, ColIs

\* The six assignments both rotations begin with.
Painted(N, p, s, m, w, d, o) ==
    [N EXCEPT ![p].parent = s, ![p].kid[o] = m, ![s].kid[d] = p, ![s].parent = w, ![p].col = RED, ![s].col = BLACK]

PaintedWrites(N, M, p, s, m, w, d, o) ==
    /\ M \in Nodes /\ \A n \in Node : M[n].key = N[n].key /\ (n # p /\ n # s => M[n] = N[n])
    /\ M[p].parent = s /\ M[p].kid[d] = N[p].kid[d] /\ M[p].kid[o] = m /\ M[p].col = RED
    /\ M[s].parent = w /\ M[s].kid[d] = p /\ M[s].kid[o] = N[s].kid[o] /\ M[s].col = BLACK

\* What the six assignments leave in p, in s and elsewhere.
LEMMA PaintedIs ==
  ASSUME NEW N \in Nodes, NEW p \in Node, NEW s \in Node, p # s, NEW m \in Node \cup {Null}, NEW w \in Node \cup {Null},
         NEW d \in Side, NEW o \in Side, o # d, NEW M, M = Painted(N, p, s, m, w, d, o)
  PROVE  PaintedWrites(N, M, p, s, m, w, d, o)
<1> DEFINE A1 == SetUp(N, p, s)
           A2 == SetKid(A1, p, o, m)
           A3 == SetKid(A2, s, d, p)
           A4 == SetUp(A3, s, w)
           A5 == SetCol(A4, p, RED)
           A6 == SetCol(A5, s, BLACK)
<1>1. M = A6
  BY DEF Painted, SetUp, SetKid, SetCol
<1>2. Else(N, A1, p) /\ UpIs(N, A1, p, s)
  BY UpSet
<1> HIDE DEF A1
<1>3. Else(A1, A2, p) /\ KidIs(A1, A2, p, o, m)
  BY <1>2, KidSet DEF Else
<1> HIDE DEF A2
<1>4. Else(A2, A3, s) /\ KidIs(A2, A3, s, d, p)
  BY <1>3, KidSet DEF Else
<1> HIDE DEF A3
<1>5. Else(A3, A4, s) /\ UpIs(A3, A4, s, w)
  BY <1>4, UpSet DEF Else
<1> HIDE DEF A4
<1>6. Else(A4, A5, p) /\ ColIs(A4, A5, p, RED)
  BY <1>5, ColSet DEF Else
<1> HIDE DEF A5
<1>7. Else(A5, A6, s) /\ ColIs(A5, A6, s, BLACK)
  BY <1>6, ColSet DEF Else
<1> HIDE DEF A6
<1>8. M[p].parent = s /\ M[p].kid[d] = N[p].kid[d] /\ M[p].kid[o] = m /\ M[p].col = RED /\ M[p].key = N[p].key
  BY <1>1, <1>2, <1>3, <1>4, <1>5, <1>6, <1>7 DEF Else, UpIs, KidIs, ColIs
<1>9. M[s].parent = w /\ M[s].kid[o] = N[s].kid[o] /\ M[s].kid[d] = p /\ M[s].col = BLACK /\ M[s].key = N[s].key
  BY <1>1, <1>2, <1>3, <1>4, <1>5, <1>6, <1>7 DEF Else, UpIs, KidIs, ColIs
<1>10. \A n \in Node : n # p /\ n # s => M[n] = N[n]
  BY <1>1, <1>2, <1>3, <1>4, <1>5, <1>6, <1>7 DEF Else
<1>11. M \in Nodes
  BY <1>1, <1>7 DEF Else
<1>12. QED BY <1>8, <1>9, <1>10, <1>11 DEF PaintedWrites

\* The pieces of a rotation, by their names.
Hooked(M, m, p)  == IF m = Null THEN M ELSE SetUp(M, m, p)
Hook(K, w, p)    == IF K[w].kid["left"] = p THEN "left" ELSE "right"
Tree(N, r)       == [node |-> N, root |-> r]

\* A tree has the nodes and the root it is made of.
LEMMA TreeOf ==
  \A N, r : /\ Tree(N, r).node = N /\ Tree(N, r).root = r
            /\ \A L : [Tree(N, r) EXCEPT !.node = L] = Tree(L, r)
BY DEF Tree

\* A rotation of the tree t, by its pieces.
Rotation(t, N, r, p, d) ==
    LET s == N[p].kid[Other(d)]
        m == N[s].kid[d]
        w == N[p].parent
        K == Hooked(Painted(N, p, s, m, w, d, Other(d)), m, p)
    IN IF p = r THEN Tree(K, s) ELSE [t EXCEPT !.node = SetKid(K, w, Hook(K, w, p), s)]

\* The rotation of the model is made of these pieces.
LEMMA RotatedPieces ==
  ASSUME NEW t, NEW p, NEW d
  PROVE  Rotated(t, p, d) = Rotation(t, t.node, t.root, p, d)
BY ZenonT(40) DEF Rotated, Rotation, Hooked, Hook, Painted, SetUp, SetKid, Tree

\* The pieces, where nodes and root are known.
LEMMA RotatedNode ==
  ASSUME NEW N, NEW r, NEW p, NEW d
  PROVE  Rotated(Tree(N, r), p, d) =
           LET s == N[p].kid[Other(d)]
               m == N[s].kid[d]
               w == N[p].parent
               K == Hooked(Painted(N, p, s, m, w, d, Other(d)), m, p)
           IN IF p = r THEN Tree(K, s) ELSE Tree(SetKid(K, w, Hook(K, w, p), s), r)
<1>1. Tree(N, r).node = N /\ Tree(N, r).root = r /\ \A L : [Tree(N, r) EXCEPT !.node = L] = Tree(L, r)
  BY TreeOf, Zenon
<1>2. Rotated(Tree(N, r), p, d) = Rotation(Tree(N, r), N, r, p, d)
  BY <1>1, RotatedPieces
<1>3. QED BY <1>1, <1>2, Zenon DEF Rotation

\* What RotateR and RotateL write.
RotateWrites(N, r, M, q, p, d, T) ==
    /\ M \in Nodes /\ Turn(N, r, M, q, p, d, T)
    /\ \A n \in Node :
          /\ M[n].key = N[n].key
          /\ M[n].col = IF n = p THEN RED ELSE IF n = Riser(N, p, d) THEN BLACK ELSE N[n].col
          /\ n \notin T => M[n] = N[n]

\* RotateR and RotateL turn the links of the tree, paint p red and its riser
\* black, and touch nothing else.
LEMMA RotatedIs ==
  ASSUME NEW N \in Nodes, NEW r, NEW u, Shape(N, r, u), NEW p \in u[r], NEW d \in Side, Riser(N, p, d) # Null,
         NEW t, t = Rotated(Tree(N, r), p, d)
  PROVE  t = Tree(t.node, t.root) /\ RotateWrites(N, r, t.node, t.root, p, d, u[r])
<1> DEFINE s == Riser(N, p, d)
           m == Mover(N, p, d)
           o == Other(d)
           T == u[r]
           w == Up(N, p)
           A6 == Painted(N, p, s, m, w, d, o)
           A7 == Hooked(A6, m, p)
           e == Hook(A7, w, p)
           A8 == SetKid(A7, w, e, s)
<1>1. /\ s \in T /\ s # p /\ s # r
      /\ m # Null => m \in T /\ m # p /\ m # s
      /\ p # r => w \in T /\ w # p /\ w # s /\ w # m
      /\ p = r => w = Null
  BY Turning
<1>2. /\ T \subseteq Node /\ Null \notin Node /\ p \in Node /\ s \in Node /\ m \in Node \cup {Null}
      /\ w \in Node \cup {Null} /\ o \in Side /\ o # d /\ Other(o) = d /\ \A x \in Side : x = d \/ x = o
  <2>1. T \subseteq Node /\ Null \notin Node /\ p \in Node
    BY NodeFacts DEF Shape, Typed
  <2>2. QED BY <1>1, <2>1, Sides
<1>3. t = IF p = r THEN Tree(A7, s) ELSE Tree(A8, r)
  <2>1. /\ s = N[p].kid[Other(d)] /\ m = N[s].kid[d] /\ w = N[p].parent /\ o = Other(d)
    BY DEF Riser, Mover, Kid, Up
  <2>2. t = LET s1 == N[p].kid[Other(d)]
                m1 == N[s1].kid[d]
                w1 == N[p].parent
                K1 == Hooked(Painted(N, p, s1, m1, w1, d, Other(d)), m1, p)
            IN IF p = r THEN Tree(K1, s1) ELSE Tree(SetKid(K1, w1, Hook(K1, w1, p), s1), r)
    BY RotatedNode
  <2> HIDE DEF s, m, w, o
  <2>3. QED BY <2>1, <2>2
<1> HIDE DEF s, m, o, w, T
<1>9. /\ A6 \in Nodes /\ \A n \in Node : A6[n].key = N[n].key /\ (n # p /\ n # s => A6[n] = N[n])
      /\ A6[p].parent = s /\ A6[p].kid[d] = N[p].kid[d] /\ A6[p].kid[o] = m /\ A6[p].col = RED
      /\ A6[s].parent = w /\ A6[s].kid[d] = p /\ A6[s].kid[o] = N[s].kid[o] /\ A6[s].col = BLACK
  <2>1. N \in Nodes /\ p \in Node /\ s \in Node /\ p # s /\ m \in Node \cup {Null} /\ w \in Node \cup {Null}
        /\ d \in Side /\ o \in Side /\ o # d
    BY <1>1, <1>2
  <2>2. PaintedWrites(N, A6, p, s, m, w, d, o)
    BY <2>1, PaintedIs
  <2>3. QED BY <2>2 DEF PaintedWrites
<1> HIDE DEF A6
<1>10. /\ A7 \in Nodes /\ \A n \in Node : /\ A7[n].key = A6[n].key /\ A7[n].kid = A6[n].kid /\ A7[n].col = A6[n].col
                                          /\ A7[n].parent = IF n = m THEN p ELSE A6[n].parent
                                          /\ n # m => A7[n] = A6[n]
  <2>1. CASE m = Null
    BY <2>1, <1>2, <1>9 DEF Hooked
  <2>2. CASE m # Null
    <3>1. Else(A6, A7, m) /\ UpIs(A6, A7, m, p)
      BY <2>2, <1>2, <1>9, UpSet DEF Hooked
    <3>2. QED BY <3>1 DEF Else, UpIs
  <2>3. QED BY <2>1, <2>2
<1> HIDE DEF A7
<1>11. /\ e \in Side
       /\ p # r => N[w].kid[e] = p /\ A7[w].kid = N[w].kid /\ A7[w] = N[w] /\ w \in Node
  <2>1. p # r => A7[w] = N[w] /\ w \in Node
    BY <1>1, <1>2, <1>9, <1>10
  <2>2. p # r => \E x \in Side : N[w].kid[x] = p
    BY DEF Shape, Ups, w, Up, Kid
  <2>3. QED BY <2>1, <2>2 DEF Side, Hook
<1>12. p # r => \A x \in Side : x # e => N[w].kid[x] # p
  <2>1. SUFFICES ASSUME p # r PROVE Kid(N, w, e) # Kid(N, w, Other(e))
    BY <1>11, Sides DEF Kid
  <2>2. w \in u[r] /\ Kid(N, w, e) # Null /\ e \in Side
    BY <1>1, <1>2, <1>11, <2>1 DEF Kid, T
  <2>3. QED BY <2>2, Around
<1> HIDE DEF e
<1>13. p # r => Else(A7, A8, w) /\ KidIs(A7, A8, w, e, s)
  BY <1>2, <1>10, <1>11, KidSet
<1> HIDE DEF A8
<1> DEFINE M == t.node
           q == t.root
<1>14. t = Tree(M, q) /\ IF p = r THEN M = A7 /\ q = s ELSE M = A8 /\ q = r
  <2>1. \A L, x : Tree(L, x).node = L /\ Tree(L, x).root = x
    BY TreeOf, Zenon
  <2>2. QED BY <2>1, <1>3
<1> HIDE DEF M, q
<1>15. /\ M \in Nodes /\ q = IF p = r THEN s ELSE r
       /\ \A n \in Node : /\ M[n].key = A7[n].key /\ M[n].parent = A7[n].parent /\ M[n].col = A7[n].col
                          /\ n # w \/ p = r => M[n] = A7[n]
                          /\ \A x \in Side : M[n].kid[x] = IF p # r /\ n = w /\ x = e THEN s ELSE A7[n].kid[x]
  <2>1. CASE p = r
    BY <2>1, <1>10, <1>14
  <2>2. CASE p # r
    BY <2>2, <1>13, <1>14 DEF Else, KidIs
  <2>3. QED BY <2>1, <2>2
<1>16. \A n \in T : Up(M, n) = IF n = p THEN s ELSE IF n = m THEN p ELSE IF n = s THEN w ELSE Up(N, n)
  BY <1>1, <1>2, <1>9, <1>10, <1>15 DEF Up
<1>17. /\ Kid(M, p, d) = Kid(N, p, d) /\ Kid(M, p, o) = m
       /\ Kid(M, s, d) = p /\ Kid(M, s, o) = Kid(N, s, o)
  BY <1>1, <1>2, <1>9, <1>10, <1>15 DEF Kid
<1>18. \A n \in T \ {p, s} : \A x \in Side : Kid(M, n, x) = IF Kid(N, n, x) = p THEN s ELSE Kid(N, n, x)
  <2> SUFFICES ASSUME NEW n \in T \ {p, s}, NEW x \in Side
               PROVE  Kid(M, n, x) = IF Kid(N, n, x) = p THEN s ELSE Kid(N, n, x)
    OBVIOUS
  <2>1. n \in Node /\ A7[n].kid = N[n].kid
    BY <1>2, <1>9, <1>10
  <2>2. M[n].kid[x] = IF p # r /\ n = w /\ x = e THEN s ELSE N[n].kid[x]
    BY <2>1, <1>15
  <2>3. N[n].kid[x] = p => p # r /\ n = w
    <3>1. Kid(N, n, x) = p => Up(N, p) = n
      BY <1>2 DEF Shape, Downs, T
    <3>2. QED BY <3>1, <1>1, <1>2, <2>1 DEF Kid, w
  <2>4. QED BY <2>2, <2>3, <1>11, <1>12 DEF Kid
<1>19. Turn(N, r, M, q, p, d, T)
  <2>1. /\ q = IF p = r THEN Riser(N, p, d) ELSE r
        /\ \A n \in T : Up(M, n) = IF n = p THEN Riser(N, p, d) ELSE IF n = Mover(N, p, d) THEN p
                                   ELSE IF n = Riser(N, p, d) THEN Up(N, p) ELSE Up(N, n)
    BY <1>15, <1>16 DEF s, m, w
  <2>2. /\ Kid(M, p, d) = Kid(N, p, d) /\ Kid(M, p, Other(d)) = Mover(N, p, d)
        /\ Kid(M, Riser(N, p, d), d) = p
        /\ Kid(M, Riser(N, p, d), Other(d)) = Kid(N, Riser(N, p, d), Other(d))
    BY <1>17 DEF s, m, o
  <2>3. \A n \in T \ {p, Riser(N, p, d)} : \A x \in Side :
           Kid(M, n, x) = IF Kid(N, n, x) = p THEN Riser(N, p, d) ELSE Kid(N, n, x)
    BY <1>18 DEF s
  <2>4. QED BY <2>1, <2>2, <2>3, Zenon DEF Turn
<1>20. ASSUME NEW n \in Node
       PROVE  /\ M[n].key = N[n].key
              /\ M[n].col = IF n = p THEN RED ELSE IF n = s THEN BLACK ELSE N[n].col
              /\ n \notin T => M[n] = N[n]
  <2>1. M[n].key = N[n].key /\ M[n].col = IF n = p THEN RED ELSE IF n = s THEN BLACK ELSE N[n].col
    BY <1>1, <1>9, <1>10, <1>15
  <2>2. ASSUME n \notin T PROVE M[n] = N[n]
    <3>1. n # p /\ n # s /\ n # m /\ (n # w \/ p = r)
      BY <1>1, <1>2, <2>2 DEF T
    <3>2. QED BY <3>1, <1>9, <1>10, <1>15
  <2>3. QED BY <2>1, <2>2
<1>21. RotateWrites(N, r, M, q, p, d, T)
  BY <1>15, <1>19, <1>20 DEF RotateWrites, s
<1>22. QED BY <1>14, <1>21 DEF M, q, T

-----------------------------------------------------------------------------
(* Colours and the other changes *)

\* The links of M are those of N.
SameLinks(N, M, T) == \A n \in T : Up(M, n) = Up(N, n) /\ \A d \in Side : Kid(M, n, d) = Kid(N, n, d)

Coloured(N, C, r, u, z) == NoRedPair(N, C, r, u, z) /\ \E h : Even(N, C, r, u, h)

EvenIs(N, C, r, u, h) ==
    /\ RED # BLACK /\ Null \notin Node /\ u[r] \subseteq Node /\ Null \notin u[r]
    /\ C \in Paints /\ h \in [Node \cup {Null} -> Nat] /\ h[Null] = 0
    /\ \A n \in u[r] : /\ h[n] \in Nat /\ Unit(C, n) \in Nat
                       /\ (C[n] = BLACK => Unit(C, n) = 1) /\ (C[n] = RED => Unit(C, n) = 0)
                       /\ \A d \in Side : /\ h[n] = h[Kid(N, n, d)] + Unit(C, n)
                                          /\ Kid(N, n, d) \in u[r] \cup {Null} /\ h[Kid(N, n, d)] \in Nat
                                          /\ Kid(N, n, d) # Null => Up(N, Kid(N, n, d)) = n
                                          /\ Kid(N, n, d) # n

\* What an equally black tree gives at each node.
LEMMA EvenFacts ==
  ASSUME NEW N, NEW r, NEW u, Shape(N, r, u), NEW C, NEW h, Even(N, C, r, u, h)
  PROVE  EvenIs(N, C, r, u, h)
<1>1. RED # BLACK
  BY DEF RED, BLACK
<1>2. Null \notin Node /\ u[r] \subseteq Node /\ Null \notin u[r]
  BY NodeFacts DEF Shape, Typed
<1>3. C \in Paints /\ h \in [Node \cup {Null} -> Nat] /\ h[Null] = 0
  BY DEF Even
<1>4. ASSUME NEW n \in u[r]
      PROVE  h[n] \in Nat /\ Unit(C, n) \in Nat /\ (C[n] = BLACK => Unit(C, n) = 1) /\ (C[n] = RED => Unit(C, n) = 0)
  BY <1>1, <1>2, <1>3 DEF Unit
<1>5. ASSUME NEW n \in u[r], NEW d \in Side
      PROVE  /\ h[n] = h[Kid(N, n, d)] + Unit(C, n)
             /\ Kid(N, n, d) \in u[r] \cup {Null} /\ h[Kid(N, n, d)] \in Nat
             /\ Kid(N, n, d) # Null => Up(N, Kid(N, n, d)) = n
             /\ Kid(N, n, d) # n
  <2>1. h[n] = h[Kid(N, n, d)] + Unit(C, n)
    BY DEF Even
  <2>2. /\ Kid(N, n, d) \in u[r] \cup {Null} /\ (Kid(N, n, d) # Null => Up(N, Kid(N, n, d)) = n)
        /\ Kid(N, n, d) # n
    BY Around
  <2>3. h[Kid(N, n, d)] \in Nat
    BY <1>2, <1>3, <2>2
  <2>4. QED BY <2>1, <2>2, <2>3
<1>6. QED BY <1>1, <1>2, <1>3, <1>4, <1>5 DEF EvenIs

\* A red node hung where a child was missing.
LEMMA HungColoured ==
  ASSUME NEW N, NEW r, NEW u, Shape(N, r, u), NEW p \in u[r], NEW d \in Side, Kid(N, p, d) = Null,
         NEW x \in Node, x \notin u[r], NEW M, Hung(N, M, p, d, x, u[r]), NEW v, v[r] = u[r] \cup {x},
         NEW C, C[x] = RED, Coloured(N, C, r, u, Null)
  PROVE  Coloured(M, C, r, v, x)
<1> DEFINE T == u[r]
<1>1. PICK h : Even(N, C, r, u, h)
  BY DEF Coloured
<1>2. /\ RED # BLACK /\ Null \notin Node /\ T \subseteq Node /\ Null \notin T
      /\ C \in Paints /\ h \in [Node \cup {Null} -> Nat] /\ h[Null] = 0
      /\ \A n \in T : /\ h[n] \in Nat /\ Unit(C, n) \in Nat
                      /\ \A e \in Side : h[n] = h[Kid(N, n, e)] + Unit(C, n) /\ Kid(N, n, e) \in T \cup {Null}
  <2>1. EvenIs(N, C, r, u, h)
    BY <1>1, EvenFacts
  <2>2. QED BY <2>1 DEF EvenIs
<1>3. /\ Up(M, x) = p /\ \A e \in Side : Kid(M, x, e) = Null
      /\ \A n \in T : /\ Up(M, n) = Up(N, n)
                      /\ \A e \in Side : Kid(M, n, e) = IF n = p /\ e = d THEN x ELSE Kid(N, n, e)
  BY DEF Hung
<1>4. NoRedPair(M, C, r, v, x)
  BY <1>2, <1>3 DEF Coloured, NoRedPair
<1> DEFINE g == [h EXCEPT ![x] = 0]
<1>5. /\ g \in [Node \cup {Null} -> Nat] /\ g[x] = 0 /\ g[Null] = 0
      /\ \A n \in T \cup {Null} : g[n] = h[n]
  BY <1>2
<1>6. Unit(C, x) = 0
  BY <1>2 DEF Unit
<1> HIDE DEF g
<1>7. ASSUME NEW n \in T \cup {x}, NEW e \in Side
      PROVE  g[n] = g[Kid(M, n, e)] + Unit(C, n)
  <2>1. CASE n = x
    BY <2>1, <1>3, <1>5, <1>6
  <2>2. CASE n \in T /\ n = p /\ e = d
    BY <2>2, <1>2, <1>3, <1>5
  <2>3. CASE n \in T /\ ~ (n = p /\ e = d)
    BY <2>3, <1>2, <1>3, <1>5
  <2>4. QED BY <2>1, <2>2, <2>3
<1>8. Even(M, C, r, v, g)
  BY <1>2, <1>5, <1>7 DEF Even
<1>9. QED BY <1>4, <1>8 DEF Coloured

\* Its first node, black.
LEMMA AloneColoured ==
  ASSUME NEW M, NEW x \in Node, \A e \in Side : Kid(M, x, e) = Null, NEW u, u[x] = {x}, NEW C \in Paints, C[x] = BLACK
  PROVE  Coloured(M, C, x, u, Null)
<1> DEFINE h == [n \in Node \cup {Null} |-> IF n = x THEN 1 ELSE 0]
<1>1. Null \notin Node
  BY NodeFacts
<1>2. h \in [Node \cup {Null} -> Nat] /\ h[x] = 1 /\ h[Null] = 0
  BY <1>1
<1> HIDE DEF h
<1>3. Even(M, C, x, u, h)
  BY <1>2 DEF Even, Unit
<1>4. QED BY <1>3 DEF Coloured, NoRedPair

\* The empty tree is coloured as it should be.
LEMMA EmptyColoured ==
  ASSUME NEW M, NEW u, u[Null] = {}, NEW C \in Paints
  PROVE  Coloured(M, C, Null, u, Null)
<1> DEFINE h == [n \in Node \cup {Null} |-> 0]
<1>1. h \in [Node \cup {Null} -> Nat] /\ h[Null] = 0
  OBVIOUS
<1> HIDE DEF h
<1>2. Even(M, C, Null, u, h)
  BY <1>1 DEF Even
<1>3. QED BY <1>2 DEF Coloured, NoRedPair

\* A red pair z, p below a red uncle y moves up to the grandparent g.
LEMMA RecolourColoured ==
  ASSUME NEW N, NEW r, NEW u, Shape(N, r, u), NEW M, SameLinks(N, M, u[r]),
         NEW z \in u[r], NEW p \in u[r], NEW y \in u[r], NEW g \in u[r], NEW d \in Side,
         Up(N, z) = p, Kid(N, g, d) = p, Kid(N, g, Other(d)) = y,
         NEW C, C[p] = RED, C[y] = RED, Coloured(N, C, r, u, z),
         NEW B \in Paints, B[p] = BLACK, B[y] = BLACK, B[g] = RED,
         \A n \in u[r] : n # p /\ n # y /\ n # g => B[n] = C[n]
  PROVE  Coloured(M, B, r, u, g)
<1> DEFINE T == u[r]
<1>1. PICK h : Even(N, C, r, u, h)
  BY DEF Coloured
<1>2. /\ RED # BLACK /\ Null \notin Node /\ T \subseteq Node /\ Null \notin T
      /\ C \in Paints /\ h \in [Node \cup {Null} -> Nat] /\ h[Null] = 0
      /\ \A n \in T : /\ h[n] \in Nat /\ Unit(C, n) \in Nat
                      /\ (C[n] = BLACK => Unit(C, n) = 1) /\ (C[n] = RED => Unit(C, n) = 0)
                      /\ \A e \in Side : /\ h[n] = h[Kid(N, n, e)] + Unit(C, n) /\ Kid(N, n, e) \in T \cup {Null}
                                         /\ h[Kid(N, n, e)] \in Nat
                                         /\ Kid(N, n, e) # Null => Up(N, Kid(N, n, e)) = n
                                         /\ Kid(N, n, e) # n
  <2>1. EvenIs(N, C, r, u, h)
    BY <1>1, EvenFacts
  <2>2. QED BY <2>1 DEF EvenIs
<1>3. Other(d) \in Side /\ \A e \in Side : e = d \/ e = Other(d)
  BY Sides
<1>4. \A n \in T : Up(M, n) = Up(N, n) /\ \A e \in Side : Kid(M, n, e) = Kid(N, n, e)
  BY DEF SameLinks
<1>5. \A n \in T : C[n] = RED /\ n # r /\ n # z => C[Up(N, n)] = BLACK
  BY DEF Coloured, NoRedPair
<1>6. Up(N, p) = g /\ Up(N, y) = g /\ p # g /\ y # g /\ p # y
  <2>1. p # Null /\ y # Null
    BY <1>2
  <2>2. p # y
    BY <2>1, Around
  <2>3. QED BY <1>2, <1>3, <2>1, <2>2
<1>7. (r # Null => Up(N, r) = Null) /\ \A n \in T : n # r => Up(N, n) \in T /\ \E e \in Side : Kid(N, Up(N, n), e) = n
  BY DEF Shape, Ups
<1>8. p # r /\ p # z /\ y # r
  <2>1. p # r /\ y # r
    BY <1>2, <1>6, <1>7
  <2>2. p # z
    BY <2>1, Above
  <2>3. QED BY <2>1, <2>2
<1>9. C[g] = BLACK
  BY <1>5, <1>6, <1>8
<1>10. \A n \in T : n # r /\ Up(N, n) = g => n = p \/ n = y
  BY <1>3, <1>7
<1>11. NoRedPair(M, B, r, u, g)
  <2> SUFFICES ASSUME NEW n \in T, B[n] = RED, n # r, n # g PROVE B[Up(M, n)] = BLACK
    BY DEF NoRedPair
  <2>1. n # p /\ n # y /\ C[n] = RED /\ Up(M, n) = Up(N, n) /\ Up(N, n) \in T
    BY <1>2, <1>4, <1>7
  <2>2. Up(N, n) # g
    BY <2>1, <1>10
  <2>3. CASE n = z
    BY <2>1, <2>3
  <2>4. CASE n # z
    BY <2>1, <2>2, <2>4, <1>5
  <2>5. QED BY <2>3, <2>4
<1> DEFINE k == [h EXCEPT ![p] = h[p] + 1, ![y] = h[y] + 1]
<1>12. /\ k \in [Node \cup {Null} -> Nat] /\ k[p] = h[p] + 1 /\ k[y] = h[y] + 1
       /\ \A n \in T \cup {Null} : n # p /\ n # y => k[n] = h[n]
  BY <1>2, <1>6
<1>13. \A n \in T : /\ (n = p \/ n = y => Unit(B, n) = 1 /\ Unit(C, n) = 0)
                    /\ (n = g => Unit(B, n) = 0 /\ Unit(C, n) = 1)
                    /\ (n # p /\ n # y /\ n # g => Unit(B, n) = Unit(C, n))
  BY <1>2, <1>9 DEF Unit
<1> HIDE DEF k
<1>14. ASSUME NEW n \in T, NEW e \in Side
       PROVE  k[n] = k[Kid(M, n, e)] + Unit(B, n)
  <2> DEFINE c == Kid(N, n, e)
  <2>1. /\ Kid(M, n, e) = c /\ c \in T \cup {Null} /\ h[n] = h[c] + Unit(C, n) /\ h[n] \in Nat /\ h[c] \in Nat
        /\ (c # Null => Up(N, c) = n) /\ p # Null /\ y # Null
    BY <1>2, <1>4
  <2>2. n = g => c = p \/ c = y
    BY <1>3
  <2> HIDE DEF c
  <2>3. n # g => c # p /\ c # y
    BY <2>1, <1>6
  <2>4. CASE n = g
    BY <2>1, <2>2, <2>4, <1>6, <1>12, <1>13
  <2>5. CASE n = p \/ n = y
    BY <2>1, <2>3, <2>5, <1>6, <1>12, <1>13
  <2>6. CASE n # g /\ n # p /\ n # y
    BY <2>1, <2>3, <2>6, <1>12, <1>13
  <2>7. QED BY <2>4, <2>5, <2>6
<1>15. k[Null] = 0
  BY <1>2, <1>12
<1>16. Even(M, B, r, u, k)
  BY <1>12, <1>14, <1>15 DEF Even
<1>17. QED BY <1>11, <1>16 DEF Coloured

\* The root is painted black.
LEMMA BlackenColoured ==
  ASSUME NEW N, NEW r, NEW u, Shape(N, r, u), r \in u[r], NEW M, SameLinks(N, M, u[r]),
         NEW C, Coloured(N, C, r, u, Null), NEW B \in Paints, B[r] = BLACK, \A n \in u[r] : n # r => B[n] = C[n]
  PROVE  Coloured(M, B, r, u, Null)
<1> DEFINE T == u[r]
           a == Kid(N, r, "left")
<1>1. PICK h : Even(N, C, r, u, h)
  BY DEF Coloured
<1>2. /\ RED # BLACK /\ Null \notin Node /\ T \subseteq Node /\ Null \notin T
      /\ C \in Paints /\ h \in [Node \cup {Null} -> Nat] /\ h[Null] = 0
      /\ \A n \in T : /\ h[n] \in Nat /\ Unit(C, n) \in Nat
                      /\ \A e \in Side : /\ h[n] = h[Kid(N, n, e)] + Unit(C, n) /\ Kid(N, n, e) \in T \cup {Null}
                                         /\ h[Kid(N, n, e)] \in Nat
                                         /\ Kid(N, n, e) # Null => Up(N, Kid(N, n, e)) = n
  <2>1. EvenIs(N, C, r, u, h)
    BY <1>1, EvenFacts
  <2>2. QED BY <2>1 DEF EvenIs
<1>3. \A n \in T : Up(M, n) = Up(N, n) /\ \A e \in Side : Kid(M, n, e) = Kid(N, n, e)
  BY DEF SameLinks
<1>4. (r # Null => Up(N, r) = Null) /\ \A n \in T : n # r => Up(N, n) \in T
  BY DEF Shape, Ups
<1>5. NoRedPair(M, B, r, u, Null)
  BY <1>2, <1>3, <1>4 DEF Coloured, NoRedPair
<1> DEFINE k == [h EXCEPT ![r] = h[a] + 1]
<1>6. "left" \in Side /\ h[a] \in Nat
  BY <1>2 DEF Side
<1> HIDE DEF a
<1>7. /\ k \in [Node \cup {Null} -> Nat] /\ k[r] = h[a] + 1 /\ k[Null] = 0
      /\ \A n \in T \cup {Null} : n # r => k[n] = h[n]
  BY <1>2, <1>6
<1>8. Unit(B, r) = 1 /\ \A n \in T : n # r => Unit(B, n) = Unit(C, n)
  BY DEF Unit
<1> HIDE DEF k
<1>9. ASSUME NEW n \in T, NEW e \in Side
      PROVE  k[n] = k[Kid(M, n, e)] + Unit(B, n)
  <2> DEFINE c == Kid(N, n, e)
  <2>1. /\ Kid(M, n, e) = c /\ c \in T \cup {Null} /\ h[n] = h[c] + Unit(C, n) /\ h[c] \in Nat
        /\ c # r
    BY <1>2, <1>3, <1>4
  <2>2. n = r => h[c] = h[a]
    <3>1. h[r] = h[a] + Unit(C, r) /\ h[a] \in Nat /\ Unit(C, r) \in Nat
      BY <1>2, <1>6 DEF a
    <3> HIDE DEF c
    <3>2. QED BY <2>1, <3>1
  <2> HIDE DEF c
  <2>3. QED BY <2>1, <2>2, <1>7, <1>8
<1>10. Even(M, B, r, u, k)
  BY <1>7, <1>9 DEF Even
<1>11. QED BY <1>5, <1>10 DEF Coloured

-----------------------------------------------------------------------------
(* Balance *)

\* The black nodes above n, n among them.
Over(C, r, u, n) == {m \in u[r] : n \in u[m] /\ C[m] = BLACK}

\* From any node, the black ones above it and those below make the same number.
LEMMA OverIs ==
  ASSUME NEW N, NEW r, NEW u, Shape(N, r, u), NEW C, NEW h, Even(N, C, r, u, h)
  PROVE  \A n \in u[r] : Cardinality(Over(C, r, u, n)) + h[n] = h[r] + Unit(C, n)
<1> DEFINE T == u[r]
           A(n) == Over(C, r, u, n)
           Rank(n) == Cardinality(T) - Cardinality(u[n])
           Good(n) == Cardinality(A(n)) + h[n] = h[r] + Unit(C, n)
           X == {i \in 0 .. Depth : \A n \in T : Rank(n) <= i => Good(n)}
<1>0. EvenIs(N, C, r, u, h)
  BY EvenFacts
<1>1. /\ T \subseteq Node /\ h \in [Node \cup {Null} -> Nat]
      /\ \A n \in T : /\ h[n] \in Nat /\ Unit(C, n) \in Nat
                      /\ \A d \in Side : h[n] = h[Kid(N, n, d)] + Unit(C, n)
  BY <1>0 DEF EvenIs
<1>2. \A n \in T : u[n] \subseteq T /\ n \in u[n] /\ r \in T /\ T \subseteq u[r]
  <2> TAKE n \in T
  <2>1. "left" \in Side
    BY DEF Side
  <2>2. QED BY <2>1, Around
<1>3. Depth \in Nat /\ Cardinality(T) \in Nat /\ Cardinality(T) <= Depth
  BY <1>1, Smaller
<1>4. \A n \in T : /\ Cardinality(u[n]) \in Nat /\ Cardinality(A(n)) \in Nat /\ IsFiniteSet(A(n))
                   /\ Cardinality(u[n]) <= Cardinality(T) /\ 1 <= Cardinality(u[n])
  <2> TAKE n \in T
  <2>1. u[n] \in SUBSET Node /\ T \in SUBSET Node /\ u[n] \subseteq T /\ n \in u[n]
    BY <1>1, <1>2
  <2>2. /\ Cardinality(u[n]) \in Nat /\ Cardinality(u[n]) <= Cardinality(T) /\ 1 <= Cardinality(u[n])
    BY <2>1, Smaller
  <2>3. IsFiniteSet(A(n))
    <3>1. A(n) \subseteq Node
      BY <1>1 DEF Over
    <3>2. QED BY <3>1, NodeFacts, FS_Subset
  <2>4. Cardinality(A(n)) \in Nat
    BY <2>3, FS_CardinalityType
  <2>5. QED BY <2>2, <2>3, <2>4
\* One step down adds the node, if it is black.
<1>5. ASSUME NEW n \in T, n # r
      PROVE  LET q == Up(N, n) IN
             /\ q \in T /\ Cardinality(u[n]) + 1 <= Cardinality(u[q])
             /\ Good(q) => Good(n)
  <2> DEFINE q == Up(N, n)
  <2>1. /\ q \in T /\ n \in u[q] /\ q \notin u[n] /\ u[n] \subseteq u[q]
        /\ \E d \in Side : Kid(N, q, d) = n
    BY <1>5, Above
  <2>2. Cardinality(u[n]) + 1 <= Cardinality(u[q])
    <3>1. u[n] \in SUBSET Node /\ u[q] \in SUBSET Node /\ q \in u[q]
      BY <1>1, <1>2, <2>1
    <3> HIDE DEF q
    <3>2. QED BY <2>1, <3>1, Smaller
  <2>3. h[q] = h[n] + Unit(C, q)
    BY <1>1, <2>1
  <2>4. \A m \in T : n \in u[m] <=> m = n \/ q \in u[m]
    BY <1>2, <2>1 DEF Shape, Nested
  <2>5. Cardinality(A(n)) = Cardinality(A(q)) + Unit(C, n)
    <3>1. n \notin A(q)
      BY <2>1 DEF Over
    <3>2. CASE C[n] = BLACK
      <4>1. A(n) = A(q) \cup {n}
        BY <2>4, <3>2, <1>2 DEF Over
      <4>2. Cardinality(A(q) \cup {n}) = Cardinality(A(q)) + 1
        BY <3>1, <1>4, <2>1, FS_AddElement
      <4>3. QED BY <3>2, <4>1, <4>2 DEF Unit
    <3>3. CASE C[n] # BLACK
      <4>1. A(n) = A(q)
        BY <2>4, <3>3, <1>2 DEF Over
      <4>2. QED BY <3>3, <4>1, <1>4 DEF Unit
    <3>4. QED BY <3>2, <3>3
  <2> HIDE DEF q, A
  <2>6. Good(q) => Good(n)
    <3>1. /\ Cardinality(A(q)) \in Nat /\ Cardinality(A(n)) \in Nat /\ h[q] \in Nat /\ h[n] \in Nat /\ h[r] \in Nat
          /\ Unit(C, q) \in Nat /\ Unit(C, n) \in Nat
      BY <1>1, <1>2, <1>4, <2>1
    <3>2. QED BY <2>3, <2>5, <3>1
  <2>7. QED BY <2>1, <2>2, <2>6 DEF q
<1>6. 0 \in X
  <2>1. ASSUME NEW n \in T, Rank(n) <= 0 PROVE Good(n)
    <3>1. n = r
      <4>1. SUFFICES ASSUME n # r PROVE FALSE
        OBVIOUS
      <4>2. Up(N, n) \in T /\ Cardinality(u[n]) + 1 <= Cardinality(u[Up(N, n)])
        BY <1>5, <4>1
      <4>3. Cardinality(u[Up(N, n)]) <= Cardinality(T) /\ Cardinality(u[Up(N, n)]) \in Nat /\ Cardinality(u[n]) \in Nat
        BY <1>4, <4>2
      <4>4. QED BY <1>3, <2>1, <4>2, <4>3
    <3>2. \A m \in T : r \in u[m] <=> m = r
      <4>1. \A m \in T : m # r => r \notin u[m]
        <5>1. SUFFICES ASSUME NEW m \in T, m # r, r \in u[m] PROVE FALSE
          OBVIOUS
        <5>2. Up(N, r) \in u[m]
          BY <5>1 DEF Shape, Nested
        <5>3. Up(N, r) = Null
          BY <1>2, <5>1, Above
        <5>4. QED BY <1>1, <1>2, <5>2, <5>3, NodeFacts
      <4>2. QED BY <1>2, <4>1
    <3>3. CASE C[r] = BLACK
      <4>1. A(r) = {r}
        BY <3>2, <3>3, <1>2, <3>1 DEF Over
      <4>2. Cardinality({r}) = 1
        BY FS_Singleton
      <4>3. h[r] \in Nat
        BY <1>1, <3>1
      <4>4. QED BY <3>1, <3>3, <4>1, <4>2, <4>3 DEF Unit
    <3>4. CASE C[r] # BLACK
      <4>1. A(r) = {}
        BY <3>2, <3>4 DEF Over
      <4>2. Cardinality({}) = 0
        BY FS_EmptySet
      <4>3. h[r] \in Nat
        BY <1>1, <3>1
      <4>4. QED BY <3>1, <3>4, <4>1, <4>2, <4>3 DEF Unit
    <3>5. QED BY <3>3, <3>4
  <2>2. 0 \in 0 .. Depth
    BY <1>3
  <2>3. QED BY <2>1, <2>2
<1>7. ASSUME NEW i \in 1 .. Depth, i - 1 \in X PROVE i \in X
  <2>1. ASSUME NEW n \in T, Rank(n) <= i PROVE Good(n)
    <3>1. CASE n = r
      <4>1. Cardinality(u[r]) \in Nat
        BY <1>3
      <4>2. Rank(r) <= 0
        BY <4>1
      <4>3. QED BY <1>6, <3>1, <4>2
    <3>2. CASE n # r
      <4> DEFINE q == Up(N, n)
      <4>1. q \in T /\ Cardinality(u[n]) + 1 <= Cardinality(u[q]) /\ (Good(q) => Good(n))
        BY <1>5, <3>2
      <4>2. Cardinality(u[n]) \in Nat /\ Cardinality(u[q]) \in Nat
        BY <1>4, <4>1
      <4> HIDE DEF q, Good
      <4>3. Rank(q) <= i - 1
        BY <1>3, <2>1, <4>1, <4>2
      <4>4. Good(q)
        BY <1>7, <4>1, <4>3
      <4>5. QED BY <4>1, <4>4
    <3>3. QED BY <3>1, <3>2
  <2>2. i \in 0 .. Depth
    BY <1>3
  <2> HIDE DEF Good, Rank
  <2>3. QED BY <2>1, <2>2
<1>8. ASSUME NEW n \in T PROVE Good(n)
  <2>1. \A i \in 0 .. Depth : i \in X
    <3> HIDE DEF X
    <3>1. QED BY <1>3, <1>6, <1>7, Upto
  <2>2. Rank(n) <= Depth /\ Depth \in 0 .. Depth
    <3>1. Cardinality(u[n]) \in Nat
      BY <1>4
    <3>2. QED BY <1>3, <3>1
  <2> HIDE DEF Good, Rank
  <2>3. QED BY <2>1, <2>2
<1>9. QED BY <1>8

Cols == [n \in Node |-> node[n].col]

\* A black root and no red pair: the tree is balanced.
LEMMA BalanceIs ==
  ASSUME NEW u, Drawn(u), Coloured(node, Cols, root, u, Null), root # Null => node[root].col = BLACK
  PROVE  Is_balance
<1> DEFINE T == u[root]
           C == Cols
<1>1. PICK h : Even(node, C, root, u, h)
  BY DEF Coloured
<1>2. Shape(node, root, u) /\ EvenIs(node, C, root, u, h)
  <2>1. Shape(node, root, u)
    BY DEF Drawn
  <2>2. QED BY <1>1, <2>1, EvenFacts
<1>3. InTree = T /\ T \subseteq Node
  BY <1>2, TreeIs DEF EvenIs
<1>4. \A n \in Node : Cols[n] = node[n].col
  BY DEF Cols
<1>5. RED # BLACK /\ h \in [Node \cup {Null} -> Nat] /\ h[Null] = 0
  BY <1>2 DEF EvenIs
<1>6. ASSUME NEW n \in InTree, node[n].col = RED PROVE node[node[n].parent].col = BLACK
  <2>1. n \in T /\ n \in Node /\ n # Null /\ C[n] = RED
    BY <1>3, <1>4, <1>6, NodeFacts
  <2>2. n # root
    BY <1>4, <1>5, <1>6, <2>1
  <2>3. Up(node, n) \in T /\ C[Up(node, n)] = BLACK
    BY <1>2, <2>1, <2>2, Above DEF Coloured, NoRedPair
  <2>4. QED BY <1>3, <1>4, <2>3 DEF Up
<1>7. ASSUME NEW n \in Ends PROVE Blacks(n) = h[root] /\ h[root] \in Nat
  <2>1. n \in T /\ \E d \in Side : node[n].kid[d] = Null
    BY <1>3, <1>7 DEF Ends
  <2>2. {m \in Ancestors(n) : node[m].col = BLACK} = Over(C, root, u, n)
    <3>1. Ancestors(n) = {m \in T : n \in u[m]}
      BY <2>1, AncestorsAre
    <3>2. QED BY <1>3, <1>4, <3>1 DEF Over
  <2>3. Cardinality(Over(C, root, u, n)) + h[n] = h[root] + Unit(C, n)
    BY <1>1, <1>2, <2>1, OverIs
  <2>4. h[n] = h[Null] + Unit(C, n) /\ Unit(C, n) \in Nat
    BY <1>2, <2>1 DEF EvenIs, Kid
  <2>5. h[root] \in Nat /\ Cardinality(Over(C, root, u, n)) \in Nat
    <3>1. root \in Node \cup {Null}
      BY <1>2 DEF Shape, Typed
    <3>2. Over(C, root, u, n) \subseteq Node
      BY <1>3 DEF Over
    <3>3. Cardinality(Over(C, root, u, n)) \in Nat
      BY <3>2, NodeFacts, FS_Subset, FS_CardinalityType
    <3>4. QED BY <3>1, <3>3, <1>5
  <2>6. Cardinality(Over(C, root, u, n)) = h[root]
    BY <2>3, <2>4, <2>5, <1>5
  <2>7. QED BY <2>2, <2>5, <2>6 DEF Blacks
<1>8. QED BY <1>6, <1>7 DEF Is_balance

-----------------------------------------------------------------------------
(* The invariant *)

\* The node to be linked is made and on its own.
Waiting(a, u) ==
    pc[a] \in {"insert", "plant", "descend"} => new[a] \in made \ u[root] /\ new[a][1] = arg[a]

Planting(a) == pc[a] = "plant" => root = Null

\* The search for its place is on the way: where its key would be found.
Below(a, u) ==
    /\ cur[a] \in u[root] /\ WayTo(node, u, root, cur[a], new[a])
    /\ \A x \in u[root] : x[1] = arg[a] => x \in u[cur[a]]

Missing(a, u) ==
    /\ par[a] \in u[root] /\ WayTo(node, u, root, par[a], new[a]) /\ par[a][1] # arg[a]
    /\ node[par[a]].kid[Toward(par[a], arg[a])] = Null /\ \A x \in u[root] : x[1] # arg[a]

Going(a, u) ==
    pc[a] = "descend" => root # Null /\ (cur[a] # Null => Below(a, u)) /\ (cur[a] = Null => Missing(a, u))

\* The rebalancing climbs with a red node.
Fixing(a, u) ==
    pc[a] = "fix" => /\ cur[a] \in u[root] /\ par[a] = node[cur[a]].parent /\ node[cur[a]].col = RED
                     /\ root = cur[a] \/ node[root].col = BLACK

Topped(a) ==
    /\ pc[a] = "black" => root # Null
    /\ pc[a] \notin {"fix", "black"} => root = Null \/ node[root].col = BLACK

Painting(a, u) == Coloured(node, Cols, root, u, IF pc[a] = "fix" THEN cur[a] ELSE Null)

Fresh(u)   == \A n \in Node : n \notin u[root] => node[n] = Blank(n[1])
Covered(u) == \A n \in made : n \in u[root] \/ (\E x \in u[root] : x[1] = n[1]) \/ Pending(n)

Held(u) ==
    /\ Drawn(u) /\ u[root] \subseteq made /\ Fresh(u) /\ Covered(u)
    /\ \A a \in Actor : /\ Waiting(a, u) /\ Planting(a) /\ Going(a, u) /\ Fixing(a, u) /\ Topped(a)
                        /\ Painting(a, u)

\* The type invariant, from its parts.
LEMMA TypeParts ==
  ASSUME NEW u, Drawn(u), made \subseteq Node,
         pc \in [Actor -> {"idle", "find", "insert", "plant", "descend", "fix", "black"}],
         op \in [Actor -> {"none", "find", "index", "insert"}], arg \in [Actor -> Key \cup {Null}],
         cur \in [Actor -> Node \cup {Null}], par \in [Actor -> Node \cup {Null}],
         new \in [Actor -> Node \cup {Null}], result \in [Actor -> Node \cup {Null}]
  PROVE  TypeOK
BY DEF TypeOK, Drawn, Shape, Typed, Nodes

\* The invariant holds of the empty tree.
LEMMA HeldInit ==
  ASSUME Init
  PROVE  TypeOK /\ \E u : Held(u)
<1> DEFINE e == [n \in Node \cup {Null} |-> {}]
<1>1. Null \notin Node /\ \A n \in Node : n[1] \in Key
  BY NodeFacts
<1>2. \A n \in Node : Blank(n[1]) \in [key : Key, col : {RED, BLACK}, parent : Node \cup {Null}, kid : [Side -> Node \cup {Null}]]
  BY <1>1 DEF Blank
<1>3. node \in Nodes /\ \A n \in Node : node[n] = Blank(n[1]) /\ node[n].key = n[1] /\ node[n].col = RED
  BY <1>2 DEF Init, Nodes, Blank
<1>4. e[root] = {} /\ e[Null] = {} /\ root = Null
  BY DEF Init
<1>5. Drawn(e)
  BY <1>3, <1>4, EmptyShape DEF Drawn
<1>6. Coloured(node, Cols, Null, e, Null)
  <2>1. Cols \in Paints
    BY <1>3 DEF Cols, Paints
  <2>2. QED BY <2>1, <1>4, EmptyColoured
<1> HIDE DEF e
<1>7. \A a \in Actor : pc[a] = "idle"
  BY DEF Init
<1>8. TypeOK
  BY <1>5, TypeParts DEF Init
<1>9. Held(e)
  <2>1. made = {}
    BY DEF Init
  <2>2. \A a \in Actor : Waiting(a, e) /\ Planting(a) /\ Going(a, e) /\ Fixing(a, e) /\ Topped(a)
    BY <1>4, <1>7 DEF Waiting, Planting, Going, Fixing, Topped
  <2>3. \A a \in Actor : Painting(a, e)
    BY <1>4, <1>6, <1>7 DEF Painting
  <2>4. QED BY <2>1, <2>2, <2>3, <1>3, <1>4, <1>5 DEF Held, Fresh, Covered
<1>10. QED BY <1>8, <1>9

-----------------------------------------------------------------------------
(* Steps that leave the tree *)

LocalsTyped ==
    /\ pc \in [Actor -> {"idle", "find", "insert", "plant", "descend", "fix", "black"}]
    /\ op \in [Actor -> {"none", "find", "index", "insert"}]
    /\ arg \in [Actor -> Key \cup {Null}]
    /\ cur \in [Actor -> Node \cup {Null}] /\ par \in [Actor -> Node \cup {Null}]
    /\ new \in [Actor -> Node \cup {Null}] /\ result \in [Actor -> Node \cup {Null}]

\* The part of the type invariant about the callers.
LEMMA TypedNow == ASSUME TypeOK PROVE LocalsTyped /\ made \subseteq Node
BY DEF TypeOK, LocalsTyped

\* The type invariant after a step, from the tree and the callers' part.
LEMMA TypedNext ==
  ASSUME NEW u, Drawn(u)', LocalsTyped', made' \subseteq Node
  PROVE  TypeOK'
BY DEF TypeOK, LocalsTyped, Drawn, Shape, Typed, Nodes

\* What the lone caller a may do after a step.
Sound(a, u) == Waiting(a, u) /\ Planting(a) /\ Going(a, u) /\ Fixing(a, u) /\ Topped(a) /\ Painting(a, u)

\* The invariant, for the one caller there is.
LEMMA HeldNow ==
  ASSUME NEW a, Actor = {a}, NEW u, Held(u)
  PROVE  Drawn(u) /\ u[root] \subseteq made /\ Fresh(u) /\ Covered(u) /\ Sound(a, u)
BY DEF Held, Sound

\* The invariant after a step, from its parts for the one caller there is.
LEMMA HeldNext ==
  ASSUME NEW a, Actor = {a}, NEW u, Drawn(u)', (u[root] \subseteq made)', Fresh(u)', Covered(u)', Sound(a, u)'
  PROVE  Held(u)'
BY DEF Held, Sound

\* A step that leaves the links leaves the tree.
LEMMA SameTree ==
  ASSUME NEW u, Drawn(u), Fresh(u), node' = node, root' = root
  PROVE  Drawn(u)' /\ Fresh(u)' /\ Cols' = Cols
BY DEF Drawn, Fresh, Cols

\* The lone caller's locals after a return.
LEMMA Returned ==
  ASSUME NEW a, Actor = {a}, LocalsTyped, NEW n \in Node \cup {Null}, Return(a, n)
  PROVE  LocalsTyped' /\ pc'[a] = "idle"
BY DEF LocalsTyped, Return, Goto

\* A caller that is idle or looking a key up.
LEMMA LookStep ==
  ASSUME NEW a, Actor = {a}, LocalsTyped, NEW u, Held(u), pc[a] \in {"idle", "find"}, pc'[a] \in {"idle", "find"},
         LocalsTyped', UNCHANGED tree
  PROVE  Held(u)'
<1>1. Drawn(u) /\ u[root] \subseteq made /\ Fresh(u) /\ Covered(u) /\ Sound(a, u)
  BY HeldNow
<1>2. node' = node /\ root' = root /\ made' = made
  BY DEF tree
<1>3. Drawn(u)' /\ Fresh(u)' /\ Cols' = Cols
  BY <1>1, <1>2, SameTree
<1>4. Covered(u)'
  BY <1>1, <1>2 DEF Covered, Pending
<1>5. Sound(a, u)'
  BY <1>1, <1>2, <1>3 DEF Sound, Waiting, Planting, Going, Fixing, Topped, Painting
<1>6. (u[root] \subseteq made)'
  BY <1>1, <1>2
<1>7. QED BY <1>3, <1>4, <1>5, <1>6, HeldNext

\* A node just made is blank and outside the tree.
LEMMA MakeStep ==
  ASSUME NEW a, Actor = {a}, LocalsTyped, made \subseteq Node, NEW u, Held(u), pc[a] \in {"idle", "find"},
         NEW k, Make(a, k), pc'[a] = "insert", arg'[a] = k, root' = root
  PROVE  Held(u)' /\ made' \subseteq Node /\ new' \in [Actor -> Node \cup {Null}]
<1>1. Drawn(u) /\ u[root] \subseteq made /\ Fresh(u) /\ Covered(u) /\ Sound(a, u)
  BY HeldNow
<1>2. PICK n \in Node \ made : /\ n[1] = k /\ made' = made \cup {n}
                               /\ node' = [node EXCEPT ![n] = Blank(k)] /\ new' = [new EXCEPT ![a] = n]
  BY DEF Make
<1>3. new' \in [Actor -> Node \cup {Null}] /\ new'[a] = n /\ n \notin u[root]
  BY <1>1, <1>2 DEF LocalsTyped
<1>4. node' = node
  <2>1. node[n] = Blank(k) /\ node \in [Node -> [key : Key, col : {RED, BLACK}, parent : Node \cup {Null},
                   kid : [Side -> Node \cup {Null}]]]
    BY <1>1, <1>2, <1>3 DEF Fresh, Drawn, Nodes
  <2>2. QED BY <1>2, <2>1
<1>5. Drawn(u)' /\ Fresh(u)' /\ Cols' = Cols
  BY <1>1, <1>4, SameTree
<1>6. Covered(u)'
  <2>1. \A m \in made : m \in u[root] \/ \E x \in u[root] : x[1] = m[1]
    BY <1>1 DEF Covered, Pending
  <2>2. Pending(n)'
    BY <1>3 DEF Pending
  <2>3. QED BY <2>1, <2>2, <1>2 DEF Covered
<1>7. Sound(a, u)'
  BY <1>1, <1>2, <1>3, <1>4, <1>5 DEF Sound, Waiting, Planting, Going, Fixing, Topped, Painting
<1>8. (u[root] \subseteq made)' /\ made' \subseteq Node
  BY <1>1, <1>2
<1>9. QED BY <1>3, <1>5, <1>6, <1>7, <1>8, HeldNext

\* The tree keeps its nodes, or gets one of a new key.
Grows(S, R) == R = S \/ \E x \in Node : R = S \cup {x} /\ \A y \in S : y[1] # x[1]

Kept(u) == TypeOK' /\ \E v : Held(v)' /\ Grows(u[root], v[root'])

\* find and operator[] begin at the root and change nothing.
LEMMA CallFindKeeps ==
  ASSUME NEW a, Actor = {a}, TypeOK, NEW u, Held(u), NEW k \in KeysOf[a], CallFind(a, k)
  PROVE  Kept(u)
<1>1. LocalsTyped /\ made \subseteq Node /\ root \in Node \cup {Null} /\ k \in Key
  BY TypedNow DEF TypeOK, Key
<1>2. pc[a] = "idle" /\ UNCHANGED tree
  BY DEF CallFind
<1>3. LocalsTyped' /\ pc'[a] = "find"
  BY <1>1 DEF LocalsTyped, CallFind, Goto
<1>4. Held(u)'
  BY <1>1, <1>2, <1>3, LookStep
<1>5. Drawn(u)' /\ made' \subseteq Node
  BY <1>1, <1>2, <1>4 DEF Held, tree
<1>6. TypeOK'
  BY <1>3, <1>5, TypedNext
<1>7. QED BY <1>2, <1>4, <1>6 DEF Kept, Grows, tree

\* insert() begins with a node outside the tree.
LEMMA CallInsertKeeps ==
  ASSUME NEW a, Actor = {a}, TypeOK, NEW u, Held(u), NEW k \in KeysOf[a], CallInsert(a, k)
  PROVE  Kept(u)
<1>1. LocalsTyped /\ made \subseteq Node /\ k \in Key
  BY TypedNow DEF Key
<1>2. pc[a] = "idle" /\ Make(a, k) /\ root' = root
  BY DEF CallInsert
<1>3. pc'[a] = "insert" /\ arg'[a] = k
  BY <1>1 DEF LocalsTyped, CallInsert, Goto
<1>4. Held(u)' /\ made' \subseteq Node /\ new' \in [Actor -> Node \cup {Null}]
  BY <1>1, <1>2, <1>3, MakeStep
<1>5. LocalsTyped'
  BY <1>1, <1>4 DEF LocalsTyped, CallInsert, Goto
<1>6. Drawn(u)'
  BY <1>4 DEF Held
<1>7. TypeOK'
  BY <1>4, <1>5, <1>6, TypedNext
<1>8. QED BY <1>2, <1>4, <1>7 DEF Kept, Grows

\* The search goes down one node, or ends.
LEMMA FindNextKeeps ==
  ASSUME NEW a, Actor = {a}, TypeOK, NEW u, Held(u), FindNext(a)
  PROVE  Kept(u)
<1>1. LocalsTyped /\ made \subseteq Node
  BY TypedNow
<1>2. pc[a] = "find" /\ cur[a] \in Node /\ UNCHANGED tree
  BY <1>1 DEF FindNext, LocalsTyped
<1>3. LocalsTyped' /\ pc'[a] \in {"idle", "find"}
  <2>1. CASE node[cur[a]].key = arg[a]
    BY <2>1, <1>1, <1>2, Returned DEF FindNext
  <2>2. CASE node[cur[a]].key # arg[a]
    <3>1. node[cur[a]].kid[Toward(cur[a], arg[a])] \in Node \cup {Null}
      BY <1>2 DEF TypeOK, Toward, Side
    <3>2. QED BY <2>2, <3>1, <1>1, <1>2 DEF FindNext, LocalsTyped
  <2>3. QED BY <2>1, <2>2
<1>4. Held(u)'
  BY <1>1, <1>2, <1>3, LookStep
<1>5. Drawn(u)' /\ made' \subseteq Node
  BY <1>1, <1>2, <1>4 DEF Held, tree
<1>6. TypeOK'
  BY <1>3, <1>5, TypedNext
<1>7. QED BY <1>2, <1>4, <1>6 DEF Kept, Grows, tree

\* A search that found nothing ends, or operator[] makes the node to insert.
LEMMA FindNothingKeeps ==
  ASSUME NEW a, Actor = {a}, TypeOK, NEW u, Held(u), FindNothing(a)
  PROVE  Kept(u)
<1>1. LocalsTyped /\ made \subseteq Node
  BY TypedNow
<1>2. pc[a] = "find" /\ root' = root
  BY DEF FindNothing
<1>3. CASE op[a] = "find" /\ Return(a, Null) /\ UNCHANGED <<node, made>>
  <2>1. LocalsTyped' /\ pc'[a] = "idle" /\ UNCHANGED tree
    BY <1>1, <1>2, <1>3, Returned DEF tree
  <2>2. Held(u)'
    BY <1>1, <1>2, <2>1, LookStep
  <2>3. Drawn(u)' /\ made' \subseteq Node
    BY <1>1, <2>1, <2>2 DEF Held, tree
  <2>4. TypeOK'
    BY <2>1, <2>3, TypedNext
  <2>5. QED BY <1>2, <2>2, <2>4 DEF Kept, Grows
<1>4. CASE /\ op[a] = "index" /\ Make(a, arg[a]) /\ Goto(a, "insert")
           /\ UNCHANGED <<op, arg, cur, par, result>>
  <2>1. pc'[a] = "insert" /\ arg'[a] = arg[a] /\ Make(a, arg[a])
    BY <1>1, <1>4 DEF LocalsTyped, Goto
  <2>2. Held(u)' /\ made' \subseteq Node /\ new' \in [Actor -> Node \cup {Null}]
    BY <1>1, <1>2, <2>1, MakeStep
  <2>3. LocalsTyped'
    BY <1>1, <1>4, <2>2 DEF LocalsTyped, Goto
  <2>4. Drawn(u)'
    BY <2>2 DEF Held
  <2>5. TypeOK'
    BY <2>2, <2>3, <2>4, TypedNext
  <2>6. QED BY <1>2, <2>2, <2>5 DEF Kept, Grows
<1>5. QED BY <1>3, <1>4 DEF FindNothing

-----------------------------------------------------------------------------
(* Inserting *)

\* Where the new node goes is looked for from the root, which is on the way to
\* every key.
LEMMA InsertTestKeeps ==
  ASSUME NEW a, Actor = {a}, TypeOK, NEW u, Held(u), InsertTest(a)
  PROVE  Kept(u)
<1>1. LocalsTyped /\ made \subseteq Node /\ root \in Node \cup {Null}
  BY TypedNow DEF TypeOK
<1>2. Drawn(u) /\ u[root] \subseteq made /\ Fresh(u) /\ Covered(u) /\ Sound(a, u)
  BY HeldNow
<1>3. pc[a] = "insert" /\ node' = node /\ root' = root /\ made' = made /\ new' = new /\ arg' = arg
  BY DEF InsertTest, tree
<1>4. LocalsTyped' /\ cur'[a] = root /\ pc'[a] = IF root = Null THEN "plant" ELSE "descend"
  BY <1>1 DEF LocalsTyped, InsertTest, Goto
<1>5. Drawn(u)' /\ Fresh(u)' /\ Cols' = Cols
  BY <1>2, <1>3, SameTree
<1>6. Covered(u)'
  BY <1>2, <1>3, <1>4 DEF Covered, Pending
<1>7. Going(a, u)'
  <2>1. SUFFICES ASSUME root # Null PROVE Below(a, u)'
    BY <1>3, <1>4 DEF Going
  <2>2. WayTo(node, u, root, root, new[a]) /\ root \in u[root]
    BY <1>2, <2>1, WayRoot DEF Drawn, Shape, Typed
  <2>3. QED BY <2>2, <1>3, <1>4 DEF Below
<1>8. Sound(a, u)'
  BY <1>2, <1>3, <1>4, <1>5, <1>7 DEF Sound, Waiting, Planting, Fixing, Topped, Painting
<1>9. (u[root] \subseteq made)' /\ made' \subseteq Node
  BY <1>1, <1>2, <1>3
<1>10. Held(u)'
  BY <1>5, <1>6, <1>8, <1>9, HeldNext
<1>11. TypeOK'
  BY <1>4, <1>5, <1>9, TypedNext
<1>12. QED BY <1>3, <1>10, <1>11 DEF Kept, Grows

\* The first node is planted as a black root.
LEMMA PlantKeeps ==
  ASSUME NEW a, Actor = {a}, TypeOK, NEW u, Held(u), Plant(a)
  PROVE  Kept(u)
<1>1. LocalsTyped /\ made \subseteq Node
  BY TypedNow
<1>2. Drawn(u) /\ u[root] \subseteq made /\ Fresh(u) /\ Covered(u) /\ Sound(a, u)
  BY HeldNow
<1> DEFINE x == new[a]
<1>3. pc[a] = "plant" /\ root = Null /\ x \in made /\ x \in Node /\ u[root] = {} /\ made' = made
  BY <1>1, <1>2 DEF Plant, Sound, Planting, Waiting, Drawn, Shape, Typed
<1>4. LocalsTyped' /\ pc'[a] = "idle"
  BY <1>1, <1>3, Returned DEF Plant
<1>5. root' = x /\ node' = [node EXCEPT ![x].col = BLACK]
  BY DEF Plant
<1>6. node \in Nodes /\ node[x] = Blank(x[1]) /\ (\A n \in Node : n # x => node[n] = Blank(n[1]))
      /\ (\A n \in Node : node[n].key = n[1]) /\ Null \notin Node
  BY <1>2, <1>3, NodeFacts DEF Drawn, Fresh
<1>7. SetCol(node, x, BLACK) = node'
  BY <1>5 DEF SetCol
<1> HIDE DEF x
<1>8. Else(node, node', x) /\ ColIs(node, node', x, BLACK)
  <2>1. node \in Nodes /\ x \in Node /\ BLACK \in {RED, BLACK} /\ node' = SetCol(node, x, BLACK)
    BY <1>3, <1>6, <1>7
  <2>2. QED BY <2>1, ColSet
<1>9. /\ node' \in Nodes /\ node'[x].col = BLACK /\ node'[x].key = x[1] /\ Up(node', x) = Null
      /\ \A d \in Side : Kid(node', x, d) = Null
      /\ \A n \in Node : n # x => node'[n] = Blank(n[1]) /\ node'[n].key = n[1]
  BY <1>6, <1>8, <1>3 DEF Else, ColIs, Blank, Up, Kid
<1>10. PICK v : v = Alone(x)
  OBVIOUS
<1>11. Shape(node', x, v) /\ v[x] = {x}
  BY <1>3, <1>9, <1>10, AloneShape
<1>12. Drawn(v)'
  BY <1>5, <1>9, <1>11 DEF Drawn, x
<1>13. Fresh(v)'
  BY <1>5, <1>9, <1>11 DEF Fresh, x
<1>14. Covered(v)'
  <2>1. \A n \in made : n = x
    BY <1>2, <1>3 DEF Covered, Pending, x
  <2>2. QED BY <2>1, <1>3, <1>5, <1>11 DEF Covered, x
<1>15. Coloured(node', Cols', x, v, Null)
  <2>1. Cols' \in Paints /\ Cols'[x] = BLACK
    BY <1>3, <1>9 DEF Cols, Paints, Nodes
  <2>2. QED BY <2>1, <1>3, <1>9, <1>11, AloneColoured
<1>16. Sound(a, v)'
  BY <1>4, <1>5, <1>9, <1>15 DEF Sound, Waiting, Planting, Going, Fixing, Topped, Painting, x
<1>17. (v[root] \subseteq made)' /\ made' \subseteq Node
  BY <1>1, <1>3, <1>5, <1>11 DEF x
<1>18. Held(v)'
  BY <1>12, <1>13, <1>14, <1>16, <1>17, HeldNext
<1>19. TypeOK'
  BY <1>4, <1>12, <1>17, TypedNext
<1>20. Grows(u[root], v[root'])
  BY <1>3, <1>5, <1>11 DEF Grows, x
<1>21. QED BY <1>18, <1>19, <1>20 DEF Kept

\* The way to the new node goes down one node on the side of its key; a key
\* that is there already ends the insertion.
LEMMA DescendKeeps ==
  ASSUME NEW a, Actor = {a}, TypeOK, NEW u, Held(u), Descend(a)
  PROVE  Kept(u)
<1>1. LocalsTyped /\ made \subseteq Node
  BY TypedNow
<1>2. Drawn(u) /\ u[root] \subseteq made /\ Fresh(u) /\ Covered(u) /\ Sound(a, u)
  BY HeldNow
<1>3. pc[a] = "descend" /\ cur[a] # Null /\ node' = node /\ root' = root /\ made' = made
  BY DEF Descend, tree
<1>4. Drawn(u)' /\ Fresh(u)' /\ Cols' = Cols
  BY <1>2, <1>3, SameTree
<1> DEFINE T == u[root]
           c == cur[a]
           k == arg[a]
           x == new[a]
           d == Toward(c, k)
           e == node[c].kid[d]
<1>5. /\ c \in T /\ WayTo(node, u, root, c, x) /\ (\A y \in T : y[1] = k => y \in u[c])
      /\ x \in made \ T /\ x[1] = k /\ root # Null /\ x \in Node /\ c \in Node
  <2>1. Below(a, u) /\ root # Null /\ x \in made \ T /\ x[1] = k
    BY <1>2, <1>3 DEF Sound, Going, Waiting
  <2>2. QED BY <2>1, <1>1, <1>2 DEF Below
<1>6. node[c].key = c[1] /\ Shape(node, root, u) /\ c[1] \in Nat /\ x[1] \in Nat /\ node \in Nodes
  BY <1>2, <1>5, NodeFacts DEF Drawn
<1>7. CASE node[c].key = k
  <2>1. c \in Node \cup {Null} /\ x \in Node \cup {Null} /\ Return(a, IF op[a] = "index" THEN x ELSE c)
    BY <1>3, <1>5, <1>7 DEF Descend
  <2>2. LocalsTyped' /\ pc'[a] = "idle"
    BY <1>1, <2>1, Returned
  <2>3. Covered(u)'
    <3>1. \A n \in made : n \in T \/ (\E y \in T : y[1] = n[1]) \/ n = x
      BY <1>2 DEF Covered, Pending
    <3>2. \A n \in made : n \in T \/ (\E y \in T : y[1] = n[1])
      BY <3>1, <1>5, <1>6, <1>7
    <3>3. QED BY <3>2, <1>3 DEF Covered
  <2>4. Sound(a, u)'
    BY <1>2, <1>3, <1>4, <2>2 DEF Sound, Waiting, Planting, Going, Fixing, Topped, Painting
  <2>5. (u[root] \subseteq made)' /\ made' \subseteq Node
    BY <1>1, <1>2, <1>3
  <2>6. Held(u)'
    BY <1>4, <2>3, <2>4, <2>5, HeldNext
  <2>7. TypeOK'
    BY <1>4, <2>2, <2>5, TypedNext
  <2>8. QED BY <1>3, <2>6, <2>7 DEF Kept, Grows
<1>8. CASE node[c].key # k
  <2>1. /\ par' = [par EXCEPT ![a] = c] /\ cur' = [cur EXCEPT ![a] = e]
        /\ pc' = pc /\ op' = op /\ arg' = arg /\ new' = new /\ result' = result
    BY <1>3, <1>8 DEF Descend
  <2>2. d \in Side /\ On(d, c, x) /\ e = Kid(node, c, d) /\ e \in Node \cup {Null}
    BY <1>5, <1>6, <1>8 DEF Toward, Side, On, Kid, Nodes
  <2> HIDE DEF d, e, c, x, k
  <2>3. LocalsTyped' /\ par'[a] = c /\ cur'[a] = e /\ pc'[a] = "descend" /\ arg'[a] = k /\ new'[a] = x
    BY <2>1, <2>2, <1>1, <1>3, <1>5 DEF LocalsTyped, x, k
  <2>4. \A y \in T : y[1] = k => y \in u[e]
    <3>1. SUFFICES ASSUME NEW y \in T, y[1] = k PROVE y \in u[e]
      OBVIOUS
    <3>2. y \in u[c] /\ y # c /\ y \in Node /\ On(d, c, y)
      <4>1. y \in Node
        BY <3>1, <1>6 DEF Shape, Typed
      <4>2. x[1] = y[1] /\ c[1] # y[1]
        BY <3>1, <1>5, <1>6, <1>8
      <4>3. On(d, c, y)
        BY <2>2, <4>2 DEF On
      <4>4. QED BY <3>1, <1>5, <4>1, <4>2, <4>3
    <3>3. u[c] = {c} \cup u[e] \cup u[Kid(node, c, Other(d))]
      BY <2>2, <1>5, <1>6 DEF Shape, Parts
    <3>4. y \notin u[Kid(node, c, Other(d))]
      <4>1. SUFFICES ASSUME y \in u[Kid(node, c, Other(d))] PROVE FALSE
        OBVIOUS
      <4>2. Other(d) \in Side
        BY <2>2, Sides
      <4>3. On(Other(d), c, y)
        BY <1>5, <1>6, <4>1, <4>2 DEF Shape, Sorted
      <4>4. QED BY <3>2, <4>3, <2>2, <1>5, OnSides
    <3>5. QED BY <3>2, <3>3, <3>4
  <2>5. e # Null => Below(a, u)'
    <3>1. SUFFICES ASSUME e # Null PROVE Below(a, u)'
      OBVIOUS
    <3>2. e \in T
      BY <3>1, <2>2, <1>5, <1>6 DEF Shape, Downs
    <3>3. WayTo(node, u, root, e, x)
      BY <3>1, <2>2, <1>5, <1>6, WayDown
    <3>4. QED BY <3>2, <3>3, <2>3, <2>4, <1>3 DEF Below
  <2>6. e = Null => Missing(a, u)'
    <3>1. SUFFICES ASSUME e = Null PROVE Missing(a, u)'
      OBVIOUS
    <3>2. u[Null] = {}
      BY <1>6 DEF Shape, Typed
    <3>3. \A y \in T : y[1] # k
      BY <3>1, <3>2, <2>4
    <3>4. node[c].kid[Toward(c, k)] = Null /\ c[1] # k
      BY <3>1, <1>6, <1>8 DEF e, d
    <3>5. QED BY <3>3, <3>4, <2>3, <1>3, <1>5 DEF Missing, Toward
  <2>7. Sound(a, u)'
    BY <1>2, <1>3, <1>4, <1>5, <2>3, <2>5, <2>6 DEF Sound, Waiting, Planting, Going, Fixing, Topped, Painting
  <2>8. Covered(u)'
    BY <1>2, <1>3, <2>1 DEF Covered, Pending
  <2>9. (u[root] \subseteq made)' /\ made' \subseteq Node
    BY <1>1, <1>2, <1>3
  <2>10. Held(u)'
    BY <1>4, <2>7, <2>8, <2>9, HeldNext
  <2>11. TypeOK'
    BY <1>4, <2>3, <2>9, TypedNext
  <2>12. QED BY <1>3, <2>10, <2>11 DEF Kept, Grows
<1>9. QED BY <1>7, <1>8

-----------------------------------------------------------------------------
(* Linking and the end of an insertion *)

\* The new node is hung where its key would be found, red, under the only
\* parent it may redden with.
LEMMA LinkKeeps ==
  ASSUME NEW a, Actor = {a}, TypeOK, NEW u, Held(u), Link(a)
  PROVE  Kept(u)
<1>1. LocalsTyped /\ made \subseteq Node
  BY TypedNow
<1>2. Drawn(u) /\ u[root] \subseteq made /\ Fresh(u) /\ Covered(u) /\ Sound(a, u)
  BY HeldNow
<1> DEFINE T == u[root]
           p == par[a]
           k == arg[a]
           x == new[a]
           d == Toward(p, k)
<1>3. pc[a] = "descend" /\ cur[a] = Null /\ root' = root /\ made' = made /\ par' = par
      /\ node' = [node EXCEPT ![x].parent = p, ![p].kid[d] = x]
  BY DEF Link
<1>4. /\ p \in T /\ WayTo(node, u, root, p, x) /\ p[1] # k /\ node[p].kid[d] = Null /\ (\A y \in T : y[1] # k)
      /\ x \in made \ T /\ x[1] = k /\ root # Null /\ x \in Node /\ p \in Node /\ p # x
  <2>1. Missing(a, u) /\ root # Null /\ x \in made \ T /\ x[1] = k
    BY <1>2, <1>3 DEF Sound, Going, Waiting
  <2>2. T \subseteq Node
    BY <1>2 DEF Drawn, Shape, Typed
  <2>3. QED BY <2>1, <2>2, <1>1 DEF Missing
<1>5. /\ Shape(node, root, u) /\ p[1] \in Nat /\ x[1] \in Nat /\ node \in Nodes /\ (\A n \in Node : node[n].key = n[1])
      /\ T \subseteq Node
  BY <1>2, <1>4, NodeFacts DEF Drawn, Shape, Typed
<1>6. d \in Side /\ On(d, p, x) /\ Kid(node, p, d) = Null
  BY <1>4, <1>5 DEF Toward, Side, On, Kid
<1>7. node[x] = Blank(k)
  BY <1>2, <1>4 DEF Fresh
<1>8. node' = SetKid(SetUp(node, x, p), p, d, x)
  BY <1>3 DEF SetKid, SetUp
<1> HIDE DEF p, k, x, d
<1>9. LocalsTyped' /\ pc'[a] = "fix" /\ cur'[a] = x /\ par'[a] = p
  BY <1>1, <1>4, <1>3 DEF LocalsTyped, Link, Goto, x, p
<1> DEFINE M == SetUp(node, x, p)
<1>10. Else(node, M, x) /\ UpIs(node, M, x, p)
  BY <1>4, <1>5, UpSet
<1> HIDE DEF M
<1>11. Else(M, node', p) /\ KidIs(M, node', p, d, x)
  <2>1. M \in Nodes /\ p \in Node /\ d \in Side /\ x \in Node \cup {Null} /\ node' = SetKid(M, p, d, x)
    BY <1>4, <1>6, <1>8, <1>10 DEF Else, M
  <2>2. QED BY <2>1, KidSet
<1>12. /\ node' \in Nodes
       /\ \A n \in Node : node'[n].key = node[n].key /\ node'[n].col = node[n].col /\ (n # p /\ n # x => node'[n] = node[n])
       /\ node'[x].parent = p /\ node'[x].kid = node[x].kid /\ node'[p].parent = node[p].parent
       /\ \A e \in Side : node'[p].kid[e] = IF e = d THEN x ELSE node[p].kid[e]
  BY <1>4, <1>10, <1>11 DEF Else, UpIs, KidIs
<1>13. Hung(node, node', p, d, x, T)
  <2>1. Up(node', x) = p /\ \A e \in Side : Kid(node', x, e) = Null
    BY <1>7, <1>12 DEF Blank, Up, Kid
  <2>2. \A n \in T : n \in Node /\ n # x
    BY <1>4, <1>5
  <2>3. \A n \in T : Up(node', n) = Up(node, n)
    BY <2>2, <1>12 DEF Up
  <2>4. \A n \in T : \A e \in Side : Kid(node', n, e) = IF n = p /\ e = d THEN x ELSE Kid(node, n, e)
    BY <2>2, <1>12 DEF Kid
  <2>5. QED BY <2>1, <2>3, <2>4 DEF Hung
<1>14. PICK v : v = Grown(u, root, p, x)
  OBVIOUS
<1>15. Shape(node', root, v) /\ v[root] = T \cup {x}
  <2>1. /\ Shape(node, root, u) /\ p \in u[root] /\ d \in Side /\ Kid(node, p, d) = Null
        /\ x \in Node /\ x \notin u[root] /\ On(d, p, x) /\ WayTo(node, u, root, p, x) /\ (\A n \in u[root] : n[1] # x[1])
        /\ Hung(node, node', p, d, x, u[root])
    BY <1>4, <1>5, <1>6, <1>13
  <2>2. QED BY <2>1, <1>14, HungShape
<1>16. Drawn(v)'
  BY <1>3, <1>5, <1>12, <1>15 DEF Drawn
<1>17. Fresh(v)'
  BY <1>2, <1>3, <1>4, <1>12, <1>15 DEF Fresh
<1>18. Covered(v)'
  <2>1. \A n \in made : n \in T \/ (\E y \in T : y[1] = n[1]) \/ n = x
    BY <1>2 DEF Covered, Pending, x
  <2>2. QED BY <2>1, <1>3, <1>15 DEF Covered
<1>19. node[x].col = RED /\ Cols[x] = RED /\ Cols' = Cols
  BY <1>4, <1>7, <1>12 DEF Blank, Cols
<1>20. Coloured(node', Cols', root, v, x)
  <2>1. Coloured(node, Cols, root, u, Null)
    BY <1>2, <1>3 DEF Sound, Painting
  <2>2. /\ Shape(node, root, u) /\ p \in u[root] /\ d \in Side /\ Kid(node, p, d) = Null
        /\ x \in Node /\ x \notin u[root] /\ Hung(node, node', p, d, x, u[root]) /\ v[root] = u[root] \cup {x}
    BY <1>4, <1>5, <1>6, <1>13, <1>15
  <2>3. Coloured(node', Cols, root, v, x)
    BY <2>1, <2>2, <1>19, HungColoured
  <2>4. QED BY <2>3, <1>19
<1>21. Fixing(a, v)'
  <2>1. root \in Node /\ node[root].col = BLACK
    BY <1>2, <1>3, <1>4 DEF Sound, Topped, Drawn, Shape, Typed
  <2>2. QED BY <2>1, <1>3, <1>9, <1>12, <1>15, <1>19, <1>4, ZenonT(40) DEF Fixing
<1>22. Sound(a, v)'
  BY <1>3, <1>9, <1>20, <1>21 DEF Sound, Waiting, Planting, Going, Topped, Painting
<1>23. (v[root] \subseteq made)' /\ made' \subseteq Node
  BY <1>1, <1>2, <1>3, <1>4, <1>15
<1>24. Held(v)'
  BY <1>16, <1>17, <1>18, <1>22, <1>23, HeldNext
<1>25. TypeOK'
  BY <1>9, <1>16, <1>23, TypedNext
<1>26. Grows(T, v[root'])
  <2>1. v[root'] = T \cup {x} /\ x \in Node /\ \A y \in T : y[1] # x[1]
    BY <1>3, <1>4, <1>15
  <2>2. QED BY <2>1 DEF Grows
<1>27. QED BY <1>24, <1>25, <1>26 DEF Kept

\* A red child of a node that is no red node's parent but its own.
LEMMA FixDoneKeeps ==
  ASSUME NEW a, Actor = {a}, TypeOK, NEW u, Held(u), FixDone(a)
  PROVE  Kept(u)
<1>1. LocalsTyped /\ made \subseteq Node
  BY TypedNow
<1>2. Drawn(u) /\ u[root] \subseteq made /\ Fresh(u) /\ Covered(u) /\ Sound(a, u)
  BY HeldNow
<1>3. pc[a] = "fix" /\ ~ RedParent(a) /\ node' = node /\ root' = root /\ made' = made
  BY DEF FixDone, tree
<1>4. LocalsTyped' /\ pc'[a] = "black"
  BY <1>1 DEF LocalsTyped, FixDone, Goto, locals
<1>5. Drawn(u)' /\ Fresh(u)' /\ Cols' = Cols
  BY <1>2, <1>3, SameTree
<1>6. Covered(u)'
  BY <1>2, <1>3 DEF Covered, Pending
<1> DEFINE c == cur[a]
<1>7. /\ c \in u[root] /\ par[a] = node[c].parent /\ node[c].col = RED /\ (root = c \/ node[root].col = BLACK)
      /\ Coloured(node, Cols, root, u, c)
  BY <1>2, <1>3 DEF Sound, Fixing, Painting
<1>8. Shape(node, root, u) /\ node \in Nodes /\ u[root] \subseteq Node /\ Null \notin Node /\ RED # BLACK
      /\ \A n \in Node : Cols[n] = node[n].col
  BY <1>2, NodeFacts DEF Drawn, Shape, Typed, Cols, RED, BLACK
<1>9. c # root => Cols[Up(node, c)] = BLACK
  <2>1. SUFFICES ASSUME c # root PROVE Cols[Up(node, c)] = BLACK
    OBVIOUS
  <2>2. par[a] \in u[root] /\ par[a] = Up(node, c) /\ par[a] \in Node /\ par[a] # Null
    BY <2>1, <1>7, <1>8, Above DEF Up
  <2>3. par[a] = root \/ node[par[a]].col # RED
    BY <2>2, <1>3 DEF RedParent
  <2>4. node[par[a]].col = BLACK
    BY <2>1, <2>2, <2>3, <1>7, <1>8 DEF Nodes
  <2>5. QED BY <2>2, <2>4, <1>8
<1>10. Coloured(node, Cols, root, u, Null)
  BY <1>7, <1>9 DEF Coloured, NoRedPair
<1>11. root # Null
  BY <1>7, <1>8 DEF Shape, Typed
<1>12. Sound(a, u)'
  BY <1>3, <1>4, <1>5, <1>10, <1>11 DEF Sound, Waiting, Planting, Going, Fixing, Topped, Painting
<1>13. (u[root] \subseteq made)' /\ made' \subseteq Node
  BY <1>1, <1>2, <1>3
<1>14. Held(u)'
  BY <1>5, <1>6, <1>12, <1>13, HeldNext
<1>15. TypeOK'
  BY <1>4, <1>5, <1>13, TypedNext
<1>16. QED BY <1>3, <1>14, <1>15 DEF Kept, Grows

\* Painting the root black adds one to every way down, so all stay equal.
LEMMA BlackenKeeps ==
  ASSUME NEW a, Actor = {a}, TypeOK, NEW u, Held(u), Blacken(a)
  PROVE  Kept(u)
<1>1. LocalsTyped /\ made \subseteq Node
  BY TypedNow
<1>2. Drawn(u) /\ u[root] \subseteq made /\ Fresh(u) /\ Covered(u) /\ Sound(a, u)
  BY HeldNow
<1>3. pc[a] = "black" /\ root' = root /\ made' = made /\ node' = [node EXCEPT ![root].col = BLACK] /\ root # Null
  BY <1>2 DEF Blacken, Sound, Topped
<1>4. LocalsTyped' /\ pc'[a] = "idle"
  BY <1>1, Returned DEF Blacken, LocalsTyped
<1>5. /\ Shape(node, root, u) /\ node \in Nodes /\ (\A n \in Node : node[n].key = n[1]) /\ u[root] \subseteq Node
      /\ root \in Node /\ root \in u[root]
  BY <1>2, <1>3 DEF Drawn, Shape, Typed
<1>6. Else(node, node', root) /\ ColIs(node, node', root, BLACK)
  <2>1. node \in Nodes /\ root \in Node /\ BLACK \in {RED, BLACK} /\ node' = SetCol(node, root, BLACK)
    BY <1>3, <1>5 DEF SetCol
  <2>2. QED BY <2>1, ColSet
<1>7. SameLinks(node, node', u[root])
  BY <1>5, <1>6 DEF SameLinks, Else, ColIs, Up, Kid
<1>8. Drawn(u)'
  <2>1. Shape(node', root, u)
    BY <1>5, <1>7, SameShape DEF SameLinks
  <2>2. QED BY <2>1, <1>3, <1>5, <1>6 DEF Drawn, Else
<1>9. Fresh(u)' /\ Covered(u)'
  BY <1>2, <1>3, <1>5, <1>6 DEF Fresh, Covered, Pending, Else
<1>10. Coloured(node', Cols', root, u, Null)
  <2>1. Coloured(node, Cols, root, u, Null)
    BY <1>2, <1>3 DEF Sound, Painting
  <2>2. Cols' \in Paints /\ Cols'[root] = BLACK /\ \A n \in u[root] : n # root => Cols'[n] = Cols[n]
    BY <1>5, <1>6 DEF Cols, Paints, Nodes, Else, ColIs
  <2>3. QED BY <2>1, <2>2, <1>5, <1>7, BlackenColoured
<1>11. Sound(a, u)'
  BY <1>3, <1>4, <1>5, <1>6, <1>10 DEF Sound, Waiting, Planting, Going, Fixing, Topped, Painting, ColIs
<1>12. (u[root] \subseteq made)' /\ made' \subseteq Node
  BY <1>1, <1>2, <1>3
<1>13. Held(u)'
  BY <1>8, <1>9, <1>11, <1>12, HeldNext
<1>14. TypeOK'
  BY <1>4, <1>8, <1>12, TypedNext
<1>15. QED BY <1>3, <1>13, <1>14 DEF Kept, Grows

-----------------------------------------------------------------------------
(* Recolouring *)

\* A red pair of c and its parent p, below g, on whose side e p is.
Pair(c, p, g, e, u) ==
    /\ c \in u[root] /\ p \in u[root] /\ g \in u[root] /\ e \in Side
    /\ Up(node, c) = p /\ Up(node, p) = g /\ Kid(node, g, e) = p
    /\ c # root /\ p # root
    /\ Cols[c] = RED /\ Cols[p] = RED /\ Cols[g] = BLACK /\ node[root].col = BLACK
    /\ Coloured(node, Cols, root, u, c)

\* When the rebalancing goes on, the parent is red and not the root, so the
\* grandparent exists and is black; the side the code computes is the parent's.
LEMMA PairIs ==
  ASSUME NEW a, Actor = {a}, TypeOK, NEW u, Held(u), pc[a] = "fix", RedParent(a)
  PROVE  /\ Pair(cur[a], par[a], node[par[a]].parent, SideOf(par[a]), u)
         /\ Uncle(par[a]) = Kid(node, node[par[a]].parent, Other(SideOf(par[a])))
<1> DEFINE T == u[root]
           c == cur[a]
           p == par[a]
           g == node[p].parent
           e == SideOf(p)
<1>1. Drawn(u) /\ Sound(a, u)
  BY HeldNow
<1>2. /\ c \in T /\ p = Up(node, c) /\ node[c].col = RED /\ (root = c \/ node[root].col = BLACK)
      /\ Coloured(node, Cols, root, u, c)
  BY <1>1 DEF Sound, Fixing, Painting, Up
<1>3. Shape(node, root, u) /\ T \subseteq Node /\ Null \notin Node /\ RED # BLACK /\ \A n \in Node : Cols[n] = node[n].col
  BY <1>1, NodeFacts DEF Drawn, Shape, Typed, Cols, RED, BLACK
<1>4. p # Null /\ p # root /\ node[p].col = RED
  BY DEF RedParent
<1>5. c # root /\ p \in T
  BY <1>2, <1>3, <1>4, Above
<1>6. g = Up(node, p) /\ g \in T /\ \E d \in Side : Kid(node, g, d) = p
  BY <1>3, <1>4, <1>5, Above DEF Up
<1>7. p # c
  BY <1>2, <1>3, <1>5, Above
<1>8. Cols[c] = RED /\ Cols[p] = RED /\ node[root].col = BLACK
  BY <1>2, <1>3, <1>4, <1>5
<1>9. Cols[g] = BLACK
  BY <1>2, <1>4, <1>5, <1>6, <1>7, <1>8 DEF Coloured, NoRedPair
<1>10. \A d \in Side : Kid(node, g, d) = p => Kid(node, g, Other(d)) # p
  BY <1>3, <1>4, <1>6, Around
<1> HIDE DEF c, g, p
<1>11. e \in Side /\ Kid(node, g, e) = p
  BY <1>6 DEF SideOf, Side, Kid, g
<1>12. Uncle(p) = Kid(node, g, Other(e))
  <2>1. "left" \in Side /\ "right" \in Side /\ Other("left") = "right" /\ Other("right") = "left" /\ "left" # "right"
    BY DEF Side, Other
  <2>2. e = IF Kid(node, g, "left") = p THEN "left" ELSE "right"
    BY DEF SideOf, Kid, g
  <2>3. Uncle(p) = Kid(node, g, IF Kid(node, g, "right") = p THEN "left" ELSE "right")
    BY DEF Uncle, Kid, g
  <2> HIDE DEF e
  <2>4. QED BY <2>1, <2>2, <2>3, <1>10, <1>11
<1>13. Pair(c, p, g, e, u)
  BY <1>2, <1>4, <1>5, <1>6, <1>8, <1>9, <1>11 DEF Pair
<1>14. QED BY <1>12, <1>13 DEF c, p, g, e

\* Parent and uncle turn black and the grandparent red: the one red pair there
\* may be is two levels up.
LEMMA FixRecolourKeeps ==
  ASSUME NEW a, Actor = {a}, TypeOK, NEW u, Held(u), FixRecolour(a)
  PROVE  Kept(u)
<1> DEFINE T == u[root]
           c == cur[a]
           p == par[a]
           g == node[p].parent
           e == SideOf(p)
           y == Uncle(p)
<1>1. LocalsTyped /\ made \subseteq Node
  BY TypedNow
<1>2. Drawn(u) /\ u[root] \subseteq made /\ Fresh(u) /\ Covered(u) /\ Sound(a, u)
  BY HeldNow
<1>3. /\ pc[a] = "fix" /\ RedParent(a) /\ y # Null /\ node[y].col = RED /\ root' = root /\ made' = made
      /\ node' = [node EXCEPT ![y].col = BLACK, ![p].col = BLACK, ![g].col = RED]
      /\ cur' = [cur EXCEPT ![a] = g] /\ par' = [par EXCEPT ![a] = node[g].parent]
      /\ UNCHANGED <<pc, op, arg, new, result>>
  BY DEF FixRecolour, RedUncle
<1>4. Pair(c, p, g, e, u) /\ y = Kid(node, g, Other(e))
  BY <1>3, PairIs
<1> HIDE DEF c, p, g, e, y
<1>5. /\ c \in T /\ p \in T /\ g \in T /\ e \in Side /\ Up(node, c) = p /\ Up(node, p) = g /\ Kid(node, g, e) = p
      /\ c # root /\ p # root /\ Cols[p] = RED /\ node[root].col = BLACK /\ Coloured(node, Cols, root, u, c)
  BY <1>4 DEF Pair
<1>6. /\ Shape(node, root, u) /\ node \in Nodes /\ (\A n \in Node : node[n].key = n[1]) /\ T \subseteq Node
      /\ Null \notin Node /\ root \in Node \cup {Null} /\ (\A n \in Node : Cols[n] = node[n].col)
      /\ RED \in {RED, BLACK} /\ BLACK \in {RED, BLACK} /\ RED # BLACK
  BY <1>2, NodeFacts DEF Drawn, Shape, Typed, Cols, RED, BLACK
<1>7. y \in T /\ Up(node, y) = g /\ p # g /\ y # g /\ p # y /\ y # root /\ Cols[y] = RED
  <2>1. Other(e) \in Side
    BY <1>5, Sides
  <2>2. y \in T /\ Up(node, y) = g /\ y # g /\ p # g
    BY <2>1, <1>3, <1>4, <1>5, <1>6, Around
  <2>3. p # y
    BY <1>3, <1>4, <1>5, <1>6, Around
  <2>4. y # root
    BY <2>2, <1>5, <1>6, Above
  <2>5. QED BY <2>2, <2>3, <2>4, <1>3, <1>6
<1> DEFINE N1 == SetCol(node, y, BLACK)
           N2 == SetCol(N1, p, BLACK)
<1>8. node' = SetCol(N2, g, RED)
  BY <1>3 DEF SetCol
<1>9. Else(node, N1, y) /\ ColIs(node, N1, y, BLACK)
  <2>1. node \in Nodes /\ y \in Node /\ BLACK \in {RED, BLACK}
    BY <1>6, <1>7
  <2>2. QED BY <2>1, ColSet
<1> HIDE DEF N1
<1>10. Else(N1, N2, p) /\ ColIs(N1, N2, p, BLACK)
  <2>1. N1 \in Nodes /\ p \in Node /\ BLACK \in {RED, BLACK}
    BY <1>5, <1>6, <1>9 DEF Else
  <2>2. QED BY <2>1, ColSet
<1> HIDE DEF N2
<1>11. Else(N2, node', g) /\ ColIs(N2, node', g, RED)
  <2>1. N2 \in Nodes /\ g \in Node /\ RED \in {RED, BLACK} /\ node' = SetCol(N2, g, RED)
    BY <1>5, <1>6, <1>8, <1>10 DEF Else
  <2>2. QED BY <2>1, ColSet
<1>12. /\ node' \in Nodes
       /\ \A n \in Node : /\ node'[n].key = node[n].key /\ node'[n].parent = node[n].parent /\ node'[n].kid = node[n].kid
                          /\ n # p /\ n # y /\ n # g => node'[n] = node[n]
       /\ node'[p].col = BLACK /\ node'[y].col = BLACK /\ node'[g].col = RED
  BY <1>5, <1>6, <1>7, <1>9, <1>10, <1>11 DEF Else, ColIs
<1>13. SameLinks(node, node', T)
  BY <1>6, <1>12 DEF SameLinks, Up, Kid
<1>14. Drawn(u)'
  <2>1. Shape(node', root, u)
    BY <1>6, <1>13, SameShape DEF SameLinks
  <2>2. QED BY <2>1, <1>3, <1>6, <1>12 DEF Drawn
<1>15. Fresh(u)'
  BY <1>2, <1>3, <1>5, <1>7, <1>12 DEF Fresh
<1>16. Covered(u)'
  BY <1>2, <1>3 DEF Covered, Pending
<1>17. Coloured(node', Cols', root, u, g)
  <2>1. /\ Cols' \in Paints /\ Cols'[p] = BLACK /\ Cols'[y] = BLACK /\ Cols'[g] = RED
        /\ \A n \in T : n # p /\ n # y /\ n # g => Cols'[n] = Cols[n]
    BY <1>5, <1>6, <1>7, <1>12 DEF Cols, Paints, Nodes
  <2>2. /\ Shape(node, root, u) /\ SameLinks(node, node', u[root])
        /\ c \in u[root] /\ p \in u[root] /\ y \in u[root] /\ g \in u[root] /\ e \in Side
        /\ Up(node, c) = p /\ Kid(node, g, e) = p /\ Kid(node, g, Other(e)) = y
        /\ Cols[p] = RED /\ Cols[y] = RED /\ Coloured(node, Cols, root, u, c)
    BY <1>4, <1>5, <1>6, <1>7, <1>13
  <2>3. QED BY <2>1, <2>2, RecolourColoured
<1>18. LocalsTyped' /\ cur'[a] = g /\ par'[a] = node[g].parent /\ pc'[a] = "fix"
  <2>1. g \in Node /\ node[g].parent \in Node \cup {Null}
    BY <1>5, <1>6 DEF Nodes
  <2>2. QED BY <2>1, <1>1, <1>3 DEF LocalsTyped
<1>19. Fixing(a, u)'
  <2>1. root = g \/ node'[root].col = BLACK
    <3>1. root \in Node
      BY <1>5, <1>6 DEF Shape, Typed
    <3>2. root # p /\ root # y /\ node[root].col = BLACK
      BY <1>5, <1>7
    <3>3. root # g => node'[root] = node[root]
      BY <3>1, <3>2, <1>12
    <3>4. QED BY <3>2, <3>3
  <2>2. g \in Node /\ node'[g].parent = node[g].parent /\ node'[g].col = RED
    BY <1>5, <1>6, <1>12
  <2>3. g \in u[root'] /\ (root' = g \/ node'[root'].col = BLACK)
    BY <2>1, <1>3, <1>5
  <2>4. QED BY <2>2, <2>3, <1>18 DEF Fixing
<1>20. Sound(a, u)'
  BY <1>3, <1>17, <1>18, <1>19 DEF Sound, Waiting, Planting, Going, Topped, Painting
<1>21. (u[root] \subseteq made)' /\ made' \subseteq Node
  BY <1>1, <1>2, <1>3
<1>22. Held(u)'
  BY <1>14, <1>15, <1>16, <1>20, <1>21, HeldNext
<1>23. TypeOK'
  BY <1>14, <1>18, <1>21, TypedNext
<1>24. QED BY <1>3, <1>22, <1>23 DEF Kept, Grows

-----------------------------------------------------------------------------
(* Rotating *)

\* A rotation of a drawn tree draws one of the same nodes.
LEMMA RotateDrawn ==
  ASSUME NEW N \in Nodes, NEW r, NEW u, Shape(N, r, u), NEW p \in u[r], NEW d \in Side, Riser(N, p, d) # Null,
         NEW t, t = Rotated(Tree(N, r), p, d), NEW v, v = Swung(N, u, p, d)
  PROVE  /\ t = Tree(t.node, t.root) /\ RotateWrites(N, r, t.node, t.root, p, d, u[r])
         /\ Shape(t.node, t.root, v) /\ v[t.root] = u[r]
<1>1. t = Tree(t.node, t.root) /\ RotateWrites(N, r, t.node, t.root, p, d, u[r])
  BY RotatedIs
<1>2. Turn(N, r, t.node, t.root, p, d, u[r])
  BY <1>1 DEF RotateWrites
<1>3. Shape(t.node, t.root, v) /\ v[t.root] = u[r]
  BY <1>2, TurnShape
<1>4. QED BY <1>1, <1>3

\* What the rebalancing's rotations make of the tree M of root q.
Righted(M, q, v, T) ==
    /\ M \in Nodes /\ Shape(M, q, v) /\ v[q] = T
    /\ \A n \in Node : M[n].key = node[n].key /\ (n \notin T => M[n] = node[n])
    /\ \E C \in Paints : (\A n \in Node : C[n] = M[n].col) /\ Coloured(M, C, q, v, Null)

\* The last rotation: g, black, goes down; s, red, comes up; s's red outer
\* child was the only red node with a red parent.
LEMMA LastTurn ==
  ASSUME NEW N \in Nodes, NEW r, NEW u, Shape(N, r, u), NEW g \in u[r], NEW e \in Side,
         NEW s \in u[r], Kid(N, g, e) = s, NEW b, b = Kid(N, s, e),
         NEW C \in Paints, C[g] = BLACK, C[s] = RED, Coloured(N, C, r, u, b),
         Kid(N, g, Other(e)) # Null => C[Kid(N, g, Other(e))] = BLACK,
         \A n \in Node : n # g /\ n # s => C[n] = N[n].col,
         \A n \in Node : N[n].key = node[n].key /\ (n \notin u[r] => N[n] = node[n]),
         NEW t, t = Rotated(Tree(N, r), g, Other(e))
  PROVE  \E v : Righted(t.node, t.root, v, u[r])
<1> DEFINE T == u[r]
           d == Other(e)
           M == t.node
           q == t.root
<1>1. d \in Side /\ Other(d) = e /\ u[r] \subseteq Node /\ Null \notin u[r] /\ RED # BLACK
  BY Sides, NodeFacts DEF Shape, Typed, RED, BLACK
<1>2. Riser(N, g, d) = s /\ s # Null /\ g \in Node /\ s \in Node
  BY <1>1 DEF Riser
<1> HIDE DEF d
<1>3. PICK v : v = Swung(N, u, g, d)
  OBVIOUS
<1>4. t = Rotated(Tree(N, r), g, d) /\ Riser(N, g, d) # Null
  BY <1>2 DEF d
<1>5. RotateWrites(N, r, t.node, t.root, g, d, u[r]) /\ Shape(t.node, t.root, v) /\ v[t.root] = u[r]
  BY <1>1, <1>3, <1>4, RotateDrawn
<1> HIDE DEF M, q
<1>6. RotateWrites(N, r, M, q, g, d, u[r]) /\ Shape(M, q, v) /\ v[q] = u[r]
  BY <1>5 DEF M, q
<1>7. /\ M \in Nodes /\ Turn(N, r, M, q, g, d, u[r])
      /\ \A n \in Node : /\ M[n].key = N[n].key
                         /\ M[n].col = IF n = g THEN RED ELSE IF n = s THEN BLACK ELSE N[n].col
                         /\ n \notin T => M[n] = N[n]
  BY <1>2, <1>6 DEF RotateWrites
<1> DEFINE B == [n \in Node |-> M[n].col]
<1>8. B \in Paints /\ \A n \in Node : B[n] = M[n].col
  BY <1>7 DEF Nodes, Paints
<1> HIDE DEF B
<1>9. g # s
  BY <1>1
<1>10. B[g] = RED /\ B[s] = BLACK /\ \A n \in u[r] : n # g /\ n # s => B[n] = C[n]
  BY <1>1, <1>2, <1>7, <1>8, <1>9
<1>11. PICK h : Even(N, C, r, u, h)
  BY DEF Coloured
<1>12. /\ Shape(N, r, u) /\ g \in u[r] /\ d \in Side /\ Riser(N, g, d) # Null
       /\ Turn(N, r, M, q, g, d, u[r]) /\ v[q] = u[r]
       /\ Even(N, C, r, u, h) /\ C[g] = BLACK /\ C[Riser(N, g, d)] = RED
       /\ (Kid(N, g, d) # Null => C[Kid(N, g, d)] = BLACK)
       /\ NoRedPair(N, C, r, u, Kid(N, Riser(N, g, d), Other(d)))
       /\ B \in Paints /\ B[g] = RED /\ B[Riser(N, g, d)] = BLACK
       /\ \A n \in u[r] : n # g /\ n # Riser(N, g, d) => B[n] = C[n]
  BY <1>1, <1>2, <1>4, <1>6, <1>7, <1>8, <1>10, <1>11 DEF d, Coloured
<1>13. NoRedPair(M, B, q, v, Null) /\ \E k : Even(M, B, q, v, k)
  BY <1>12, OuterTurn
<1>14. Coloured(M, B, q, v, Null)
  BY <1>13 DEF Coloured
<1>15. Righted(M, q, v, T)
  BY <1>6, <1>7, <1>8, <1>14 DEF Righted
<1>16. QED BY <1>15 DEF M, q

\* One rotation, or two if the node is an inner child, end the last red pair.
LEMMA Rebalanced ==
  ASSUME NEW u, Drawn(u), NEW c, NEW p, NEW g, NEW e, Pair(c, p, g, e, u), e = SideOf(p),
         Kid(node, g, Other(e)) # Null => Cols[Kid(node, g, Other(e))] = BLACK,
         NEW t, t = Rotated(Turned(c, p), g, Other(e))
  PROVE  \E v : Righted(t.node, t.root, v, u[root])
<1> DEFINE T == u[root]
           w == Kid(node, g, Other(e))
<1>1. /\ c \in T /\ p \in T /\ g \in T /\ e \in Side /\ Up(node, c) = p /\ Up(node, p) = g /\ Kid(node, g, e) = p
      /\ c # root /\ p # root /\ Cols[c] = RED /\ Cols[p] = RED /\ Cols[g] = BLACK /\ Coloured(node, Cols, root, u, c)
  BY DEF Pair
<1>2. /\ Shape(node, root, u) /\ node \in Nodes /\ T \subseteq Node /\ Null \notin Node
      /\ (\A n \in Node : Cols[n] = node[n].col) /\ Cols \in Paints /\ RED # BLACK
  BY NodeFacts DEF Drawn, Shape, Typed, Cols, Paints, Nodes, RED, BLACK
<1>3. CASE node[p].kid[e] = c
  <2>1. Turned(c, p) = Tree(node, root)
    BY <1>3 DEF Turned, Tree
  <2>2. /\ node \in Nodes /\ Shape(node, root, u) /\ g \in u[root] /\ e \in Side /\ p \in u[root]
        /\ Kid(node, g, e) = p /\ c = Kid(node, p, e)
        /\ Cols \in Paints /\ Cols[g] = BLACK /\ Cols[p] = RED /\ Coloured(node, Cols, root, u, c)
        /\ (Kid(node, g, Other(e)) # Null => Cols[Kid(node, g, Other(e))] = BLACK)
        /\ (\A n \in Node : n # g /\ n # p => Cols[n] = node[n].col)
        /\ (\A n \in Node : node[n].key = node[n].key /\ (n \notin u[root] => node[n] = node[n]))
        /\ t = Rotated(Tree(node, root), g, Other(e))
    BY <1>1, <1>2, <1>3, <2>1 DEF Kid
  <2>3. QED BY <2>2, LastTurn
<1>4. CASE node[p].kid[e] # c
  <2>1. Kid(node, p, Other(e)) = c /\ Other(e) \in Side
    <3>1. \E x \in Side : Kid(node, p, x) = c
      BY <1>1, <1>2, Above
    <3>2. QED BY <3>1, <1>1, <1>4, Sides DEF Kid
  <2>2. Turned(c, p) = Rotated(Tree(node, root), p, e)
    BY <1>4 DEF Turned, Tree
  <2>3. Riser(node, p, e) = c /\ c # Null
    BY <2>1, <1>1, <1>2 DEF Riser
  <2>4. PICK t1 : t1 = Rotated(Tree(node, root), p, e)
    OBVIOUS
  <2>5. PICK v1 : v1 = Swung(node, u, p, e)
    OBVIOUS
  <2> DEFINE N == t1.node
             r == t1.root
  <2>6. t1 = Tree(N, r) /\ RotateWrites(node, root, N, r, p, e, T) /\ Shape(N, r, v1) /\ v1[r] = T
    <3>1. /\ node \in Nodes /\ Shape(node, root, u) /\ p \in u[root] /\ e \in Side /\ Riser(node, p, e) # Null
          /\ t1 = Rotated(Tree(node, root), p, e) /\ v1 = Swung(node, u, p, e)
      BY <1>1, <1>2, <2>3, <2>4, <2>5
    <3>2. QED BY <3>1, RotateDrawn
  <2> HIDE DEF N, r
  <2>7. /\ N \in Nodes /\ Turn(node, root, N, r, p, e, T)
        /\ \A n \in Node : /\ N[n].key = node[n].key
                           /\ N[n].col = IF n = p THEN RED ELSE IF n = c THEN BLACK ELSE node[n].col
                           /\ n \notin T => N[n] = node[n]
    BY <2>3, <2>6 DEF RotateWrites
  <2>8. g # p /\ g # c /\ w # p /\ w # c /\ c # p
    <3>1. g # p /\ w # p /\ c # p
      BY <1>1, <1>2, Above, Around
    <3>2. g # c
      <4>1. c \in u[p] /\ p \notin u[c]
        BY <1>1, <1>2, Above
      <4>2. p \in u[g]
        BY <1>1, <1>2, Above
      <4>3. QED BY <4>1, <4>2
    <3>3. w # c
      <4>1. w # Null => Up(node, w) = g
        BY <1>1, <1>2, <2>1, Around
      <4>2. QED BY <3>1, <4>1, <1>1, <1>2
    <3>4. QED BY <3>1, <3>2, <3>3
  <2>9. /\ Kid(N, g, e) = c /\ Kid(N, g, Other(e)) = w /\ Kid(N, c, e) = p
    BY <1>1, <2>1, <2>3, <2>7, <2>8 DEF Turn
  <2>10. Coloured(N, Cols, r, v1, p)
    <3>1. PICK h : Even(node, Cols, root, u, h)
      BY <1>1 DEF Coloured
    <3>2. /\ Shape(node, root, u) /\ p \in u[root] /\ e \in Side /\ Riser(node, p, e) # Null /\ p # root
          /\ Turn(node, root, N, r, p, e, u[root]) /\ v1[r] = u[root]
          /\ Even(node, Cols, root, u, h) /\ Cols[p] = RED /\ Cols[Riser(node, p, e)] = RED
          /\ NoRedPair(node, Cols, root, u, Riser(node, p, e))
      BY <3>1, <1>1, <1>2, <2>3, <2>6, <2>7 DEF Coloured
    <3>3. NoRedPair(N, Cols, r, v1, p) /\ \E k : Even(N, Cols, r, v1, k)
      BY <3>2, InnerTurn
    <3>4. QED BY <3>3 DEF Coloured
  <2>11. /\ N \in Nodes /\ Shape(N, r, v1) /\ g \in v1[r] /\ e \in Side /\ c \in v1[r]
         /\ Kid(N, g, e) = c /\ p = Kid(N, c, e)
         /\ Cols \in Paints /\ Cols[g] = BLACK /\ Cols[c] = RED /\ Coloured(N, Cols, r, v1, p)
         /\ (Kid(N, g, Other(e)) # Null => Cols[Kid(N, g, Other(e))] = BLACK)
         /\ (\A n \in Node : n # g /\ n # c => Cols[n] = N[n].col)
         /\ (\A n \in Node : N[n].key = node[n].key /\ (n \notin v1[r] => N[n] = node[n]))
         /\ t = Rotated(Tree(N, r), g, Other(e))
    BY <1>1, <1>2, <2>2, <2>4, <2>6, <2>7, <2>9, <2>10
  <2>12. \E v : Righted(t.node, t.root, v, v1[r])
    BY <2>11, LastTurn
  <2>13. QED BY <2>6, <2>12
<1>5. QED BY <1>3, <1>4

\* The rotations of the rebalancing keep the nodes and leave no red pair.
LEMMA FixRotateKeeps ==
  ASSUME NEW a, Actor = {a}, TypeOK, NEW u, Held(u), FixRotate(a)
  PROVE  Kept(u)
<1> DEFINE T == u[root]
           c == cur[a]
           p == par[a]
           g == node[p].parent
           e == SideOf(p)
           t == Rotated(Turned(c, p), g, Other(e))
<1>1. LocalsTyped /\ made \subseteq Node
  BY TypedNow
<1>2. Drawn(u) /\ u[root] \subseteq made /\ Fresh(u) /\ Covered(u) /\ Sound(a, u)
  BY HeldNow
<1>3. /\ pc[a] = "fix" /\ RedParent(a) /\ ~ RedUncle(p) /\ made' = made
      /\ node' = t.node /\ root' = t.root /\ UNCHANGED locals /\ result' = result /\ Goto(a, "black")
  BY DEF FixRotate
<1>4. Pair(c, p, g, e, u) /\ Uncle(p) = Kid(node, g, Other(e))
  BY <1>3, PairIs
<1>5. LocalsTyped' /\ pc'[a] = "black"
  BY <1>1, <1>3 DEF LocalsTyped, Goto, locals
<1> HIDE DEF c, p, g
<1>6. Kid(node, g, Other(e)) # Null => Cols[Kid(node, g, Other(e))] = BLACK
  <2>1. Uncle(p) # Null => node[Uncle(p)].col # RED
    BY <1>3 DEF RedUncle
  <2>2. Uncle(p) \in Node \cup {Null} /\ node \in Nodes
    <3>1. Shape(node, root, u) /\ g \in u[root] /\ Other(e) \in Side /\ node \in Nodes
      BY <1>2, <1>4, Sides DEF Pair, Drawn
    <3>2. Kid(node, g, Other(e)) \in u[root] \cup {Null} /\ u[root] \subseteq Node
      BY <3>1, Around DEF Shape, Typed
    <3>3. QED BY <3>1, <3>2, <1>4
  <2>3. Uncle(p) # Null => Cols[Uncle(p)] = BLACK
    BY <2>1, <2>2 DEF Cols, Nodes
  <2>4. QED BY <2>3, <1>4
<1>7. PICK v : Righted(t.node, t.root, v, T)
  <2> HIDE DEF t
  <2>1. t = Rotated(Turned(c, p), g, Other(e)) /\ e = SideOf(p)
    BY DEF t
  <2> HIDE DEF e
  <2>2. QED BY <2>1, <1>2, <1>4, <1>6, Rebalanced
<1> HIDE DEF t, e
<1>8. /\ node' \in Nodes /\ Shape(node', root', v) /\ v[root'] = T
      /\ \A n \in Node : node'[n].key = node[n].key /\ (n \notin T => node'[n] = node[n])
      /\ \E C \in Paints : (\A n \in Node : C[n] = node'[n].col) /\ Coloured(node', C, root', v, Null)
  BY <1>3, <1>7 DEF Righted
<1>9. Drawn(v)'
  BY <1>2, <1>8 DEF Drawn
<1>10. Fresh(v)' /\ Covered(v)'
  BY <1>2, <1>3, <1>5, <1>8 DEF Fresh, Covered, Pending
<1>11. Coloured(node', Cols', root', v, Null)
  <2>1. PICK C \in Paints : (\A n \in Node : C[n] = node'[n].col) /\ Coloured(node', C, root', v, Null)
    BY <1>8
  <2>2. C = Cols'
    BY <2>1 DEF Cols, Paints
  <2>3. QED BY <2>1, <2>2
<1>12. root' # Null
  <2>1. c \in T
    BY <1>4 DEF Pair
  <2>2. QED BY <2>1, <1>8 DEF Shape, Typed
<1>13. Sound(a, v)'
  BY <1>5, <1>11, <1>12 DEF Sound, Waiting, Planting, Going, Fixing, Topped, Painting
<1>14. (v[root] \subseteq made)' /\ made' \subseteq Node
  BY <1>1, <1>2, <1>3, <1>8
<1>15. Held(v)'
  BY <1>9, <1>10, <1>13, <1>14, HeldNext
<1>16. TypeOK'
  BY <1>5, <1>9, <1>14, TypedNext
<1>17. QED BY <1>8, <1>15, <1>16 DEF Kept, Grows

-----------------------------------------------------------------------------
(* Theorems *)

Inv == TypeOK /\ \E u : Held(u)

\* Every step of the lone caller keeps the invariant, and adds at most one
\* node, of a new key.
LEMMA StepKeeps ==
  ASSUME NEW a, Actor = {a}, TypeOK, NEW u, Held(u), Next
  PROVE  Kept(u)
<1>1. Step(a) \/ \E k \in KeysOf[a] : CallFind(a, k) \/ CallInsert(a, k)
  BY DEF Next
<1>2. CASE Step(a)
  <2>1. CASE FindNext(a)
    BY <2>1, FindNextKeeps
  <2>2. CASE FindNothing(a)
    BY <2>2, FindNothingKeeps
  <2>3. CASE InsertTest(a)
    BY <2>3, InsertTestKeeps
  <2>4. CASE Plant(a)
    BY <2>4, PlantKeeps
  <2>5. CASE Descend(a)
    BY <2>5, DescendKeeps
  <2>6. CASE Link(a)
    BY <2>6, LinkKeeps
  <2>7. CASE FixDone(a)
    BY <2>7, FixDoneKeeps
  <2>8. CASE FixRecolour(a)
    BY <2>8, FixRecolourKeeps
  <2>9. CASE FixRotate(a)
    BY <2>9, FixRotateKeeps
  <2>10. CASE Blacken(a)
    BY <2>10, BlackenKeeps
  <2>11. QED BY <1>2, <2>1, <2>2, <2>3, <2>4, <2>5, <2>6, <2>7, <2>8, <2>9, <2>10 DEF Step
<1>3. ASSUME NEW k \in KeysOf[a], CallFind(a, k) PROVE Kept(u)
  BY <1>3, CallFindKeeps
<1>4. ASSUME NEW k \in KeysOf[a], CallInsert(a, k) PROVE Kept(u)
  BY <1>4, CallInsertKeeps
<1>5. QED BY <1>1, <1>2, <1>3, <1>4

\* So does a stuttering step.
LEMMA StayKeeps ==
  ASSUME NEW a, Actor = {a}, TypeOK, NEW u, Held(u), UNCHANGED vars
  PROVE  Kept(u)
<1>1. UNCHANGED <<root, node, made, pc, op, arg, cur, par, new, result>>
  BY DEF vars
<1>2. Drawn(u) /\ u[root] \subseteq made /\ Fresh(u) /\ Covered(u) /\ Sound(a, u) /\ LocalsTyped /\ made \subseteq Node
  BY HeldNow, TypedNow
<1>3. Drawn(u)' /\ Fresh(u)' /\ Cols' = Cols
  BY <1>1, <1>2, SameTree
<1>4. Covered(u)' /\ LocalsTyped' /\ (u[root] \subseteq made)' /\ made' \subseteq Node
  BY <1>1, <1>2 DEF Covered, Pending, LocalsTyped
<1>5. Sound(a, u)'
  BY <1>1, <1>2, <1>3
     DEF Sound, Waiting, Planting, Going, Below, Missing, Toward, Fixing, Topped, Painting
<1>6. Held(u)'
  BY <1>3, <1>4, <1>5, HeldNext
<1>7. TypeOK'
  BY <1>3, <1>4, TypedNext
<1>8. QED BY <1>1, <1>6, <1>7 DEF Kept, Grows

\* The invariant is inductive.
LEMMA InvNext ==
  ASSUME NEW a, Actor = {a}, Inv, [Next]_vars
  PROVE  Inv'
<1>1. PICK u : Held(u)
  BY DEF Inv
<1>2. TypeOK
  BY DEF Inv
<1>3. Kept(u)
  <2>1. CASE Next
    BY <1>1, <1>2, <2>1, StepKeeps
  <2>2. CASE UNCHANGED vars
    BY <1>1, <1>2, <2>2, StayKeeps
  <2>3. QED BY <2>1, <2>2
<1>4. QED BY <1>3 DEF Kept, Inv

\* Where the invariant holds, what is attached is found, and a loop meets the
\* keys in order.
LEMMA OrderedIs ==
  ASSUME NEW a, Actor = {a}, Inv
  PROVE  Ordered
<1>1. PICK u : Held(u)
  BY DEF Inv
<1>2. Drawn(u) /\ Covered(u) /\ TypeOK
  BY <1>1 DEF Held, Inv
<1>3. EveryKeyFound
  <2>1. SUFFICES ASSUME NEW n \in made, ~ Pending(n) PROVE Find(n[1]) # Null /\ Find(n[1])[1] = n[1]
    BY DEF EveryKeyFound
  <2>2. PICK x \in u[root] : x[1] = n[1]
    BY <1>2, <2>1 DEF Covered
  <2>3. Find(x[1]) \in Node /\ Find(x[1])[1] = x[1]
    BY <1>2, FindIs
  <2>4. QED BY <2>2, <2>3, NodeFacts
<1>4. IterationSorted
  BY <1>2, IterationIs
<1>5. QED BY <1>2, <1>3, <1>4 DEF Ordered

\* Where the invariant holds and no operation is under way, the tree is
\* balanced.
LEMMA BalancedIs ==
  ASSUME NEW a, Actor = {a}, Inv
  PROVE  Is_balance
<1>1. PICK u : Held(u)
  BY DEF Inv
<1>2. Drawn(u) /\ Sound(a, u)
  BY <1>1, HeldNow
<1>3. SUFFICES ASSUME Quiet PROVE Is_balance
  BY DEF Is_balance
<1>4. pc[a] = "idle"
  BY <1>3 DEF Quiet
<1>5. Coloured(node, Cols, root, u, Null) /\ (root # Null => node[root].col = BLACK)
  BY <1>2, <1>4 DEF Sound, Topped, Painting
<1>6. QED BY <1>2, <1>5, BalanceIs

\* The tree's nodes are those below its root.
LEMMA TreeAlways == \A u : Drawn(u) => InTree = u[root]
BY TreeIs

\* After a step too.
LEMMA TreeAfter == (\A u : Drawn(u) => InTree = u[root])'
BY TreeAlways, PTL

Keys == {n[1] : n \in InTree}

\* A step of the tree is a step of the set of keys, or none.
LEMMA GrowsStep ==
  ASSUME NEW a, Actor = {a}, Inv, [Next]_vars
  PROVE  [Abstract!Next]_Keys
<1>1. PICK u : Held(u)
  BY DEF Inv
<1>2. TypeOK
  BY DEF Inv
<1>3. Kept(u)
  <2>1. CASE Next
    BY <1>1, <1>2, <2>1, StepKeeps
  <2>2. CASE UNCHANGED vars
    BY <1>1, <1>2, <2>2, StayKeeps
  <2>3. QED BY <2>1, <2>2
<1>4. PICK v : Held(v)' /\ Grows(u[root], v[root'])
  BY <1>3 DEF Kept
<1>5. InTree = u[root] /\ InTree' = v[root']
  <2>1. Drawn(u) /\ Drawn(v)'
    BY <1>1, <1>4 DEF Held
  <2>2. QED BY <2>1, TreeAlways, TreeAfter
<1>6. CASE v[root'] = u[root]
  BY <1>5, <1>6 DEF Keys
<1>7. ASSUME NEW x \in Node, v[root'] = u[root] \cup {x}, \A y \in u[root] : y[1] # x[1]
      PROVE  Abstract!Next
  <2>1. Keys' = Keys \cup {x[1]} /\ x[1] \notin Keys
    BY <1>5, <1>7 DEF Keys
  <2>2. x[1] \in Key
    BY NodeFacts
  <2>3. QED BY <2>1, <2>2 DEF Keys, Abstract!Next, Abstract!Add
<1>8. QED BY <1>4, <1>6, <1>7 DEF Grows

\* The empty tree holds no key.
LEMMA KeysInit ==
  ASSUME Init
  PROVE  Abstract!Init
<1>1. PICK u : Held(u)
  BY HeldInit
<1>2. Drawn(u) /\ root = Null
  BY <1>1 DEF Held, Init
<1>3. InTree = {}
  BY <1>2, TreeIs DEF Drawn, Shape, Typed
<1>4. QED BY <1>3 DEF Abstract!Init

\* With one caller the inductive invariant always holds: the links make a
\* search tree, in it or pending is every node ever made, and the colours are
\* equally black but for the red pair the rebalancing is about.
THEOREM InvAlways == ASSUME NEW a, Actor = {a} PROVE Spec => []Inv
<1>1. Init => Inv
  BY HeldInit DEF Inv
<1>2. Inv /\ [Next]_vars => Inv'
  BY InvNext
<1>3. QED BY <1>1, <1>2, PTL DEF Spec

\* With one caller, at every step of every insertion whatever has been attached
\* is found by the search (find, operator[]), and between operations a loop
\* over the tree meets all its keys in order.
THEOREM OrderedAlways == ASSUME NEW a, Actor = {a} PROVE Spec => []Ordered
<1>1. Inv => Ordered
  BY OrderedIs
<1>2. QED BY <1>1, InvAlways, PTL

\* With one caller, between operations the root is black, no red node has a red
\* parent, and every way from the root to a missing child meets the same number
\* of black nodes.
THEOREM BalancedAlways == ASSUME NEW a, Actor = {a} PROVE Spec => []Is_balance
<1>1. Inv => Is_balance
  BY BalancedIs
<1>2. QED BY <1>1, InvAlways, PTL

\* With one caller, the tree is a set of keys that grows by one key at a time
\* and loses none: the rotations and repaintings are invisible.
THEOREM TreeImplementsKeySet == ASSUME NEW a, Actor = {a} PROVE Spec => ImplementsKeySet
<1>1. Init => Abstract!Init
  BY KeysInit
<1>2. Inv /\ [Next]_vars => [Abstract!Next]_Keys
  BY GrowsStep
<1>3. QED BY <1>1, <1>2, InvAlways, PTL DEF Spec, ImplementsKeySet, Abstract!Spec, Keys
=============================================================================
