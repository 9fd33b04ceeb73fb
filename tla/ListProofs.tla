----------------------------- MODULE ListProofs -----------------------------
(***************************************************************************)
(* The links of List agree for every set of nodes.  Linked is inductive    *)
(* together with the types: each insertion and removal rewrites two links  *)
(* forward and two backward, and every other node keeps its neighbours.    *)
(* It does not exclude a second ring of listed nodes beside the list, so   *)
(* the second half carries the path itself from the head to the end, which *)
(* an iterator then follows, and shows that it changes as a sequence does. *)
(***************************************************************************)
EXTENDS List, TLAPS, WellFoundedInduction, FiniteSetTheorems

Inv == TypeOK /\ Linked

\* The empty list: the head and the end are each other's neighbours.
LEMMA InitInv == Init => Inv
  BY ListAssumption DEF Init, Inv, TypeOK, Linked, Link

\* insert of a node that is not listed, before a listed one or the end.
LEMMA InsertInv ==
  ASSUME Inv, NEW n \in Node, n \notin listed, NEW m \in listed \cup {_end}, insert(n, m)
  PROVE  Inv'
<1>1. prev[m] \in listed \cup {_head} /\ next[prev[m]] = m
  BY DEF Inv, Linked
<1>2. TypeOK'
  BY <1>1, ListAssumption DEF Inv, TypeOK, Link, insert
<1>3. (\A x \in listed \cup {_head} : next[x] \in listed \cup {_end} /\ prev[next[x]] = x)'
  BY <1>1, ListAssumption DEF Inv, TypeOK, Linked, Link, insert
<1>4. (\A x \in listed \cup {_end} : prev[x] \in listed \cup {_head} /\ next[prev[x]] = x)'
  BY <1>1, ListAssumption DEF Inv, TypeOK, Linked, Link, insert
<1>5. (next[_end] = Null /\ prev[_head] = Null)'
  BY <1>1, ListAssumption DEF Inv, TypeOK, Linked, Link, insert
<1>6. QED BY <1>2, <1>3, <1>4, <1>5 DEF Inv, Linked

\* A listed node goes.
LEMMA UnlinkInv ==
  ASSUME Inv, NEW n \in listed, unlink(n), listed' = listed \ {n}
  PROVE  Inv'
<1>1. prev[n] \in listed \cup {_head} /\ next[n] \in listed \cup {_end}
  BY DEF Inv, Linked
<1>2. TypeOK'
  BY <1>1, ListAssumption DEF Inv, TypeOK, Link, unlink
<1>3. (\A x \in listed \cup {_head} : next[x] \in listed \cup {_end} /\ prev[next[x]] = x)'
  BY <1>1, ListAssumption DEF Inv, TypeOK, Linked, Link, unlink
<1>4. (\A x \in listed \cup {_end} : prev[x] \in listed \cup {_head} /\ next[prev[x]] = x)'
  BY <1>1, ListAssumption DEF Inv, TypeOK, Linked, Link, unlink
<1>5. (next[_end] = Null /\ prev[_head] = Null)'
  BY <1>1, ListAssumption DEF Inv, TypeOK, Linked, Link, unlink
<1>6. QED BY <1>2, <1>3, <1>4, <1>5 DEF Inv, Linked

\* A step of the client keeps the invariant: push and pop go through the
\* first node, which is listed or the end.
LEMMA NextInv == Inv /\ [Next]_vars => Inv'
<1> SUFFICES ASSUME Inv, [Next]_vars PROVE Inv'
  OBVIOUS
<1>1. next[_head] \in listed \cup {_end}
  BY DEF Inv, Linked
<1>2. ASSUME NEW n \in Node, NEW m \in Node, Insert(n, m) PROVE Inv'
  BY <1>2, InsertInv DEF Insert
<1>3. ASSUME NEW n \in Node, append(n) PROVE Inv'
  BY <1>3, InsertInv DEF append
<1>4. ASSUME NEW n \in Node, push(n) PROVE Inv'
  BY <1>1, <1>4, InsertInv DEF push
<1>5. ASSUME NEW n \in Node, remove(n) PROVE Inv'
  <2>1. CASE n \in listed
    <3>1. Null \notin {next[n], prev[n]}
      BY <2>1, ListAssumption DEF Inv, TypeOK, Linked
    <3>2. unlink(n) /\ listed' = listed \ {n}
      BY <1>5, <3>1 DEF remove
    <3>3. QED BY <2>1, <3>2, UnlinkInv
  <2>2. CASE n \notin listed
    <3>1. UNCHANGED vars
      BY <1>5, <2>2 DEF remove, vars
    <3>2. QED BY <3>1 DEF vars, Inv, TypeOK, Linked
  <2>3. QED BY <2>1, <2>2
<1>6. ASSUME pop PROVE Inv'
  <2>1. CASE next[_head] \in listed
    <3>1. Null \notin {next[next[_head]], prev[next[_head]]}
      BY <2>1, ListAssumption DEF Inv, TypeOK, Linked
    <3>2. unlink(next[_head]) /\ listed' = listed \ {next[_head]}
      BY <1>6, <3>1 DEF pop
    <3>3. QED BY <2>1, <3>2, UnlinkInv
  <2>2. CASE next[_head] = _end /\ _end \notin listed
    <3>1. listed' = listed
      BY <1>6, <2>2 DEF pop
    <3>2. UNCHANGED <<next, prev>>
      BY <1>6, <2>2 DEF pop, Inv, Linked
    <3>3. QED BY <3>1, <3>2 DEF Inv, TypeOK, Linked
  <2>3. QED BY <1>1, <2>1, <2>2, ListAssumption DEF Inv, TypeOK
<1>7. CASE UNCHANGED vars
  BY <1>7 DEF vars, Inv, TypeOK, Linked
<1>8. QED BY <1>2, <1>3, <1>4, <1>5, <1>6, <1>7 DEF Next

\* The links of listed nodes agree in both directions in every state the
\* client's calls reach (mlist.hpp:152-201), and stay in the list.
THEOREM ListLinked == Spec => [](TypeOK /\ Linked)
<1>1. Init => Inv
  BY InitInv
<1>2. Inv /\ [Next]_vars => Inv'
  BY NextInv
<1>3. Inv => TypeOK /\ Linked
  BY DEF Inv
<1>4. QED BY <1>1, <1>2, <1>3, PTL DEF Spec
-----------------------------------------------------------------------------
(* The list is a sequence. *)

\* Every set of numbers has a least one.
Less == {p \in Nat \X Nat : p[1] < p[2]}
LEMMA LessWF == IsWellFoundedOn(Less, Nat)
<1>1. Less = OpToRel(<, Nat)
  BY DEF Less, OpToRel
<1> QED
  BY <1>1, NatLessThanWellFounded DEF Less, OpToRel

LEMMA LeastNat ==
    ASSUME NEW T \in SUBSET Nat, T # {}
    PROVE  \E x \in T : \A y \in T : x <= y
<1>1. PICK x \in T : \A y \in T : ~ (<<y, x>> \in Less)
  BY LessWF, WFMin
<1>2. \A y \in T : ~ (y < x)
  BY <1>1 DEF Less
<1> QED
  BY <1>1, <1>2

\* A sequence is what it has at its places.
LEMMA ByPlaces ==
    ASSUME NEW X, NEW s \in Seq(X), NEW n \in Nat, Len(s) = n
    PROVE  s = [i \in 1 .. n |-> s[i]]
  OBVIOUS

LEMMA Joined ==
    ASSUME NEW X, NEW a \in Seq(X), NEW b \in Seq(X)
    PROVE  /\ a \o b \in Seq(X) /\ Len(a \o b) = Len(a) + Len(b)
           /\ \A i \in 1 .. Len(a) + Len(b) : (a \o b)[i] = IF i <= Len(a) THEN a[i] ELSE b[i - Len(a)]
  OBVIOUS

(* A sequence with one more, and with one less. *)
LEMMA Inserted ==
    ASSUME NEW X, NEW s \in Seq(X), NEW n \in Nat, Len(s) = n, NEW k \in 1 .. n + 1, NEW x \in X
    PROVE  InsertAt(s, k, x) =
           [i \in 1 .. n + 1 |-> IF i < k THEN s[i] ELSE IF i = k THEN x ELSE s[i - 1]]
<1> DEFINE a == SubSeq(s, 1, k - 1)
           b == SubSeq(s, k, n)
           c == a \o <<x>>
           j == k - 1
           m == n + 1 - k
<1>1. a \in Seq(X) /\ Len(a) = j /\ \A i \in 1 .. j : a[i] = s[i]
  OBVIOUS
<1>2. b \in Seq(X) /\ Len(b) = m /\ \A i \in 1 .. m : b[i] = s[k + i - 1]
  OBVIOUS
<1>3. InsertAt(s, k, x) = c \o b
  BY DEF InsertAt
<1>4. k \in Nat /\ j \in Nat /\ m \in Nat /\ j + 1 = k /\ k + m = n + 1 /\ n + 1 \in Nat
  OBVIOUS
<1>5. <<x>> \in Seq(X) /\ Len(<<x>>) = 1 /\ <<x>>[1] = x
  OBVIOUS
<1> HIDE DEF a, b, j, m
<1>6. /\ c \in Seq(X) /\ Len(c) = j + 1
      /\ \A i \in 1 .. j + 1 : c[i] = IF i <= j THEN a[i] ELSE <<x>>[i - j]
  BY <1>1, <1>4, <1>5, Joined
<1> HIDE DEF c
<1>7. /\ c \o b \in Seq(X) /\ Len(c \o b) = k + m
      /\ \A i \in 1 .. k + m : (c \o b)[i] = IF i <= k THEN c[i] ELSE b[i - k]
  <2>1. Len(c) = k /\ c \in Seq(X) /\ b \in Seq(X) /\ Len(b) = m
    BY <1>2, <1>4, <1>6
  <2> QED
    BY <2>1, Joined
<1>8. ASSUME NEW i \in 1 .. n + 1
      PROVE  (c \o b)[i] = IF i < k THEN s[i] ELSE IF i = k THEN x ELSE s[i - 1]
  <2>1. CASE i < k
    <3>1. i <= j /\ i \in 1 .. j /\ i \in 1 .. j + 1 /\ i <= k /\ i \in 1 .. k + m
      BY <1>4, <2>1
    <3> QED
      BY <1>1, <1>6, <1>7, <2>1, <3>1
  <2>2. CASE i = k
    <3>1. ~ (i <= j) /\ i \in 1 .. j + 1 /\ i <= k /\ i - j = 1 /\ ~ (i < k) /\ i \in 1 .. k + m
      BY <1>4, <2>2
    <3> QED
      BY <1>5, <1>6, <1>7, <2>2, <3>1
  <2>3. CASE i > k
    <3>1. ~ (i <= k) /\ i - k \in 1 .. m /\ k + (i - k) - 1 = i - 1 /\ ~ (i < k) /\ i # k /\ i \in 1 .. k + m
      BY <1>4, <2>3
    <3> QED
      BY <1>2, <1>7, <3>1
  <2>4. i < k \/ i = k \/ i > k
    BY <1>4
  <2> QED
    BY <2>1, <2>2, <2>3, <2>4
<1>9. c \o b = [i \in 1 .. n + 1 |-> (c \o b)[i]]
  BY <1>4, <1>7, ByPlaces
<1> QED
  BY <1>3, <1>8, <1>9

LEMMA Removed ==
    ASSUME NEW X, NEW s \in Seq(X), NEW n \in Nat, Len(s) = n, NEW k \in 1 .. n
    PROVE  RemoveAt(s, k) = [i \in 1 .. n - 1 |-> IF i < k THEN s[i] ELSE s[i + 1]]
<1> DEFINE a == SubSeq(s, 1, k - 1)
           b == SubSeq(s, k + 1, n)
           j == k - 1
           m == n - k
<1>1. a \in Seq(X) /\ Len(a) = j /\ \A i \in 1 .. j : a[i] = s[i]
  OBVIOUS
<1>2. b \in Seq(X) /\ Len(b) = m /\ \A i \in 1 .. m : b[i] = s[k + i]
  OBVIOUS
<1>3. RemoveAt(s, k) = a \o b
  BY DEF RemoveAt
<1>4. j \in Nat /\ m \in Nat /\ j + m = n - 1 /\ n - 1 \in Nat /\ k = j + 1
  OBVIOUS
<1> HIDE DEF a, b, j, m
<1>5. /\ a \o b \in Seq(X) /\ Len(a \o b) = j + m
      /\ \A i \in 1 .. j + m : (a \o b)[i] = IF i <= j THEN a[i] ELSE b[i - j]
  BY <1>1, <1>2, <1>4, Joined, ZenonT(40)
<1>6. ASSUME NEW i \in 1 .. n - 1
      PROVE  (a \o b)[i] = IF i < k THEN s[i] ELSE s[i + 1]
  <2>1. CASE i < k
    <3>1. i <= j /\ i \in 1 .. j
      BY <1>4, <2>1
    <3> QED
      BY <1>1, <1>4, <1>5, <2>1, <3>1
  <2>2. CASE ~ (i < k)
    <3>1. ~ (i <= j) /\ i - j \in 1 .. m /\ k + (i - j) = i + 1
      BY <1>4, <2>2
    <3> QED
      BY <1>2, <1>4, <1>5, <2>2, <3>1
  <2> QED
    BY <2>1, <2>2
<1>7. a \o b = [i \in 1 .. n - 1 |-> (a \o b)[i]]
  BY <1>4, <1>5, ByPlaces
<1> QED
  BY <1>3, <1>6, <1>7

-----------------------------------------------------------------------------
Ends == Node \cup {_head, _end}

\* The nodes from the head, place 0, to the end, place n + 1.
Path(p, n) ==
    /\ p \in [0 .. n + 1 -> Ends]
    /\ p[0] = _head /\ p[n + 1] = _end
    /\ \A i, j \in 0 .. n + 1 : p[i] = p[j] => i = j
    /\ listed = {p[i] : i \in 1 .. n}
    /\ \A i \in 0 .. n : next[p[i]] = p[i + 1] /\ prev[p[i + 1]] = p[i]

With(p, n, k, x) == [i \in 0 .. n + 2 |-> IF i <= k THEN p[i] ELSE IF i = k + 1 THEN x ELSE p[i - 1]]
Without(p, n, k) == [i \in 0 .. n |-> IF i < k THEN p[i] ELSE p[i + 1]]

(* insert puts the node between two neighbours of the path. *)
LEMMA PathInsert ==
    ASSUME TypeOK, NEW n \in Nat, NEW p, Path(p, n), NEW k \in 0 .. n,
           NEW x \in Node, x \notin listed, insert(x, p[k + 1])
    PROVE  Path(With(p, n, k, x), n + 1)'
<1> DEFINE q == With(p, n, k, x)
<1>1. k + 1 \in 0 .. n + 1 /\ k \in 0 .. n + 1 /\ n + 1 \in Nat /\ n + 1 + 1 = n + 2
  OBVIOUS
<1>2. /\ p \in [0 .. n + 1 -> Ends]
      /\ p[0] = _head /\ p[n + 1] = _end
      /\ \A i, j \in 0 .. n + 1 : p[i] = p[j] => i = j
      /\ listed = {p[i] : i \in 1 .. n}
      /\ \A i \in 0 .. n : next[p[i]] = p[i + 1] /\ prev[p[i + 1]] = p[i]
  BY DEF Path
<1>3. \A i \in 0 .. n + 1 : p[i] # x
  <2>1. ASSUME NEW i \in 0 .. n + 1 PROVE p[i] # x
    <3>1. i = 0 \/ i = n + 1 \/ i \in 1 .. n
      OBVIOUS
    <3> QED
      BY <1>2, <3>1, ListAssumption
  <2> QED
    BY <2>1
<1>4. /\ q \in [0 .. n + 2 -> Ends]
      /\ \A i \in 0 .. n + 2 : q[i] = IF i <= k THEN p[i] ELSE IF i = k + 1 THEN x ELSE p[i - 1]
  BY <1>2 DEF With, Ends
<1> HIDE DEF q
<1>5. q[0] = _head /\ q[n + 2] = _end /\ q[k] = p[k] /\ q[k + 1] = x /\ q[k + 2] = p[k + 1]
  BY <1>2, <1>4, SMTT(40)
<1>6. \A i, j \in 0 .. n + 2 : q[i] = q[j] => i = j
  <2>1. ASSUME NEW i \in 0 .. n + 2, NEW j \in 0 .. n + 2, q[i] = q[j], i < j PROVE FALSE
    <3>1. CASE j <= k
      BY <1>2, <1>4, <2>1, <3>1
    <3>2. CASE i = k + 1
      <4>1. q[i] = x /\ q[j] = p[j - 1] /\ j - 1 \in 0 .. n + 1
        BY <1>4, <2>1, <3>2
      <4> QED
        BY <1>3, <2>1, <4>1
    <3>3. CASE j = k + 1
      <4>1. q[j] = x /\ q[i] = p[i] /\ i \in 0 .. n + 1
        BY <1>4, <2>1, <3>3
      <4> QED
        BY <1>3, <2>1, <4>1
    <3>4. CASE i <= k /\ j > k + 1
      <4>1. q[i] = p[i] /\ i \in 0 .. n + 1 /\ q[j] = p[j - 1] /\ j - 1 \in 0 .. n + 1 /\ i # j - 1
        BY <1>4, <2>1, <3>4
      <4> QED
        BY <1>2, <2>1, <4>1
    <3>5. CASE i > k + 1
      <4>1. q[i] = p[i - 1] /\ i - 1 \in 0 .. n + 1 /\ q[j] = p[j - 1] /\ j - 1 \in 0 .. n + 1 /\ i - 1 # j - 1
        BY <1>4, <2>1, <3>5
      <4> QED
        BY <1>2, <2>1, <4>1
    <3> QED
      BY <2>1, <3>1, <3>2, <3>3, <3>4, <3>5
  <2>2. SUFFICES ASSUME NEW i \in 0 .. n + 2, NEW j \in 0 .. n + 2, q[i] = q[j], i # j PROVE FALSE
    OBVIOUS
  <2>3. i < j \/ j < i
    BY <2>2
  <2> QED
    BY <2>1, <2>2, <2>3
<1>7. listed' = {q[i] : i \in 1 .. n + 1}
  <2>1. listed' = listed \cup {x}
    BY DEF insert
  <2>2. ASSUME NEW y \in listed PROVE y \in {q[i] : i \in 1 .. n + 1}
    <3>1. PICK i \in 1 .. n : y = p[i]
      BY <1>2, <2>2
    <3>2. CASE i <= k
      <4>1. q[i] = y /\ i \in 1 .. n + 1
        BY <1>4, <3>1, <3>2
      <4> QED
        BY <4>1
    <3>3. CASE i > k
      <4>1. q[i + 1] = y /\ i + 1 \in 1 .. n + 1
        BY <1>4, <3>1, <3>3
      <4> QED
        BY <4>1
    <3> QED
      BY <3>2, <3>3
  <2>3. x \in {q[i] : i \in 1 .. n + 1}
    <3>1. k + 1 \in 1 .. n + 1
      OBVIOUS
    <3> QED
      BY <1>5, <3>1
  <2>4. ASSUME NEW i \in 1 .. n + 1 PROVE q[i] \in listed \cup {x}
    <3>1. CASE i <= k
      BY <1>2, <1>4, <3>1
    <3>2. CASE i = k + 1
      BY <1>5, <3>2
    <3>3. CASE i > k + 1
      <4>1. q[i] = p[i - 1] /\ i - 1 \in 1 .. n
        BY <1>4, <3>3
      <4> QED
        BY <1>2, <4>1
    <3> QED
      BY <3>1, <3>2, <3>3
  <2> QED
    BY <2>1, <2>2, <2>3, <2>4
<1>8. /\ next' = [next EXCEPT ![p[k]] = x, ![x] = p[k + 1]]
      /\ prev' = [prev EXCEPT ![x] = p[k], ![p[k + 1]] = x]
  BY <1>2 DEF insert
<1>9. ASSUME NEW y \in Ends
      PROVE  /\ next'[y] = IF y = x THEN p[k + 1] ELSE IF y = p[k] THEN x ELSE next[y]
             /\ prev'[y] = IF y = p[k + 1] THEN x ELSE IF y = x THEN p[k] ELSE prev[y]
  <2>1. next \in [Ends -> Link] /\ prev \in [Ends -> Link]
    BY DEF TypeOK, Ends
  <2>2. p[k] \in Ends /\ p[k + 1] \in Ends /\ x \in Ends /\ p[k] # x /\ p[k + 1] # x
    BY <1>1, <1>2, <1>3 DEF Ends
  <2> QED
    BY <1>8, <2>1, <2>2
<1>10. ASSUME NEW i \in 0 .. n + 1 PROVE next'[q[i]] = q[i + 1] /\ prev'[q[i + 1]] = q[i]
  <2>1. p[k] \in Ends /\ p[k + 1] \in Ends /\ x \in Ends /\ p[k] # x /\ p[k + 1] # x /\ p[k] # p[k + 1]
    <3>1. k # k + 1
      OBVIOUS
    <3> QED
      BY <1>1, <1>2, <1>3, <3>1 DEF Ends
  <2>2. CASE i < k
    <3>1. q[i] = p[i] /\ q[i + 1] = p[i + 1] /\ i \in 0 .. n /\ i \in 0 .. n + 1 /\ i + 1 \in 0 .. n + 1
          /\ i # k /\ i + 1 # k + 1
      BY <1>4, <2>2
    <3>2. p[i] # p[k] /\ p[i + 1] # p[k + 1] /\ p[i] # x /\ p[i + 1] # x
      BY <1>1, <1>2, <1>3, <3>1
    <3>3. p[i] \in Ends /\ p[i + 1] \in Ends /\ next[p[i]] = p[i + 1] /\ prev[p[i + 1]] = p[i]
      BY <1>2, <3>1
    <3> QED
      BY <1>9, <3>1, <3>2, <3>3
  <2>3. CASE i = k
    BY <1>5, <1>9, <2>1, <2>3
  <2>4. CASE i = k + 1
    <3>1. i + 1 = k + 2
      BY <2>4
    <3> QED
      BY <1>5, <1>9, <2>1, <2>4, <3>1
  <2>5. CASE i > k + 1
    <3>1. /\ q[i] = p[i - 1] /\ q[i + 1] = p[i] /\ i - 1 \in 0 .. n /\ i - 1 \in 0 .. n + 1 /\ i - 1 + 1 = i
          /\ i - 1 # k /\ i # k + 1
      BY <1>4, <2>5
    <3>2. p[i - 1] # p[k] /\ p[i] # p[k + 1] /\ p[i - 1] # x /\ p[i] # x
      BY <1>1, <1>2, <1>3, <3>1
    <3>3. p[i - 1] \in Ends /\ p[i] \in Ends /\ next[p[i - 1]] = p[i] /\ prev[p[i]] = p[i - 1]
      BY <1>2, <3>1
    <3> QED
      BY <1>9, <3>1, <3>2, <3>3
  <2> QED
    BY <2>2, <2>3, <2>4, <2>5
<1> QED
  BY <1>1, <1>4, <1>5, <1>6, <1>7, <1>10 DEF Path, q

(* unlink takes a node out from between its neighbours. *)
LEMMA PathUnlink ==
    ASSUME TypeOK, NEW n \in Nat, NEW p, Path(p, n), NEW k \in 1 .. n,
           unlink(p[k]), listed' = listed \ {p[k]}
    PROVE  Path(Without(p, n, k), n - 1)'
<1> DEFINE q == Without(p, n, k)
<1>1. k + 1 \in 0 .. n + 1 /\ k - 1 \in 0 .. n + 1 /\ k \in 0 .. n + 1 /\ n - 1 \in Nat /\ n - 1 + 1 = n
      /\ k - 1 \in 0 .. n /\ k \in 0 .. n /\ k - 1 + 1 = k
  OBVIOUS
<1>2. /\ p \in [0 .. n + 1 -> Ends]
      /\ p[0] = _head /\ p[n + 1] = _end
      /\ \A i, j \in 0 .. n + 1 : p[i] = p[j] => i = j
      /\ listed = {p[i] : i \in 1 .. n}
      /\ \A i \in 0 .. n : next[p[i]] = p[i + 1] /\ prev[p[i + 1]] = p[i]
  BY DEF Path
<1>3. /\ q \in [0 .. n -> Ends]
      /\ \A i \in 0 .. n : q[i] = IF i < k THEN p[i] ELSE p[i + 1]
  BY <1>2 DEF Without
<1> HIDE DEF q
<1>4. q[0] = _head /\ q[n] = _end
  BY <1>2, <1>3
<1>5. \A i, j \in 0 .. n : q[i] = q[j] => i = j
  <2>1. ASSUME NEW i \in 0 .. n, NEW j \in 0 .. n, q[i] = q[j], i < j PROVE FALSE
    <3>1. CASE j < k
      BY <1>2, <1>3, <2>1, <3>1
    <3>2. CASE i < k /\ ~ (j < k)
      <4>1. q[i] = p[i] /\ i \in 0 .. n + 1 /\ q[j] = p[j + 1] /\ j + 1 \in 0 .. n + 1 /\ i # j + 1
        BY <1>3, <2>1, <3>2
      <4> QED
        BY <1>2, <2>1, <4>1
    <3>3. CASE ~ (i < k)
      <4>1. q[i] = p[i + 1] /\ i + 1 \in 0 .. n + 1 /\ q[j] = p[j + 1] /\ j + 1 \in 0 .. n + 1 /\ i + 1 # j + 1
        BY <1>3, <2>1, <3>3
      <4> QED
        BY <1>2, <2>1, <4>1
    <3> QED
      BY <3>1, <3>2, <3>3
  <2>2. SUFFICES ASSUME NEW i \in 0 .. n, NEW j \in 0 .. n, q[i] = q[j], i # j PROVE FALSE
    OBVIOUS
  <2>3. i < j \/ j < i
    BY <2>2
  <2> QED
    BY <2>1, <2>2, <2>3
<1>6. listed' = {q[i] : i \in 1 .. n - 1}
  <2>1. ASSUME NEW y \in listed, y # p[k] PROVE y \in {q[i] : i \in 1 .. n - 1}
    <3>1. PICK i \in 1 .. n : y = p[i]
      BY <1>2, <2>1
    <3>2. i # k
      BY <2>1, <3>1
    <3>3. CASE i < k
      <4>1. q[i] = y /\ i \in 1 .. n - 1
        BY <1>3, <3>1, <3>3
      <4> QED
        BY <4>1
    <3>4. CASE i > k
      <4>1. q[i - 1] = y /\ i - 1 \in 1 .. n - 1
        BY <1>3, <3>1, <3>4
      <4> QED
        BY <4>1
    <3> QED
      BY <3>2, <3>3, <3>4
  <2>2. ASSUME NEW i \in 1 .. n - 1 PROVE q[i] \in listed \ {p[k]}
    <3>1. PICK j \in 1 .. n : q[i] = p[j] /\ j # k
      <4>1. CASE i < k
        <5>1. i \in 1 .. n /\ i # k /\ q[i] = p[i]
          BY <1>3, <4>1
        <5> QED
          BY <5>1
      <4>2. CASE ~ (i < k)
        <5>1. i + 1 \in 1 .. n /\ i + 1 # k /\ q[i] = p[i + 1]
          BY <1>3, <4>2
        <5> QED
          BY <5>1
      <4> QED
        BY <4>1, <4>2
    <3>2. j \in 0 .. n + 1
      OBVIOUS
    <3> QED
      BY <1>1, <1>2, <3>1, <3>2
  <2> QED
    BY <2>1, <2>2
<1>7. /\ next' = [next EXCEPT ![p[k - 1]] = p[k + 1]]
      /\ prev' = [prev EXCEPT ![p[k + 1]] = p[k - 1]]
  <2>1. next[p[k]] = p[k + 1] /\ prev[p[k]] = p[k - 1]
    BY <1>1, <1>2
  <2> QED
    BY <2>1 DEF unlink
<1>8. ASSUME NEW y \in Ends
      PROVE  /\ next'[y] = IF y = p[k - 1] THEN p[k + 1] ELSE next[y]
             /\ prev'[y] = IF y = p[k + 1] THEN p[k - 1] ELSE prev[y]
  <2>1. next \in [Ends -> Link] /\ prev \in [Ends -> Link]
    BY DEF TypeOK, Ends
  <2> QED
    BY <1>7, <2>1
<1>9. ASSUME NEW i \in 0 .. n - 1 PROVE next'[q[i]] = q[i + 1] /\ prev'[q[i + 1]] = q[i]
  <2>1. p[k - 1] \in Ends /\ p[k + 1] \in Ends
    BY <1>1, <1>2
  <2>2. CASE i < k - 1
    <3>1. q[i] = p[i] /\ q[i + 1] = p[i + 1] /\ i \in 0 .. n /\ i \in 0 .. n + 1 /\ i + 1 \in 0 .. n + 1
          /\ i # k - 1 /\ i + 1 # k + 1
      BY <1>3, <2>2
    <3>2. p[i] # p[k - 1] /\ p[i + 1] # p[k + 1]
      BY <1>1, <1>2, <3>1
    <3>3. p[i] \in Ends /\ p[i + 1] \in Ends /\ next[p[i]] = p[i + 1] /\ prev[p[i + 1]] = p[i]
      BY <1>2, <3>1
    <3> QED
      BY <1>8, <3>1, <3>2, <3>3
  <2>3. CASE i = k - 1
    <3>1. q[i] = p[k - 1] /\ q[i + 1] = p[k + 1]
      BY <1>3, <2>3
    <3> QED
      BY <1>8, <2>1, <3>1
  <2>4. CASE i > k - 1
    <3>1. /\ q[i] = p[i + 1] /\ q[i + 1] = p[i + 2] /\ i + 1 \in 0 .. n /\ i + 1 \in 0 .. n + 1 /\ i + 2 \in 0 .. n + 1
          /\ i + 1 + 1 = i + 2 /\ i + 1 # k - 1 /\ i + 2 # k + 1
      BY <1>3, <2>4
    <3>2. p[i + 1] # p[k - 1] /\ p[i + 2] # p[k + 1]
      BY <1>1, <1>2, <3>1
    <3>3. p[i + 1] \in Ends /\ p[i + 2] \in Ends /\ next[p[i + 1]] = p[i + 2] /\ prev[p[i + 2]] = p[i + 1]
      BY <1>2, <3>1
    <3> QED
      BY <1>8, <3>1, <3>2, <3>3
  <2> QED
    BY <2>2, <2>3, <2>4
<1> QED
  BY <1>1, <1>3, <1>4, <1>5, <1>6, <1>9 DEF Path, q

-----------------------------------------------------------------------------
(* An iterator, and what is counted with it, follow the path. *)
\* An iterator stands at the nodes of the path, one after the other, and stays
\* at the end.
LEMMA Places ==
    ASSUME NEW n \in Nat, NEW p, Path(p, n), TypeOK
    PROVE  \A k \in Nat : At[k] = IF k <= n THEN p[k + 1] ELSE _end
<1> DEFINE f == [k \in Nat |-> IF k <= n THEN p[k + 1] ELSE _end]
           step(g) == [k \in Nat |-> IF k = 0 THEN next[_head]
                                     ELSE IF g[k - 1] \in Node THEN next[g[k - 1]] ELSE g[k - 1]]
<1>1. /\ p \in [0 .. n + 1 -> Ends]
      /\ p[0] = _head /\ p[n + 1] = _end
      /\ \A i \in 1 .. n : p[i] \in Node
      /\ \A i \in 0 .. n : next[p[i]] = p[i + 1]
  BY DEF Path, TypeOK
<1>2. _end \notin Node
  BY ListAssumption
<1>3. ASSUME NEW k \in Nat
      PROVE  f[k] = IF k = 0 THEN next[_head] ELSE IF f[k - 1] \in Node THEN next[f[k - 1]] ELSE f[k - 1]
  <2>1. CASE k = 0
    <3>1. 0 \in 0 .. n /\ 0 + 1 = 1 /\ 0 <= n
      OBVIOUS
    <3>2. next[p[0]] = p[1]
      BY <1>1, <3>1
    <3> QED
      BY <1>1, <2>1, <3>1, <3>2
  <2>2. CASE k # 0 /\ k <= n
    <3>1. k - 1 \in Nat /\ k - 1 <= n /\ k - 1 + 1 = k /\ k \in 1 .. n /\ k \in 0 .. n
      BY <2>2
    <3>2. f[k - 1] = p[k] /\ f[k] = p[k + 1]
      BY <2>2, <3>1
    <3> QED
      BY <1>1, <2>2, <3>1, <3>2
  <2>3. CASE k # 0 /\ ~ (k <= n)
    <3>1. k - 1 \in Nat /\ f[k] = _end
      BY <2>3
    <3>2. f[k - 1] = _end
      <4>1. CASE k - 1 <= n
        <5>1. k - 1 + 1 = n + 1
          BY <2>3, <4>1
        <5> QED
          BY <1>1, <3>1, <4>1, <5>1
      <4> QED
        BY <3>1, <4>1
    <3> QED
      BY <1>2, <2>3, <3>1, <3>2
  <2> QED
    BY <2>1, <2>2, <2>3
<1>4. f = step(f)
  BY <1>3
<1>5. At = step(At)
  <2>1. At = CHOOSE g : g = step(g)
    BY DEF At
  <2> HIDE DEF f, step
  <2> QED
    BY <1>4, <2>1
<1>6. \A k \in Nat : At[k] = IF k = 0 THEN next[_head]
                             ELSE IF At[k - 1] \in Node THEN next[At[k - 1]] ELSE At[k - 1]
  <2> DEFINE a == At
  <2>1. a = step(a)
    BY <1>5
  <2> HIDE DEF a
  <2>2. \A k \in Nat : a[k] = IF k = 0 THEN next[_head]
                             ELSE IF a[k - 1] \in Node THEN next[a[k - 1]] ELSE a[k - 1]
    BY <2>1
  <2> QED
    BY <2>2 DEF a
<1> DEFINE T == {k \in Nat : At[k] # f[k]}
<1>7. T = {}
  <2> SUFFICES ASSUME T # {} PROVE FALSE
    OBVIOUS
  <2>1. PICK k \in T : \A j \in T : k <= j
    <3>1. T \in SUBSET Nat
      OBVIOUS
    <3> HIDE DEF T
    <3> QED
      BY <3>1, LeastNat
  <2>2. k \in Nat /\ At[k] # f[k]
    BY <2>1
  <2>3. CASE k = 0
    BY <1>3, <1>6, <2>2, <2>3
  <2>4. CASE k # 0
    <3>1. k - 1 \in Nat /\ ~ (k <= k - 1)
      BY <2>2, <2>4
    <3>2. At[k - 1] = f[k - 1]
      BY <2>1, <3>1
    <3> QED
      BY <1>3, <1>6, <2>2, <2>4, <3>2
  <2> QED
    BY <2>3, <2>4
<1> QED
  BY <1>7

Reading ==
    \A n \in Nat : \A p \in [0 .. n + 1 -> Ends] :
        TypeOK /\ Path(p, n) =>
            /\ iteration = [i \in 1 .. n |-> p[i]]
            /\ length = n /\ Cardinality(listed) = n

LEMMA Read == Reading
<1> SUFFICES ASSUME NEW n \in Nat, NEW p \in [0 .. n + 1 -> Ends], TypeOK, Path(p, n)
             PROVE  /\ iteration = [i \in 1 .. n |-> p[i]]
                    /\ length = n /\ Cardinality(listed) = n
  BY DEF Reading
<1> DEFINE C == Cardinality(Node)
           ends == {k \in 0 .. C : At[k] = _end}
<1>1. /\ p[n + 1] = _end
      /\ \A i, j \in 0 .. n + 1 : p[i] = p[j] => i = j
      /\ listed = {p[i] : i \in 1 .. n} /\ listed \subseteq Node
  BY DEF Path, TypeOK
<1>2. Cardinality(listed) = n
  <2> DEFINE g == [i \in 1 .. n |-> p[i]]
  <2>1. g \in Surjection(1 .. n, listed) /\ g \in Injection(1 .. n, listed)
    <3>1. g \in [1 .. n -> listed]
      BY <1>1
    <3>2. ASSUME NEW t \in listed PROVE \E i \in 1 .. n : g[i] = t
      BY <1>1
    <3>3. ASSUME NEW i \in 1 .. n, NEW j \in 1 .. n, g[i] = g[j] PROVE i = j
      <4>1. i \in 0 .. n + 1 /\ j \in 0 .. n + 1 /\ p[i] = p[j]
        BY <3>3
      <4> QED
        BY <1>1, <4>1
    <3> HIDE DEF g
    <3> QED
      BY <3>1, <3>2, <3>3 DEF Surjection, Injection, IsInjective
  <2>2. IsFiniteSet(1 .. n) /\ Cardinality(1 .. n) = n
    BY FS_Interval
  <2> HIDE DEF g
  <2> QED
    BY <2>1, <2>2, FS_Surjection
<1>3. C \in Nat /\ n <= C
  <2>1. Cardinality(listed) <= C
    BY <1>1, NodeFinite, FS_Subset
  <2> QED
    BY <1>2, <2>1, NodeFinite, FS_CardinalityType
<1>4. \A k \in Nat : At[k] = IF k <= n THEN p[k + 1] ELSE _end
  BY Places
<1>5. \A k \in Nat : At[k] = _end <=> n <= k
  <2>1. ASSUME NEW k \in Nat PROVE At[k] = _end <=> n <= k
    <3>1. CASE k < n
      <4>1. k <= n /\ k + 1 \in 0 .. n + 1 /\ k + 1 # n + 1 /\ n + 1 \in 0 .. n + 1 /\ ~ (n <= k)
        BY <3>1
      <4> QED
        BY <1>1, <1>4, <4>1
    <3>2. CASE k = n
      BY <1>1, <1>4, <3>2
    <3>3. CASE k > n
      BY <1>4, <3>3
    <3> QED
      BY <3>1, <3>2, <3>3
  <2> QED
    BY <2>1
<1>6. length = n
  <2>1. n \in ends /\ \A j \in ends : n <= j
    BY <1>3, <1>5
  <2>2. length = CHOOSE k \in ends : \A j \in ends : k <= j
    BY <2>1 DEF length
  <2>3. ends \subseteq Nat
    BY <1>3
  <2> HIDE DEF ends
  <2>4. ASSUME NEW k \in ends, \A j \in ends : k <= j PROVE k = n
    BY <2>1, <2>3, <2>4
  <2> QED
    BY <2>1, <2>2, <2>4
<1>7. iteration = [k \in 1 .. n |-> At[k - 1]]
  BY <1>6 DEF iteration
<1>8. \A k \in 1 .. n : At[k - 1] = p[k]
  <2>1. \A k \in 1 .. n : k - 1 \in Nat /\ k - 1 <= n /\ k - 1 + 1 = k
    OBVIOUS
  <2> QED
    BY <1>4, <2>1
<1> QED
  BY <1>2, <1>6, <1>7, <1>8

LEMMA ReadNext == Reading'
  BY Read, PTL

\* The head, the listed nodes and the end are one path.
Chained == \E n \in Nat : \E p \in [0 .. n + 1 -> Ends] : Path(p, n)

LEMMA InitChained == Init => Chained
<1> SUFFICES ASSUME Init PROVE Chained
  OBVIOUS
<1> DEFINE p == [i \in 0 .. 1 |-> IF i = 0 THEN _head ELSE _end]
<1>1. p \in [0 .. 0 + 1 -> Ends]
  BY DEF Ends
<1>2. Path(p, 0)
  BY <1>1, ListAssumption DEF Path, Init, Ends
<1> QED
  BY <1>1, <1>2 DEF Chained

(* Every step keeps the path, and makes of the iteration what the abstract
   list makes of its sequence. *)
LEMMA ChainedInsert ==
    ASSUME TypeOK, TypeOK', NEW n \in Nat, NEW p \in [0 .. n + 1 -> Ends], Path(p, n), NEW k \in 0 .. n,
           NEW x \in Node, x \notin listed, insert(x, p[k + 1])
    PROVE  Chained' /\ S!Insert
<1> DEFINE q == With(p, n, k, x)
           s == [i \in 1 .. n |-> p[i]]
<1>1. Path(q, n + 1)' /\ n + 1 \in Nat /\ n + 1 + 1 = n + 2
  BY PathInsert
<1>2. q \in [0 .. n + 1 + 1 -> Ends]
  BY <1>1 DEF Path
<1>3. iteration = s
  BY Read DEF Reading
<1>4. iteration' = [i \in 1 .. n + 1 |-> q[i]]
  BY <1>1, <1>2, ReadNext DEF Reading
<1>5. s \in Seq(Node) /\ Len(s) = n /\ ToSet(s) = listed
  <2>1. listed = {p[i] : i \in 1 .. n} /\ listed \subseteq Node
    BY DEF Path, TypeOK
  <2> QED
    BY <2>1 DEF ToSet
<1>6. InsertAt(s, k + 1, x) = [i \in 1 .. n + 1 |-> IF i < k + 1 THEN s[i] ELSE IF i = k + 1 THEN x ELSE s[i - 1]]
  <2>1. k + 1 \in 1 .. n + 1
    OBVIOUS
  <2> HIDE DEF s
  <2> QED
    BY <1>5, <2>1, Inserted
<1>7. InsertAt(s, k + 1, x) = iteration'
  <2>1. ASSUME NEW i \in 1 .. n + 1
        PROVE  q[i] = IF i < k + 1 THEN s[i] ELSE IF i = k + 1 THEN x ELSE s[i - 1]
    BY DEF With
  <2> HIDE DEF q, s
  <2> QED
    BY <1>4, <1>6, <2>1
<1>8. k + 1 \in 1 .. Len(s) + 1 /\ x \in Node \ ToSet(s)
  BY <1>5
<1> HIDE DEF s, q
<1>9. S!Insert
  BY <1>3, <1>7, <1>8 DEF S!Insert
<1> QED
  BY <1>1, <1>2, <1>9 DEF Chained

LEMMA ChainedUnlink ==
    ASSUME TypeOK, TypeOK', NEW n \in Nat, NEW p \in [0 .. n + 1 -> Ends], Path(p, n), NEW k \in 1 .. n,
           unlink(p[k]), listed' = listed \ {p[k]}
    PROVE  Chained' /\ S!Unlist
<1> DEFINE q == Without(p, n, k)
           s == [i \in 1 .. n |-> p[i]]
<1>1. Path(q, n - 1)' /\ n - 1 \in Nat
  BY PathUnlink
<1>2. q \in [0 .. (n - 1) + 1 -> Ends]
  BY <1>1 DEF Path
<1>3. iteration = s
  BY Read DEF Reading
<1>4. iteration' = [i \in 1 .. n - 1 |-> q[i]]
  BY <1>1, <1>2, ReadNext DEF Reading
<1>5. s \in Seq(Node) /\ Len(s) = n
  <2>1. listed = {p[i] : i \in 1 .. n} /\ listed \subseteq Node
    BY DEF Path, TypeOK
  <2> QED
    BY <2>1
<1>6. RemoveAt(s, k) = [i \in 1 .. n - 1 |-> IF i < k THEN s[i] ELSE s[i + 1]]
  <2> HIDE DEF s
  <2> QED
    BY <1>5, Removed
<1>7. RemoveAt(s, k) = iteration'
  <2>1. ASSUME NEW i \in 1 .. n - 1
        PROVE  q[i] = IF i < k THEN s[i] ELSE s[i + 1]
    BY DEF Without
  <2> HIDE DEF q, s
  <2> QED
    BY <1>4, <1>6, <2>1
<1> HIDE DEF s, q
<1>8. S!Unlist
  BY <1>3, <1>5, <1>7 DEF S!Unlist
<1> QED
  BY <1>1, <1>2, <1>8 DEF Chained

LEMMA StepChained ==
    ASSUME Inv, Chained, [Next]_vars
    PROVE  Chained' /\ [S!Insert \/ S!Unlist]_iteration
<1>1. TypeOK /\ TypeOK' /\ Linked
  BY NextInv DEF Inv
<1>2. PICK n \in Nat : \E p \in [0 .. n + 1 -> Ends] : Path(p, n)
  BY DEF Chained
<1>3. PICK p \in [0 .. n + 1 -> Ends] : Path(p, n)
  BY <1>2
<1>4. /\ p[0] = _head /\ p[n + 1] = _end /\ listed = {p[i] : i \in 1 .. n} /\ next[_head] = p[1]
      /\ _end \notin Node /\ listed \subseteq Node
  <2>1. 0 \in 0 .. n /\ 0 + 1 = 1
    OBVIOUS
  <2> QED
    BY <1>1, <1>3, <2>1, ListAssumption DEF Path, TypeOK
<1>5. ASSUME NEW x \in Node, x \notin listed, NEW k \in 0 .. n, insert(x, p[k + 1])
      PROVE  Chained' /\ S!Insert
  BY <1>1, <1>3, <1>5, ChainedInsert
<1>6. ASSUME NEW x \in listed, unlink(x), listed' = listed \ {x}
      PROVE  Chained' /\ S!Unlist
  <2>1. PICK k \in 1 .. n : x = p[k]
    BY <1>4
  <2> QED
    BY <1>1, <1>3, <1>6, <2>1, ChainedUnlink
<1>7. ASSUME UNCHANGED vars PROVE Chained' /\ iteration' = iteration
  <2>1. Path(p, n)'
    BY <1>3, <1>7 DEF Path, vars
  <2>2. iteration = [i \in 1 .. n |-> p[i]]
    BY <1>1, <1>3, Read DEF Reading
  <2>3. iteration' = [i \in 1 .. n |-> p[i]]
    BY <1>1, <2>1, ReadNext DEF Reading
  <2> QED
    BY <2>1, <2>2, <2>3 DEF Chained
<1>8. ASSUME NEW x \in Node, NEW m \in Node, Insert(x, m) PROVE Chained' /\ S!Insert
  <2>1. PICK j \in 1 .. n : m = p[j]
    BY <1>4, <1>8 DEF Insert
  <2>2. j - 1 \in 0 .. n /\ j - 1 + 1 = j
    OBVIOUS
  <2> QED
    BY <1>5, <1>8, <2>1, <2>2 DEF Insert
<1>9. ASSUME NEW x \in Node, append(x) PROVE Chained' /\ S!Insert
  <2>1. n \in 0 .. n
    OBVIOUS
  <2> QED
    BY <1>4, <1>5, <1>9, <2>1 DEF append
<1>10. ASSUME NEW x \in Node, push(x) PROVE Chained' /\ S!Insert
  <2>1. 0 \in 0 .. n /\ 0 + 1 = 1
    OBVIOUS
  <2> QED
    BY <1>4, <1>5, <1>10, <2>1 DEF push
<1>11. ASSUME NEW x \in listed PROVE Null \notin {next[x], prev[x]}
  BY <1>1, <1>11, ListAssumption DEF TypeOK, Linked
<1>12. ASSUME NEW x \in Node, remove(x) PROVE Chained' /\ (S!Unlist \/ iteration' = iteration)
  <2>1. CASE x \in listed
    BY <1>6, <1>11, <1>12, <2>1 DEF remove
  <2>2. CASE x \notin listed
    BY <1>7, <1>12, <2>2 DEF remove, vars
  <2> QED
    BY <2>1, <2>2
<1>13. ASSUME pop PROVE Chained' /\ (S!Unlist \/ iteration' = iteration)
  <2>1. CASE n # 0
    <3>1. next[_head] \in listed
      <4>1. 1 \in 1 .. n
        BY <2>1
      <4> QED
        BY <1>4, <4>1
    <3> QED
      BY <1>6, <1>11, <1>13, <3>1 DEF pop
  <2>2. CASE n = 0
    <3>1. next[_head] = _end
      BY <1>4, <2>2
    <3>2. UNCHANGED vars
      BY <1>1, <1>4, <1>13, <3>1 DEF pop, vars, Linked
    <3> QED
      BY <1>7, <3>2
  <2> QED
    BY <2>1, <2>2
<1> QED
  BY <1>7, <1>8, <1>9, <1>10, <1>12, <1>13 DEF Next

LEMMA Whole == Inv /\ Chained => IterationIsWhole /\ (listed = {} => iteration = <<>>)
<1> SUFFICES ASSUME Inv, Chained PROVE IterationIsWhole /\ (listed = {} => iteration = <<>>)
  OBVIOUS
<1>1. PICK n \in Nat : \E p \in [0 .. n + 1 -> Ends] : Path(p, n)
  BY DEF Chained
<1>2. PICK p \in [0 .. n + 1 -> Ends] : Path(p, n)
  BY <1>1
<1>3. /\ iteration = [i \in 1 .. n |-> p[i]]
      /\ length = n /\ Cardinality(listed) = n
  BY <1>2, Read DEF Reading, Inv
<1>4. /\ p[0] = _head /\ p[n + 1] = _end /\ listed = {p[i] : i \in 1 .. n}
      /\ next[p[0]] = p[1] /\ prev[p[n + 1]] = p[n]
      /\ _end \notin listed
  <2>1. 0 \in 0 .. n /\ 0 + 1 = 1 /\ n \in 0 .. n
    OBVIOUS
  <2> QED
    BY <1>2, <2>1, ListAssumption DEF Path, Inv, TypeOK
<1>5. ToSet(iteration) = listed
  BY <1>3, <1>4 DEF ToSet
<1>6. \A x \in Node : find(x) <=> x \in listed
  BY <1>3, <1>4 DEF find
<1>7. listed = {} <=> n = 0
  <2>1. n # 0 => 1 \in 1 .. n
    OBVIOUS
  <2>2. n = 0 => 1 .. n = {}
    OBVIOUS
  <2> QED
    BY <1>4, <2>1, <2>2
<1>8. is_empty <=> listed = {}
  <2>1. CASE n = 0
    BY <1>4, <1>7, <2>1 DEF is_empty
  <2>2. CASE n # 0
    <3>1. 1 \in 1 .. n
      BY <2>2
    <3> QED
      BY <1>4, <3>1 DEF is_empty
  <2> QED
    BY <2>1, <2>2
<1>9. back = IF listed = {} THEN _head ELSE iteration[length]
  <2>1. CASE n = 0
    BY <1>4, <1>7, <2>1 DEF back
  <2>2. CASE n # 0
    <3>1. n \in 1 .. n
      BY <2>2
    <3> QED
      BY <1>3, <1>4, <1>7, <2>2, <3>1 DEF back
  <2> QED
    BY <2>1, <2>2
<1>10. listed = {} => iteration = <<>>
  <2>1. n = 0 => [i \in 1 .. n |-> p[i]] = <<>>
    OBVIOUS
  <2> QED
    BY <1>3, <1>7, <2>1
<1> QED
  BY <1>3, <1>5, <1>6, <1>8, <1>9, <1>10 DEF IterationIsWhole

(* Whatever the client inserts and removes, and whatever links removed nodes
   keep, an iterator meets a finite sequence of nodes that changes as the
   abstract sequence does; what else is read of the list agrees with it
   (mlist.hpp:152-204). *)
THEOREM ListIsSequence == Spec => ImplementsSequence
<1>1. Init => Inv /\ Chained
  BY InitInv, InitChained
<1>2. Inv /\ Chained /\ [Next]_vars => (Inv /\ Chained)' /\ [S!Insert \/ S!Unlist]_iteration
  BY NextInv, StepChained
<1>3. Inv /\ Chained => TypeOK /\ IterationIsWhole
  BY Whole DEF Inv
<1>4. Init => S!Init
  BY <1>1, Whole DEF Init, S!Init
<1> QED
  BY <1>1, <1>2, <1>3, <1>4, PTL DEF Spec, ImplementsSequence, S!Spec
=============================================================================
