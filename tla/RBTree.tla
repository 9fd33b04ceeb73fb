------------------------------- MODULE RBTree -------------------------------
(***************************************************************************)
(* The red-black tree of the kernel (Library::RBTree): the index of cores  *)
(* in the scheduler's running_queue and of zones in the page allocator.    *)
(* find, insert and operator[] run one iteration of a loop, or one         *)
(* assignment to the links, per step.  The tree has no lock: get_current   *)
(* calls operator[] on every core, so the steps of several actors mix.     *)
(***************************************************************************)
EXTENDS Integers, FiniteSets

CONSTANTS
    Actor,    \* who calls: the cores
    KeysOf,   \* KeysOf[a]: the keys that actor asks for
    Node,     \* pairs <<k, i>>: what the i-th "new Node { k }" returns
    Null

Key == UNION {KeysOf[a] : a \in Actor}

ASSUME RBTreeAssumption ==
    /\ KeysOf \in [Actor -> SUBSET Nat]
    /\ Node \subseteq Key \X Nat /\ IsFiniteSet(Node)
    /\ Null \notin Node

VARIABLES
    root,    \* _root
    node,    \* node[n]: _key, _col, _parent and kid (_left and _right)
    made,    \* the nodes that have been made
    pc,      \* where each actor stands
    op,      \* which of the three operations it is in
    arg,     \* the key it was called with
    cur, par,\* the locals cur and parent
    new,     \* the node it inserts
    result   \* result[a]: the node whose data the last call of a returned

vars   == <<root, node, made, pc, op, arg, cur, par, new, result>>
tree   == <<root, node, made>>
locals == <<op, arg, cur, par, new>>

RED   == "red"
BLACK == "black"
Side  == {"left", "right"}
Other(d) == IF d = "left" THEN "right" ELSE "left"

Blank(k) == [key |-> k, col |-> RED, parent |-> Null,
             kid |-> [d \in Side |-> Null]]

Init ==
    /\ root = Null
    /\ node = [n \in Node |-> Blank(n[1])]
    /\ made = {}
    /\ pc = [a \in Actor |-> "idle"]
    /\ op = [a \in Actor |-> "none"]
    /\ arg = [a \in Actor |-> Null]
    /\ cur = [a \in Actor |-> Null]
    /\ par = [a \in Actor |-> Null]
    /\ new = [a \in Actor |-> Null]
    /\ result = [a \in Actor |-> Null]

-----------------------------------------------------------------------------
(* Helpers *)

Goto(a, to) == pc' = [pc EXCEPT ![a] = to]

\* The call ends, and its locals with it.
Return(a, n) ==
    /\ Goto(a, "idle")
    /\ result' = [result EXCEPT ![a] = n]
    /\ op' = [op EXCEPT ![a] = "none"]
    /\ arg' = [arg EXCEPT ![a] = Null]
    /\ cur' = [cur EXCEPT ![a] = Null]
    /\ par' = [par EXCEPT ![a] = Null]
    /\ new' = [new EXCEPT ![a] = Null]

\* Where key k is to be looked for below n, if it is not n's.
Toward(n, k) == IF node[n].key < k THEN "right" ELSE "left"

\* new Node { key }.
Make(a, k) ==
    \E n \in Node \ made :
        /\ n[1] = k
        /\ made' = made \cup {n}
        /\ node' = [node EXCEPT ![n] = Blank(k)]
        /\ new' = [new EXCEPT ![a] = n]

\* Variant: the subtree that changes sides keeps its old parent.
Loose_rotated(t, p, d) ==
    LET s  == t.node[p].kid[Other(d)]
        pp == t.node[p].parent
        n1 == [t.node EXCEPT ![p].parent = s, ![p].kid[Other(d)] = t.node[s].kid[d],
                             ![s].kid[d] = p, ![s].parent = pp,
                             ![p].col = RED, ![s].col = BLACK]
        e  == IF n1[pp].kid["left"] = p THEN "left" ELSE "right"
    IN IF p = t.root THEN [node |-> n1, root |-> s]
       ELSE [t EXCEPT !.node = [n1 EXCEPT ![pp].kid[e] = s]]

\* Variant: the root stays where it was.
Rootless_rotated(t, p, d) ==
    LET s  == t.node[p].kid[Other(d)]
        pp == t.node[p].parent
        m  == t.node[s].kid[d]
        n1 == [t.node EXCEPT ![p].parent = s, ![p].kid[Other(d)] = m,
                             ![s].kid[d] = p, ![s].parent = pp,
                             ![p].col = RED, ![s].col = BLACK]
        n2 == IF m = Null THEN n1 ELSE [n1 EXCEPT ![m].parent = p]
        e  == IF n2[pp].kid["left"] = p THEN "left" ELSE "right"
    IN [t EXCEPT !.node = IF pp = Null THEN n2 ELSE [n2 EXCEPT ![pp].kid[e] = s]]

\* RotateR and RotateL: in the tree t, p goes down on side d, and its child
\* on the other side comes up in its place.
Rotated(t, p, d) ==
    LET s  == t.node[p].kid[Other(d)]
        pp == t.node[p].parent
        m  == t.node[s].kid[d]
        n1 == [t.node EXCEPT ![p].parent = s, ![p].kid[Other(d)] = m,
                             ![s].kid[d] = p, ![s].parent = pp,
                             ![p].col = RED, ![s].col = BLACK]
        n2 == IF m = Null THEN n1 ELSE [n1 EXCEPT ![m].parent = p]
        e  == IF n2[pp].kid["left"] = p THEN "left" ELSE "right"
    IN IF p = t.root THEN [node |-> n2, root |-> s]
       ELSE [t EXCEPT !.node = [n2 EXCEPT ![pp].kid[e] = s]]

-----------------------------------------------------------------------------
(* find, operator[] and insert *)

\* find(k) and operator[](k) begin with the search.
CallFind(a, k) ==
    /\ pc[a] = "idle"
    /\ \E o \in {"find", "index"} : op' = [op EXCEPT ![a] = o]
    /\ arg' = [arg EXCEPT ![a] = k]
    /\ cur' = [cur EXCEPT ![a] = root]
    /\ result' = [result EXCEPT ![a] = Null]
    /\ Goto(a, "find")
    /\ UNCHANGED <<tree, par, new>>

\* insert(node) with a node the caller made.
CallInsert(a, k) ==
    /\ pc[a] = "idle"
    /\ op' = [op EXCEPT ![a] = "insert"]
    /\ arg' = [arg EXCEPT ![a] = k]
    /\ Make(a, k)
    /\ result' = [result EXCEPT ![a] = Null]
    /\ Goto(a, "insert")
    /\ UNCHANGED <<root, cur, par>>

FindNext(a) ==
    /\ pc[a] = "find" /\ cur[a] # Null
    /\ IF node[cur[a]].key = arg[a]
       THEN Return(a, cur[a])
       ELSE /\ cur' = [cur EXCEPT ![a] = node[@].kid[Toward(@, arg[a])]]
            /\ UNCHANGED <<pc, op, arg, par, new, result>>
    /\ UNCHANGED tree

FindNothing(a) ==
    /\ pc[a] = "find" /\ cur[a] = Null
    /\ \/ op[a] = "find" /\ Return(a, Null) /\ UNCHANGED <<node, made>>
       \/ /\ op[a] = "index" /\ Make(a, arg[a]) /\ Goto(a, "insert")
          /\ UNCHANGED <<op, arg, cur, par, result>>
    /\ UNCHANGED root

InsertTest(a) ==
    /\ pc[a] = "insert"
    /\ IF root = Null THEN Goto(a, "plant") ELSE Goto(a, "descend")
    /\ cur' = [cur EXCEPT ![a] = root]
    /\ par' = [par EXCEPT ![a] = Null]
    /\ UNCHANGED <<tree, op, arg, new, result>>

Plant(a) ==
    /\ pc[a] = "plant"
    /\ root' = new[a]
    /\ node' = [node EXCEPT ![new[a]].col = BLACK]
    /\ Return(a, new[a])
    /\ UNCHANGED made

\* A key that is there already ends insert; operator[] returns the new
\* node's data all the same.
Descend(a) ==
    /\ pc[a] = "descend" /\ cur[a] # Null
    /\ IF node[cur[a]].key = arg[a]
       THEN Return(a, IF op[a] = "index" THEN new[a] ELSE cur[a])
       ELSE /\ par' = [par EXCEPT ![a] = cur[a]]
            /\ cur' = [cur EXCEPT ![a] = node[@].kid[Toward(@, arg[a])]]
            /\ UNCHANGED <<pc, op, arg, new, result>>
    /\ UNCHANGED tree

Link(a) ==
    /\ pc[a] = "descend" /\ cur[a] = Null
    /\ node' = [node EXCEPT ![new[a]].parent = par[a],
                            ![par[a]].kid[Toward(par[a], arg[a])] = new[a]]
    /\ cur' = [cur EXCEPT ![a] = new[a]]
    /\ Goto(a, "fix")
    /\ UNCHANGED <<root, made, op, arg, par, new, result>>

\* The loop condition of the rebalancing.
RedParent(a) == par[a] # Null /\ par[a] # root /\ node[par[a]].col = RED

\* The uncle of p: the left child of a grandfather whose right child is p.
Uncle(p) ==
    LET g == node[p].parent IN
    node[g].kid[IF node[g].kid["right"] = p THEN "left" ELSE "right"]

RedUncle(p) == Uncle(p) # Null /\ node[Uncle(p)].col = RED

\* The side of its grandfather that the rotations take the parent to be on.
SideOf(p) == IF node[node[p].parent].kid["left"] = p THEN "left" ELSE "right"

\* RotateLR and RotateRL turn the parent first, if c is the inner child.
Turned(c, p) ==
    IF node[p].kid[SideOf(p)] = c THEN [node |-> node, root |-> root]
    ELSE Rotated([node |-> node, root |-> root], p, SideOf(p))

\* A rotation of p would follow a null pointer.
MeetsNull(t, p, d) ==
    t.node[p].kid[Other(d)] = Null \/ (p # t.root /\ t.node[p].parent = Null)

FixDone(a) ==
    /\ pc[a] = "fix" /\ ~RedParent(a)
    /\ Goto(a, "black")
    /\ UNCHANGED <<tree, locals, result>>

\* Only the insertions of other actors leave null a link that the
\* rebalancing follows.  A step that would follow it has no successor: the
\* core faults and never comes back.
Broken(a) ==
    LET p == par[a]
        g == node[p].parent
    IN
    \/ g = Null
    \/ /\ ~RedUncle(p)
       /\ \/ /\ node[p].kid[SideOf(p)] # cur[a]
             /\ MeetsNull([node |-> node, root |-> root], p, SideOf(p))
          \/ MeetsNull(Turned(cur[a], p), g, Other(SideOf(p)))

\* Variant: the grandfather keeps its colour.
Unpainted_FixRecolour(a) ==
    LET p == par[a]
        g == node[p].parent
    IN
    /\ pc[a] = "fix" /\ RedParent(a) /\ ~Broken(a) /\ RedUncle(p)
    /\ node' = [node EXCEPT ![Uncle(p)].col = BLACK, ![p].col = BLACK]
    /\ cur' = [cur EXCEPT ![a] = g]
    /\ par' = [par EXCEPT ![a] = node[g].parent]
    /\ UNCHANGED <<root, made, pc, op, arg, new, result>>

FixRecolour(a) ==
    LET p == par[a]
        g == node[p].parent
    IN
    /\ pc[a] = "fix" /\ RedParent(a) /\ ~Broken(a) /\ RedUncle(p)
    /\ node' = [node EXCEPT ![Uncle(p)].col = BLACK, ![p].col = BLACK, ![g].col = RED]
    /\ cur' = [cur EXCEPT ![a] = g]
    /\ par' = [par EXCEPT ![a] = node[g].parent]
    /\ UNCHANGED <<root, made, pc, op, arg, new, result>>

\* RotateR, RotateL, RotateLR or RotateRL of the grandfather.
FixRotate(a) ==
    LET p == par[a]
        g == node[p].parent
        turned  == Turned(cur[a], p)
        rotated == Rotated(turned, g, Other(SideOf(p)))
    IN
    /\ pc[a] = "fix" /\ RedParent(a) /\ ~Broken(a) /\ ~RedUncle(p)
    /\ node' = rotated.node
    /\ root' = rotated.root
    /\ Goto(a, "black")
    /\ UNCHANGED <<made, locals, result>>

Blacken(a) ==
    /\ pc[a] = "black"
    /\ node' = [node EXCEPT ![root].col = BLACK]
    /\ Return(a, new[a])
    /\ UNCHANGED <<root, made>>

-----------------------------------------------------------------------------
(* Specification *)

Step(a) ==
    \/ FindNext(a) \/ FindNothing(a) \/ InsertTest(a) \/ Plant(a)
    \/ Descend(a) \/ Link(a) \/ FixDone(a) \/ FixRecolour(a) \/ FixRotate(a) \/ Blacken(a)

Next ==
    \E a \in Actor : Step(a) \/ \E k \in KeysOf[a] : CallFind(a, k) \/ CallInsert(a, k)

Spec == Init /\ [][Next]_vars

-----------------------------------------------------------------------------
(* Properties *)

TypeOK ==
    /\ root \in Node \cup {Null}
    /\ node \in [Node -> [key : Key, col : {RED, BLACK}, parent : Node \cup {Null},
                          kid : [Side -> Node \cup {Null}]]]
    /\ made \subseteq Node
    /\ pc \in [Actor -> {"idle", "find", "insert", "plant", "descend", "fix",
                         "black"}]
    /\ op \in [Actor -> {"none", "find", "index", "insert"}]
    /\ arg \in [Actor -> Key \cup {Null}]
    /\ \A f \in {cur, par, new, result} : f \in [Actor -> Node \cup {Null}]

\* A bound on the length of any path.
Depth == Cardinality(Node)

\* The nodes below the root, level by level.
Level[i \in 0 .. Depth] ==
    IF i = 0 THEN {root} \ {Null}
    ELSE {node[n].kid[d] : n \in Level[i - 1], d \in Side} \ {Null}
InTree == UNION {Level[i] : i \in 0 .. Depth}

\* The path find(k) takes.
Find(k) ==
    LET path[i \in 0 .. Depth] ==
          IF i = 0 THEN root
          ELSE LET n == path[i - 1] IN
               IF n = Null \/ node[n].key = k THEN n ELSE node[n].kid[Toward(n, k)]
    IN path[Depth]

\* The nodes that have not been attached yet, or never will be: their key
\* was there before.
Pending(n) == \E a \in Actor : new[a] = n /\ pc[a] \in {"insert", "plant", "descend"}

\* No rotation hides a key from the search: whatever has been attached is
\* found, at every step of a later insertion too.
EveryKeyFound ==
    \A n \in made : ~Pending(n) => LET m == Find(n[1]) IN m # Null /\ m[1] = n[1]

Quiet == \A a \in Actor : pc[a] = "idle"

\* The ancestors of n, n first.
Ancestors(n) ==
    LET up[i \in 0 .. Depth] ==
          IF i = 0 THEN n
          ELSE LET m == up[i - 1] IN IF m = Null THEN Null ELSE node[m].parent
    IN {up[i] : i \in 0 .. Depth} \ {Null}

Blacks(n) == Cardinality({m \in Ancestors(n) : node[m].col = BLACK})
Ends == {n \in InTree : \E d \in Side : node[n].kid[d] = Null}

\* Is_balance holds between operations, and so no search is longer than
\* twice the shortest.
Is_balance ==
    Quiet =>
        /\ root # Null => node[root].col = BLACK
        /\ \A n \in InTree : node[n].col = RED => node[node[n].parent].col = BLACK
        /\ \A m, n \in Ends : Blacks(m) = Blacks(n)

\* begin() and operator++, which climb by the parent links.
Leftmost(n) ==
    LET down[i \in 0 .. Depth] ==
          IF i = 0 THEN n
          ELSE LET m == down[i - 1] IN
               IF node[m].kid["left"] = Null THEN m ELSE node[m].kid["left"]
    IN down[Depth]

Climb(n) ==
    LET up[i \in 0 .. Depth] ==
          IF i = 0 THEN <<n, node[n].parent>>
          ELSE LET m == up[i - 1]
                   p == m[2]
               IN IF p # Null /\ node[p].kid["right"] = m[1]
                  THEN <<p, node[p].parent>> ELSE m
    IN up[Depth][2]

Succ(n) == IF node[n].kid["right"] # Null THEN Leftmost(node[n].kid["right"])
           ELSE Climb(n)

\* A loop over the tree (the scan of the zones, the scan of the cores) meets
\* every node once, in the order of the keys.
IterationSorted ==
    Quiet /\ root # Null =>
        LET visit[i \in 0 .. Depth] ==
              IF i = 0 THEN Leftmost(root)
              ELSE LET n == visit[i - 1] IN IF n = Null THEN Null ELSE Succ(n)
        IN /\ {visit[i] : i \in 0 .. Depth} \ {Null} = InTree
           /\ \A i \in 1 .. Depth : visit[i] # Null => visit[i - 1][1] < visit[i][1]

\* A search, at any step, and a loop, between operations, meet the keys in
\* their places.
Ordered == TypeOK /\ EveryKeyFound /\ IterationSorted

\* The tree implements a growing set of keys: rotations are invisible.
Abstract == INSTANCE KeySet WITH keys <- {n[1] : n \in InTree}
ImplementsKeySet == Abstract!Spec

\* "Current core lock must be held when accessing any
\* scheduler->running_queue" (CRITICAL_BUGS_ANALYSIS.md:113): the index is
\* safe to extend from several cores.
NoCoreLost == EveryKeyFound
=============================================================================
