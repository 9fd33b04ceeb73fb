------------------------------- MODULE List -------------------------------
(***************************************************************************)
(* The intrusive doubly linked list (Library::List) that the slab caches   *)
(* of the kernel heap keep their slabs in.  Its head and its end are nodes *)
(* of the list object itself.  A client inserts a node that is not listed  *)
(* and removes one that is, or one that never was; remove leaves the links *)
(* of the node as they are.                                                *)
(***************************************************************************)
EXTENDS Integers, Sequences, FiniteSets, SequencesExt

CONSTANTS Node, _head, _end, Null

ASSUME ListAssumption == _head # _end /\ {_head, _end, Null} \cap Node = {} /\ Null \notin {_head, _end}

\* Nodes are objects in memory.
ASSUME NodeFinite == IsFiniteSet(Node)

Link == Node \cup {_head, _end, Null}

VARIABLES
    next, prev,  \* the links of the nodes, the head and the end
    listed       \* the nodes the client has in the list

vars == <<next, prev, listed>>

Init ==
    /\ next = [n \in Node \cup {_head, _end} |-> IF n = _head THEN _end ELSE Null]
    /\ prev = [n \in Node \cup {_head, _end} |-> IF n = _end THEN _head ELSE Null]
    /\ listed = {}

-----------------------------------------------------------------------------
(* insert and its callers *)

\* Variant: the link of the node behind is not set.
Half_insert(node, in_before) ==
    /\ next' = [next EXCEPT ![prev[in_before]] = node, ![node] = in_before]
    /\ prev' = [prev EXCEPT ![node] = prev[in_before]]
    /\ listed' = listed \cup {node}

\* The four assignments of insert, of a node that is not listed.
insert(node, in_before) ==
    /\ next' = [next EXCEPT ![prev[in_before]] = node, ![node] = in_before]
    /\ prev' = [prev EXCEPT ![node] = prev[in_before], ![in_before] = node]
    /\ listed' = listed \cup {node}

Insert(node, in_before) == node \notin listed /\ in_before \in listed /\ insert(node, in_before)
append(node) == node \notin listed /\ insert(node, _end)
push(node)   == node \notin listed /\ insert(node, next[_head])

-----------------------------------------------------------------------------
(* remove and pop *)

\* Variant: only the link forward goes round the node.
Half_unlink(entry) ==
    /\ next' = [next EXCEPT ![prev[entry]] = next[entry]]
    /\ prev' = prev

unlink(entry) ==
    /\ next' = [next EXCEPT ![prev[entry]] = next[entry]]
    /\ prev' = [prev EXCEPT ![next[entry]] = prev[entry]]

\* A node with a null link is left alone: one that was in no list yet.
remove(entry) ==
    /\ entry \in listed \/ Null \in {next[entry], prev[entry]}
    /\ IF Null \in {next[entry], prev[entry]} THEN UNCHANGED <<next, prev>> ELSE unlink(entry)
    /\ listed' = listed \ {entry}

\* pop of an empty list tries the end, whose link is null, and returns it.
pop ==
    /\ IF Null \in {next[next[_head]], prev[next[_head]]} THEN UNCHANGED <<next, prev>>
       ELSE unlink(next[_head])
    /\ listed' = listed \ {next[_head]}

Next ==
    \/ \E n \in Node, m \in Node : Insert(n, m)
    \/ \E n \in Node : append(n) \/ push(n)
    \/ \E n \in Node : remove(n)
    \/ pop

Spec == Init /\ [][Next]_vars

-----------------------------------------------------------------------------
(* What a reader of the list sees *)

\* The node an iterator stands at after k steps from begin().
At[k \in Nat] == IF k = 0 THEN next[_head]
                 ELSE IF At[k - 1] \in Node THEN next[At[k - 1]] ELSE At[k - 1]

\* The steps to end(); a loop that never meets it is seen by its length.
length ==
    LET ends == {k \in 0 .. Cardinality(Node) : At[k] = _end} IN
    IF ends = {} THEN Cardinality(Node) + 1 ELSE CHOOSE k \in ends : \A j \in ends : k <= j

iteration == [k \in 1 .. length |-> At[k - 1]]

find(n) == \E k \in 1 .. length : iteration[k] = n

is_empty == next[_head] = _end
back == prev[_end]

-----------------------------------------------------------------------------
(* Properties *)

TypeOK ==
    /\ next \in [Node \cup {_head, _end} -> Link] /\ prev \in [Node \cup {_head, _end} -> Link]
    /\ listed \subseteq Node

\* Forward and backward links agree between the head, the listed nodes and
\* the end, whatever stale links the removed nodes keep (mlist.hpp:152, 196).
Linked ==
    /\ next[_end] = Null /\ prev[_head] = Null
    /\ \A n \in listed \cup {_head} : next[n] \in listed \cup {_end} /\ prev[next[n]] = n
    /\ \A n \in listed \cup {_end} : prev[n] \in listed \cup {_head} /\ next[prev[n]] = n

\* An iterator meets every listed node once and then the end, so that
\* find, length, is_empty and back say what the client did
\* (mlist.hpp:170-204).
IterationIsWhole ==
    /\ length = Cardinality(listed) /\ ToSet(iteration) = listed
    /\ \A n \in Node : find(n) <=> n \in listed
    /\ is_empty <=> listed = {}
    /\ back = IF listed = {} THEN _head ELSE iteration[length]

\* The list implements a sequence of nodes, and all that is read of it agrees
\* with that sequence.
S == INSTANCE Sequence WITH seq <- iteration
ImplementsSequence == S!Spec /\ [](TypeOK /\ IterationIsWhole)
=============================================================================
