------------------------------ MODULE Skiplist ------------------------------
(***************************************************************************)
(* The skip list of the library (Library::Skiplist): three nodes of its own*)
(* and one for each key, which a node is named by.  An insertion counts    *)
(* its level with a number that is the same in every round, so a node is   *)
(* to get all levels or none; it is linked in on all that are in use.      *)
(***************************************************************************)
EXTENDS Integers, Sequences, FiniteSets, SequencesExt

CONSTANTS
    Key,       \* the keys that are inserted, between the two below
    MIN, MAX,  \* numeric_limits< int64_t >
    MAXLEVEL,
    COUNT,     \* bound on the count
    head_, first_, end_,  \* the list's own nodes
    Null

Element == Key \cup {head_, first_, end_}
Level   == 0 .. MAXLEVEL - 1

key(n) == IF n \in {head_, first_} THEN MIN ELSE IF n = end_ THEN MAX ELSE n

VARIABLES
    forwards,  \* node -> level -> the next node there
    level,     \* levels in use
    count,
    _random    \* of all lists of the type; what is kept of it is its
               \* remainder by MAXLEVEL

vars == <<forwards, level, count, _random>>

Init ==
    /\ forwards = [n \in Element |-> [i \in Level |-> IF n = head_ THEN first_
                                                   ELSE IF n = first_ THEN end_ ELSE Null]]
    /\ level = 0 /\ count = 0 /\ _random \in Level

-----------------------------------------------------------------------------

\* Along level i from node n, to the last node before key k; the walk stops
\* at the end, whose key is the largest number there is.
Along[n \in Element, i \in Level, k \in Key] ==
    LET m == forwards[n][i] IN
    IF key(m) # MAX /\ k > key(m) THEN Along[m, i, k] ELSE n

\* The path of a search: the node before k on each level in use, found from
\* that of the level above; levels not in use keep what head_ points to.
Path[i \in Level, k \in Key] ==
    Along[IF i = level - 1 THEN head_ ELSE Path[i + 1, k], i, k]

s(k) == [i \in Level |-> IF i < level THEN Path[i, k] ELSE forwards[head_][i]]

current(k) == IF level = 0 THEN head_ ELSE Path[0, k]

\* search ends at the node behind the path, if the key is its key.
search(k) ==
    LET last == forwards[current(k)][0] IN IF key(last) = k THEN last ELSE Null

get_insert_level ==
    IF (_random * (_random - 1)) % MAXLEVEL < 5 THEN MAXLEVEL ELSE 0

\* A key that is there is not inserted again; the node made for it is lost.
\* So is one that gets no level while no level is in use, which is counted.
insert(k) ==
    /\ count < COUNT
    /\ _random' = (_random + 1) % MAXLEVEL
    /\ LET path == s(k)
           up == IF get_insert_level > level THEN get_insert_level ELSE level
           new == [i \in Level |-> IF i < up THEN forwards[path[i]][i] ELSE Null]
       IN IF key(forwards[current(k)][0]) = k THEN UNCHANGED <<forwards, level, count>>
          ELSE /\ level' = up
               /\ forwards' = [n \in Element |-> IF n = k THEN new
                                  ELSE [i \in Level |-> IF i < up /\ path[i] = n THEN k
                                                        ELSE forwards[n][i]]]
               /\ count' = count + 1

\* Variant: whatever stands behind the path goes, unless it is the end.
Near_remove(k) ==
    IF key(forwards[current(k)][0]) = MAX THEN UNCHANGED vars
    ELSE LET path == s(k) IN
         /\ forwards' = [n \in Element |-> [i \in Level |->
                             IF i < level /\ path[i] = n THEN forwards[forwards[n][i]][i]
                             ELSE forwards[n][i]]]
         /\ count' = count - 1
         /\ UNCHANGED <<level, _random>>

\* On every level in use the node behind the path goes.
remove(k) ==
    IF key(forwards[current(k)][0]) # k THEN UNCHANGED vars
    ELSE LET path == s(k) IN
         /\ forwards' = [n \in Element |-> [i \in Level |->
                             IF i < level /\ path[i] = n THEN forwards[forwards[n][i]][i]
                             ELSE forwards[n][i]]]
         /\ count' = count - 1
         /\ UNCHANGED <<level, _random>>

\* An insertion into another list of the type.
Elsewhere == _random' = (_random + 1) % MAXLEVEL /\ UNCHANGED <<forwards, level, count>>

Next ==
    \/ \E k \in Key : insert(k) \/ remove(k)
    \/ Elsewhere

Spec == Init /\ [][Next]_vars

-----------------------------------------------------------------------------
(* Properties *)

\* The keys on level i, in order, as begin and operator++ come to them.
From[n \in Element \cup {Null}, i \in Level] ==
    IF n \in {end_, Null} THEN <<>> ELSE <<n>> \o From[forwards[n][i], i]
Keys(i) == From[forwards[forwards[head_][0]][i], i]

TypeOK ==
    /\ forwards \in [Element -> [Level -> Element \cup {Null}]]
    /\ level \in 0 .. MAXLEVEL /\ count \in 0 .. COUNT
    /\ _random \in 0 .. MAXLEVEL - 1

\* Every level in use is a sorted chain to the end, and no level has a key
\* that the one below it has not: a search may come down anywhere
\* (skiplist.hpp:125-203).
LevelsAreSorted ==
    \A i \in 0 .. level - 1 :
        LET keys == Keys(i) IN
        /\ \A a, b \in DOMAIN keys : a < b => keys[a] < keys[b]
        /\ i > 0 => ToSet(keys) \subseteq ToSet(Keys(i - 1))

\* search says what is in the list, and no more is there than was counted.
SearchAgrees ==
    LET keys == Keys(0) IN
    /\ \A k \in Key : search(k) = IF k \in ToSet(keys) THEN k ELSE Null
    /\ Len(keys) <= count

\* The count is the length (skiplist.hpp:220).  It is not so when the first
\* insertion gets no level: LibraryAsSaid.cfg.
CountIsLength == count = Len(Keys(0))

\* What is inserted is found once a level is in use, what is removed is not,
\* the count goes along with the keys, and every other key stays where it is.
KeysComeAndGo ==
    [][\A k \in Key :
          LET same == count' - Len(Keys(0))' = count - Len(Keys(0))
              others == \A j \in Key \ {k} : search(j)' = search(j)
          IN /\ insert(k) => others /\ (level' > 0 => search(k)' = k /\ same)
             /\ remove(k) => others /\ search(k)' = Null /\ same]_vars
=============================================================================
