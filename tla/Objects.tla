------------------------------ MODULE Objects ------------------------------
(* What a client of operator new and delete relies on: what it is given is *)
(* memory of its own, and stays so until it is given back.  An object is a *)
(* pair <<first byte, size>>.                                              *)
EXTENDS Integers

CONSTANTS Address, Size

VARIABLE held

Apart(o, q) == o[1] + o[2] <= q[1] \/ q[1] + q[2] <= o[1]

Init == held = {}

New == \E o \in Address \X Size :
            /\ \A q \in held : Apart(o, q)
            /\ held' = held \cup {o}

Delete == \E o \in held : held' = held \ {o}

Next == New \/ Delete

Spec == Init /\ [][Next]_held
=============================================================================
