------------------------------- MODULE KeySet -------------------------------
(* What a client of Library::RBTree relies on: a set of keys that grows by  *)
(* one key at a time and forgets none.                                      *)
CONSTANT Key

VARIABLE keys

Init == keys = {}

Add(k) == k \notin keys /\ keys' = keys \cup {k}

Next == \E k \in Key : Add(k)

Spec == Init /\ [][Next]_keys
=============================================================================
