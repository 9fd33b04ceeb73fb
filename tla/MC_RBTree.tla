----------------------------- MODULE MC_RBTree -----------------------------
(* Instances of RBTree for TLC. *)
EXTENDS RBTree, TLC

CONSTANTS a0, a1

\* One actor and eight keys, the fewest for which a recolouring moves a red
\* pair up to a rotation; one of them is also given to insert() again.
OneActor == {a0}
EightKeys == a0 :> 1 .. 8
EightNodes == {<<k, 1>> : k \in 1 .. 8} \cup {<<4, 2>>}

\* Two cores, each looking for its own key and making a node for it.
TwoActors == {a0, a1}
OwnKeys == a0 :> {1} @@ a1 :> {2}
OwnNodes == {<<1, 1>>, <<2, 1>>}
=============================================================================
