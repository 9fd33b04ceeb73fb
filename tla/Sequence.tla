------------------------------ MODULE Sequence ------------------------------
(* What the users of an intrusive list rely on: a sequence of nodes, each  *)
(* in it once.                                                             *)
EXTENDS Sequences, SequencesExt

CONSTANT Node

VARIABLE seq

Init == seq = <<>>

Insert == \E n \in Node \ ToSet(seq), k \in 1 .. Len(seq) + 1 : seq' = InsertAt(seq, k, n)

Unlist == \E k \in 1 .. Len(seq) : seq' = RemoveAt(seq, k)

Spec == Init /\ [][Insert \/ Unlist]_seq
=============================================================================
