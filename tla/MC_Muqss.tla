------------------------------ MODULE MC_Muqss ------------------------------
(* Small instances of Muqss for TLC. *)
EXTENDS Muqss, TLC

CONSTANTS c0, c1, m0, m1, s0, s1

MC_Core == {c0, c1}
MC_Task == {m0, m1, s0, s1}
MC_Main == c0 :> m0 @@ c1 :> m1

\* What first_initialize sets.
AllNormal == [t \in MC_Task |-> NORMAL]

\* From the range the comment in first_initialize gives: an isochronous service.
OneISO == m0 :> NORMAL @@ m1 :> NORMAL @@ s0 :> ISO @@ s1 :> NORMAL
=============================================================================
