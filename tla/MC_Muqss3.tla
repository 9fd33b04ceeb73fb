----------------------------- MODULE MC_Muqss3 -----------------------------
(* Three cores, so that wake_up's search pops a core and still has two    *)
(* left to compare, and tasks of every class, so that a service stores     *)
(* without the lock, or its search does not end.  The clock of the model   *)
(* stands still: tasks of a class have the same deadline.                  *)
EXTENDS Muqss, TLC

CONSTANTS c0, c1, c2, m0, m1, m2, s0, s1

MC_Core == {c0, c1, c2}
MC_Task == {m0, m1, m2, s0, s1}
MC_Main == c0 :> m0 @@ c1 :> m1 @@ c2 :> m2

\* Values from the ranges the comment in first_initialize gives: an
\* isochronous and an idle service, one idle init task and two normal ones.
MixedThree == [t \in MC_Task |->
    CASE t = s0 -> ISO [] t \in {s1, m1} -> 102 [] OTHER -> NORMAL]
=============================================================================
