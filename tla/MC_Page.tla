------------------------------ MODULE MC_Page ------------------------------
(* Instances of PageAllocator for TLC: small zones and words. *)
EXTENDS PageAllocator, TLC

NoMap     == {}
TwoInZone == {<<1, 4>>, <<5, 8>>}
Crossing  == {<<3, 5>>}

Clients == Permutations(Client)

\* 14 is no multiple of a zone.
NoBases    == {}
MixedBases == {8, 14}
Apart2     == {4, 8, 14}
=============================================================================
