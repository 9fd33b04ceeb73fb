------------------------------ MODULE MC_Heap ------------------------------
(* Instances of KernelHeap for TLC: three caches.  The smallest keeps its  *)
(* Slab in the page; the map of the next has two words, that of the largest *)
(* has one.                                                                *)
EXTENDS KernelHeap

ThreeSizes == <<2, 4, 8>>
FivePages == 0 .. 4
=============================================================================
