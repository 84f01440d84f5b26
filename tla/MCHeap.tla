------------------------------- MODULE MCHeap -------------------------------
(* Model-checking instance of Heap: an arena of at most four blocks, and    *)
(* two interchangeable threads beside the interrupt handler.                *)
EXTENDS Heap, TLC

Symmetry == Permutations(Threads)
=============================================================================
