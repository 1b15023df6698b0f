----------------------------- MODULE MCHeapTrace -----------------------------
(***************************************************************************)
(* HeapTrace for TLC: threads and pointers are interchangeable.            *)
(***************************************************************************)
EXTENDS HeapTrace, TLC

PointerSymmetry == Permutations(Pointers)   \* for a single thread
Symmetry == Permutations(Threads) \cup Permutations(Pointers)
=============================================================================
