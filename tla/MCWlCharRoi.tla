----------------------------- MODULE MCWlCharRoi -----------------------------
(***************************************************************************)
(* WlCharRoi for TLC: blocks of two bytes, two blocks to a page.  The L2   *)
(* has one way for each of its two sets, so that the three blocks of the   *)
(* first operand evict one another while it is being sent.                 *)
(***************************************************************************)
EXTENDS WlCharRoi, TLC

Symmetry == Permutations(Threads)

MC_Caches == {"L1I", "L1D", "L2"}
MC_num_sets == [c \in Caches |-> IF c = "L2" THEN 2 ELSE 1]
MC_assoc == [c \in Caches |-> IF c = "L1D" THEN 2 ELSE 1]

\* A store across a page, and a read-modify-write.
MC_Operands ==
  {<<[is_store |-> TRUE, addr |-> 3, size |-> 4]>>,
   <<[is_store |-> FALSE, addr |-> 4, size |-> 1], [is_store |-> TRUE, addr |-> 4, size |-> 1]>>}
=============================================================================
