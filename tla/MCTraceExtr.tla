----------------------------- MODULE MCTraceExtr -----------------------------
(***************************************************************************)
(* TraceExtr for TLC.  The threads are alike, but LockIsReleased names     *)
(* each of them, so that only the runs without it use Symmetry.            *)
(***************************************************************************)
EXTENDS TraceExtr, TLC

Symmetry == Permutations(Threads)
=============================================================================
