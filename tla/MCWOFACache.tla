---------------------------- MODULE MCWOFACache ----------------------------
(***************************************************************************)
(* WOFACache for TLC: the addresses are interchangeable, since the hash    *)
(* compares them for equality only.                                        *)
(***************************************************************************)
EXTENDS WOFACache, TLC

Symmetry == Permutations(Addr)
=============================================================================
