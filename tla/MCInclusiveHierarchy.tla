------------------------- MODULE MCInclusiveHierarchy -------------------------
(***************************************************************************)
(* InclusiveHierarchy for TLC: L1I a single way, L1D two ways of one set,  *)
(* L2 two sets of two ways.  Three of the blocks overflow one set of L2;   *)
(* the set index of L2 is not that of the first levels, as in the          *)
(* configurations of the tool.                                             *)
(***************************************************************************)
EXTENDS InclusiveHierarchy

MC_Caches == {"L1I", "L1D", "L2"}
MC_num_sets == [c \in Caches |-> IF c = "L2" THEN 2 ELSE 1]
MC_assoc == [c \in Caches |-> IF c = "L1I" THEN 1 ELSE 2]

(***************************************************************************)
(* What of a state decides its future: the valid blocks, and of the        *)
(* timestamps of a set only their order.  The counters and the clocks only *)
(* grow, by amounts this view decides, so that two states of one view have *)
(* successors of one view; the view also tells apart the states in which   *)
(* a property of the counters or of the clocks has a different value.  TLC *)
(* so explores the behaviours of this hierarchy of any length, and not     *)
(* only the first few requests.                                            *)
(***************************************************************************)
Rank(ways, w) ==
  Cardinality({v \in DOMAIN ways : ways[v].valid /\ ways[v].when_touched < ways[w].when_touched})

Relevant(ways) ==
  [w \in DOMAIN ways |->
     IF ways[w].valid THEN <<ways[w].tag, ways[w].dirty, Rank(ways, w)>> ELSE <<>>]

View == <<[c \in Caches |-> [s \in Sets(c) |-> Relevant(tags[c][s])]], modified,
          LRUOrder, TrafficAgrees>>
=============================================================================
