----------------------------- MODULE BlockSplit -----------------------------
(***************************************************************************)
(* What simMemOpr (Workload_Char/wl_char_roi.cpp) has to hand to the data  *)
(* cache for an access of the program: one request for each block it       *)
(* touches, the first at the address itself, the others at block starts.   *)
(* AccessSplit is the code that computes them.                             *)
(***************************************************************************)
EXTENDS Integers, Sequences

CONSTANT BLOCK_SIZE

ASSUME BlockSizeAssumption == BLOCK_SIZE \in Nat \ {0}

blockOf(addr) == addr \div BLOCK_SIZE
blockStart(addr) == BLOCK_SIZE * blockOf(addr)

ChunkAddrs(addr, size) ==
  [i \in 1 .. blockOf(addr + size - 1) - blockOf(addr) + 1 |->
     IF i = 1 THEN addr ELSE BLOCK_SIZE * (blockOf(addr) + i - 1)]

\* The chunks (addrs[i], sizes[i]) follow each other without a gap from addr to
\* addr + size, and each lies in one block.
Tiles(addr, size, addrs, sizes) ==
  /\ Len(sizes) = Len(addrs) /\ addrs[1] = addr
  /\ \A i \in 1 .. Len(addrs) :
       /\ sizes[i] > 0 /\ blockOf(addrs[i]) = blockOf(addrs[i] + sizes[i] - 1)
       /\ addrs[i] + sizes[i] = IF i = Len(addrs) THEN addr + size ELSE addrs[i + 1]
=============================================================================
