----------------------------- MODULE AccessSplit -----------------------------
(***************************************************************************)
(* The two loops of simMemOpr (Workload_Char/wl_char_roi.cpp) that split   *)
(* an access of the program at block boundaries: the first pushes the      *)
(* addresses, the second the sizes, and an assertion compares how many     *)
(* there are.  Addresses are AddrBits wide, sizes SizeBits, and both wrap. *)
(***************************************************************************)
EXTENDS BlockSplit

CONSTANTS AddrBits, SizeBits,
          MaxSize    \* bound: bytes of the largest operand

\* That the powers are natural numbers follows from the widths by an induction.
ASSUME WidthAssumption ==
  /\ AddrBits \in Nat /\ 2 ^ AddrBits \in Nat /\ (2 ^ AddrBits) % BLOCK_SIZE = 0
  /\ SizeBits \in Nat /\ 2 ^ SizeBits \in Nat
  /\ MaxSize \in 1 .. (2 ^ SizeBits - 1)

VARIABLES mem_addr, payload_size,    \* arguments of simMemOpr
          aligned_addr_end, addr,    \* last block and next block of the first loop
          addrs, sizes, payload_left,
          pc

vars == <<mem_addr, payload_size, aligned_addr_end, addr, addrs, sizes, payload_left, pc>>

Addr == 0 .. 2 ^ AddrBits - 1
wrap(n) == n % (2 ^ AddrBits)
wrapSize(n) == n % (2 ^ SizeBits)

TypeOK ==
  /\ mem_addr \in Addr /\ payload_size \in 1 .. MaxSize
  /\ aligned_addr_end \in Addr /\ addr \in Addr
  /\ addrs \in Seq(Addr) /\ sizes \in Seq(1 .. BLOCK_SIZE)
  /\ payload_left \in 0 .. payload_size
  /\ pc \in {"addrs", "sizes", "done"}

\* A program has nothing mapped in the last block of the address space: the first loop
\* would not end there, where addr wraps to 0.
Init ==
  /\ mem_addr \in Addr /\ payload_size \in 1 .. MaxSize
  /\ mem_addr + payload_size <= 2 ^ AddrBits - BLOCK_SIZE
  /\ aligned_addr_end = blockStart(wrap(mem_addr + payload_size - 1))
  /\ addr = wrap(blockStart(mem_addr) + BLOCK_SIZE)
  /\ addrs = <<mem_addr>> /\ sizes = <<>>
  /\ payload_left = payload_size
  /\ pc = "addrs"

pushAddr ==
  /\ pc = "addrs" /\ addr <= aligned_addr_end
  /\ addrs' = Append(addrs, addr)
  /\ addr' = wrap(addr + BLOCK_SIZE)
  /\ UNCHANGED <<mem_addr, payload_size, aligned_addr_end, sizes, payload_left, pc>>

pushSizeOf(chunk) ==
  /\ sizes' = Append(sizes, chunk)
  /\ payload_left' = wrapSize(payload_left - chunk)

\* Mutant of firstChunk: the offset in the block is forgotten.
firstChunk_aligned == IF Len(addrs) = 1 THEN payload_left ELSE BLOCK_SIZE

\* The whole access, or what is left of its first block.
firstChunk == IF Len(addrs) = 1 THEN payload_left ELSE BLOCK_SIZE - (mem_addr % BLOCK_SIZE)

pushFirstSize ==
  /\ pc = "addrs" /\ addr > aligned_addr_end
  /\ pushSizeOf(firstChunk)
  /\ pc' = "sizes"
  /\ UNCHANGED <<mem_addr, payload_size, aligned_addr_end, addr, addrs>>

\* Mutant of nextChunk: a whole block each time.
nextChunk_whole == BLOCK_SIZE

nextChunk == IF payload_left > BLOCK_SIZE THEN BLOCK_SIZE ELSE payload_left

pushSize ==
  /\ pc = "sizes" /\ payload_left > 0
  /\ pushSizeOf(nextChunk)
  /\ UNCHANGED <<mem_addr, payload_size, aligned_addr_end, addr, addrs, pc>>

\* The assertion: its condition is part of SplitExact.
assertSizes ==
  /\ pc = "sizes" /\ payload_left = 0
  /\ pc' = "done"
  /\ UNCHANGED <<mem_addr, payload_size, aligned_addr_end, addr, addrs, sizes, payload_left>>

Done == pc = "done" /\ UNCHANGED vars

Next == pushAddr \/ pushFirstSize \/ pushSize \/ assertSizes \/ Done

Spec == Init /\ [][Next]_vars
-----------------------------------------------------------------------------
\* The addresses are those of the blocks touched, the loops never go past the last
\* one, and at the assertion (wl_char_roi.cpp:264) the two lists tile the access: no byte
\* is counted twice or left out, and no request crosses a block.
SplitExact ==
  LET expected == ChunkAddrs(mem_addr, payload_size)
  IN  /\ Len(addrs) <= Len(expected) /\ Len(sizes) <= Len(expected)
      /\ pc = "done" => /\ addrs = expected
                        /\ Tiles(mem_addr, payload_size, addrs, sizes)
=============================================================================
