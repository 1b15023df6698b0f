-------------------------- MODULE AccessSplitProofs --------------------------
(***************************************************************************)
(* Theorems about AccessSplit for any block size, any widths and any       *)
(* operand: the two loops of simMemOpr stop at the block that holds the    *)
(* last byte, and the chunks tile the access.  The invariant says, for     *)
(* each loop, which chunks it has made so far.                             *)
(***************************************************************************)
EXTENDS AccessSplit, TLAPS

Space == 2 ^ AddrBits
first == blockOf(mem_addr)                     \* the blocks of the first and the last byte
last == blockOf(mem_addr + payload_size - 1)
count == last - first + 1                      \* the blocks touched

\* The arguments are what Init made them, and the access stays off the last block.
ArgsInv ==
  /\ mem_addr \in Nat /\ payload_size \in 1 .. MaxSize
  /\ mem_addr + payload_size <= Space - BLOCK_SIZE
  /\ aligned_addr_end = BLOCK_SIZE * last

\* Where request i starts.
StartOf(i) == IF i = 1 THEN mem_addr ELSE BLOCK_SIZE * (first + i - 1)

\* The first loop has made a prefix of the requests, and stands at the next block.
AddrsInv ==
  /\ addrs \in Seq(Nat) /\ Len(addrs) \in 1 .. count
  /\ \A i \in 1 .. Len(addrs) : addrs[i] = StartOf(i)
  /\ addr = BLOCK_SIZE * (first + Len(addrs))
  /\ pc = "addrs" => sizes = <<>> /\ payload_left = payload_size
  /\ pc # "addrs" => Len(addrs) = count

\* The chunk of request i: up to the next request, or to the end of the access.
ChunkOf(i) == (IF i = count THEN mem_addr + payload_size ELSE StartOf(i + 1)) - StartOf(i)

\* The second loop has made a prefix of the chunks, and what is left starts where the
\* next of them does.
SizesInv ==
  /\ pc \in {"addrs", "sizes", "done"}
  /\ pc # "addrs" =>
       /\ sizes \in Seq(Nat) /\ Len(sizes) \in 1 .. count
       /\ \A i \in 1 .. Len(sizes) : sizes[i] = ChunkOf(i)
       /\ payload_left = IF Len(sizes) = count THEN 0
                         ELSE mem_addr + payload_size - StartOf(Len(sizes) + 1)
  /\ pc = "done" => payload_left = 0

IInv == ArgsInv /\ AddrsInv /\ SizesInv
-----------------------------------------------------------------------------
\* Division by the block size.
LEMMA Block ==
  ASSUME NEW n \in Nat
  PROVE  /\ blockOf(n) \in Nat /\ n % BLOCK_SIZE \in 0 .. (BLOCK_SIZE - 1)
         /\ n = BLOCK_SIZE * blockOf(n) + (n % BLOCK_SIZE)
<1> DEFINE B == BLOCK_SIZE
<1>1. B \in Nat \ {0}
  BY BlockSizeAssumption
<1>2. n \div B \in Nat /\ n % B \in 0 .. (B - 1) /\ n = B * (n \div B) + (n % B)
  <2> HIDE DEF B
  <2>1. n \div B \in Nat /\ n % B \in 0 .. (B - 1) /\ n = (n \div B) * B + (n % B)
    BY <1>1
  <2>2. (n \div B) * B = B * (n \div B)
    BY <1>1, <2>1
  <2> QED BY <2>1, <2>2
<1> QED BY <1>2 DEF blockOf

LEMMA BlockIs ==
  ASSUME NEW q \in Nat, NEW r \in 0 .. (BLOCK_SIZE - 1)
  PROVE  blockOf(BLOCK_SIZE * q + r) = q /\ BLOCK_SIZE * q \in Nat
<1> DEFINE B == BLOCK_SIZE
<1>1. B \in Nat \ {0} /\ r \in 0 .. (B - 1)
  BY BlockSizeAssumption
<1>2. (B * q + r) \div B = q /\ B * q \in Nat
  <2> HIDE DEF B
  <2>1. (q * B + r) \div B = q /\ q * B \in Nat
    BY <1>1
  <2>2. q * B = B * q
    BY <1>1
  <2> QED BY <2>1, <2>2
<1> QED BY <1>2 DEF blockOf

LEMMA NextBlock ==
  ASSUME NEW q \in Nat
  PROVE  BLOCK_SIZE * (q + 1) = BLOCK_SIZE * q + BLOCK_SIZE
  BY BlockSizeAssumption

\* Block starts are in the order of their blocks.
LEMMA BlockOrder ==
  ASSUME NEW p \in Nat, NEW q \in Nat
  PROVE  (BLOCK_SIZE * p <= BLOCK_SIZE * q) <=> (p <= q)
<1> DEFINE B == BLOCK_SIZE
<1>1. B \in Nat \ {0}
  BY BlockSizeAssumption
<1>2. (B * p <= B * q) <=> (p <= q)
  <2> HIDE DEF B
  <2>1. p <= q => B * p <= B * q
    BY <1>1
  <2>2. p >= q + 1 => B * p >= B * (q + 1)
    BY <1>1
  <2>3. B * (q + 1) = B * q + B /\ B * q \in Nat /\ B * p \in Nat
    BY <1>1
  <2> QED BY <1>1, <2>1, <2>2, <2>3
<1> QED BY <1>2

LEMMA Wrapped ==
  /\ \A n \in 0 .. (Space - 1) : wrap(n) = n
  /\ \A n \in 0 .. MaxSize : wrapSize(n) = n
<1> DEFINE M == 2 ^ AddrBits
           S == 2 ^ SizeBits
<1>1. M \in Nat /\ S \in Nat /\ MaxSize \in 1 .. (S - 1)
  BY WidthAssumption
<1>2. /\ \A n \in 0 .. (M - 1) : n % M = n
      /\ \A n \in 0 .. MaxSize : n % S = n
  <2> HIDE DEF M, S
  <2> QED BY <1>1
<1> QED BY <1>2 DEF wrap, wrapSize, Space

\* The arithmetic of an access.
LEMMA Access ==
  ASSUME ArgsInv
  PROVE  /\ first \in Nat /\ last \in Nat /\ count \in Nat \ {0}
         /\ payload_size \in Nat \ {0} /\ BLOCK_SIZE \in Nat \ {0} /\ Space \in Nat
         /\ mem_addr \in BLOCK_SIZE * first .. (BLOCK_SIZE * first + BLOCK_SIZE - 1)
         /\ mem_addr + payload_size - 1 \in BLOCK_SIZE * last .. (BLOCK_SIZE * last + BLOCK_SIZE - 1)
         /\ BLOCK_SIZE * first \in Nat /\ BLOCK_SIZE * last \in Nat
         /\ BLOCK_SIZE * last + BLOCK_SIZE < Space
<1>1. /\ mem_addr \in Nat /\ payload_size \in Nat \ {0} /\ BLOCK_SIZE \in Nat \ {0} /\ Space \in Nat
      /\ mem_addr + payload_size - 1 \in Nat
  BY WidthAssumption, BlockSizeAssumption DEF ArgsInv, Space
<1>2. /\ first \in Nat /\ mem_addr % BLOCK_SIZE \in 0 .. (BLOCK_SIZE - 1)
      /\ mem_addr = BLOCK_SIZE * first + (mem_addr % BLOCK_SIZE)
  BY <1>1, Block DEF first
<1>3. PICK r \in 0 .. (BLOCK_SIZE - 1) :
        last \in Nat /\ mem_addr + payload_size - 1 = BLOCK_SIZE * last + r
  BY <1>1, Block DEF last
<1>4. BLOCK_SIZE * first \in Nat /\ BLOCK_SIZE * last \in Nat
  BY <1>2, <1>3, BlockIs, <1>1
<1>5. /\ mem_addr \in BLOCK_SIZE * first .. (BLOCK_SIZE * first + BLOCK_SIZE - 1)
      /\ mem_addr + payload_size - 1 \in BLOCK_SIZE * last .. (BLOCK_SIZE * last + BLOCK_SIZE - 1)
  BY <1>1, <1>2, <1>3, <1>4
<1>6. BLOCK_SIZE * first <= BLOCK_SIZE * last + (BLOCK_SIZE - 1)
  BY <1>1, <1>4, <1>5
<1>7. first <= last
  <2>1. first >= last + 1 => BLOCK_SIZE * (last + 1) <= BLOCK_SIZE * first
    BY <1>2, <1>3, BlockOrder
  <2>2. BLOCK_SIZE * (last + 1) = BLOCK_SIZE * last + BLOCK_SIZE
    BY <1>3, NextBlock
  <2> QED BY <1>1, <1>2, <1>3, <1>4, <1>6, <2>1, <2>2
<1>8. mem_addr + payload_size <= Space - BLOCK_SIZE
  BY DEF ArgsInv
<1>9. BLOCK_SIZE * last + BLOCK_SIZE < Space
  <2>1. PICK b \in Nat : b = BLOCK_SIZE * last
    BY <1>4
  <2>2. b <= mem_addr + payload_size - 1
    BY <1>5, <2>1
  <2>3. b + BLOCK_SIZE < Space
    BY <1>1, <1>8, <2>2
  <2> QED BY <2>1, <2>3
<1> QED BY <1>1, <1>2, <1>3, <1>4, <1>5, <1>7, <1>9 DEF count

\* The requests follow each other, each starts in its block, and none after the last byte.
LEMMA Starts ==
  ASSUME ArgsInv, NEW i \in 1 .. count
  PROVE  /\ StartOf(i) \in BLOCK_SIZE * (first + i - 1) .. (BLOCK_SIZE * (first + i - 1) + BLOCK_SIZE - 1)
         /\ BLOCK_SIZE * (first + i - 1) \in Nat /\ first + i - 1 \in Nat
         /\ i # 1 => StartOf(i) = BLOCK_SIZE * (first + i - 1)
         /\ i < count => StartOf(i + 1) = BLOCK_SIZE * (first + i - 1) + BLOCK_SIZE
         /\ i = count => first + i - 1 = last
         /\ StartOf(i) \in Nat /\ StartOf(i) <= mem_addr + payload_size - 1
<1>1. /\ first \in Nat /\ last \in Nat /\ count \in Nat \ {0} /\ BLOCK_SIZE \in Nat \ {0}
      /\ payload_size \in Nat \ {0} /\ mem_addr \in Nat
      /\ mem_addr \in BLOCK_SIZE * first .. (BLOCK_SIZE * first + BLOCK_SIZE - 1)
      /\ mem_addr + payload_size - 1 \in BLOCK_SIZE * last .. (BLOCK_SIZE * last + BLOCK_SIZE - 1)
  BY Access DEF ArgsInv
<1>2. PICK q \in Nat : q = first + i - 1 /\ q <= last
  BY <1>1 DEF count
<1>3. PICK b \in Nat : b = BLOCK_SIZE * q
  BY <1>1
<1>4. i = 1 => q = first /\ StartOf(i) = mem_addr
  BY <1>1, <1>2 DEF StartOf
<1>5. i # 1 => StartOf(i) = b
  BY <1>2, <1>3 DEF StartOf
<1>6. StartOf(i) \in b .. (b + BLOCK_SIZE - 1)
  <2>1. CASE i = 1
    BY <1>1, <1>3, <1>4, <2>1
  <2>2. CASE i # 1
    BY <1>1, <1>5, <2>2
  <2> QED BY <2>1, <2>2
<1>7. i < count => StartOf(i + 1) = b + BLOCK_SIZE
  <2>1. StartOf(i + 1) = BLOCK_SIZE * (q + 1)
    <3>1. i + 1 # 1 /\ first + (i + 1) - 1 = q + 1
      BY <1>1, <1>2
    <3> QED BY <3>1 DEF StartOf
  <2> QED BY <1>3, <2>1, NextBlock
<1>8. i = count => q = last
  BY <1>1, <1>2 DEF count
<1>9. b <= BLOCK_SIZE * last
  BY <1>1, <1>2, <1>3, BlockOrder
<1>10. PICK e \in Nat : e = BLOCK_SIZE * last
  BY <1>1, BlockIs
<1>11. e <= mem_addr + payload_size - 1
  BY <1>1, <1>10
<1>12. StartOf(i) \in Nat /\ StartOf(i) <= mem_addr + payload_size - 1
  <2>1. CASE i = 1
    BY <1>1, <1>4, <2>1
  <2>2. CASE i # 1
    BY <1>1, <1>5, <1>9, <1>10, <1>11, <2>2
  <2> QED BY <2>1, <2>2
<1> QED BY <1>2, <1>3, <1>5, <1>6, <1>7, <1>8, <1>12

\* No request starts before the access.
LEMMA StartsAfter ==
  ASSUME ArgsInv, NEW i \in 1 .. count
  PROVE  mem_addr <= StartOf(i)
<1>1. /\ first \in Nat /\ count \in Nat \ {0} /\ BLOCK_SIZE \in Nat \ {0} /\ mem_addr \in Nat
      /\ mem_addr <= BLOCK_SIZE * first + BLOCK_SIZE - 1
  BY Access DEF ArgsInv
<1>2. CASE i = 1
  BY <1>1, <1>2 DEF StartOf
<1>3. CASE i # 1
  <2>1. PICK q \in Nat : q = first + i - 1
    BY <1>1
  <2>2. PICK f \in Nat : f = BLOCK_SIZE * first
    BY <1>1, BlockIs
  <2>3. PICK b \in Nat : b = BLOCK_SIZE * q
    BY <1>1, <2>1, BlockIs
  <2>4. BLOCK_SIZE * (first + 1) = f + BLOCK_SIZE
    BY <1>1, <2>2, NextBlock
  <2>5. first + 1 <= q
    BY <1>1, <1>3, <2>1
  <2>6. f + BLOCK_SIZE <= b
    BY <1>1, <2>1, <2>3, <2>4, <2>5, BlockOrder
  <2>7. StartOf(i) = b
    BY <1>3, <2>1, <2>3 DEF StartOf
  <2> QED BY <1>1, <2>2, <2>6, <2>7
<1> QED BY <1>2, <1>3

\* What a chunk is: some bytes of one block.
LEMMA Chunks ==
  ASSUME ArgsInv, NEW i \in 1 .. count
  PROVE  /\ ChunkOf(i) \in 1 .. BLOCK_SIZE /\ ChunkOf(i) <= payload_size
         /\ blockOf(StartOf(i)) = blockOf(StartOf(i) + ChunkOf(i) - 1)
         /\ StartOf(i) + ChunkOf(i) = IF i = count THEN mem_addr + payload_size ELSE StartOf(i + 1)
<1>1. /\ count \in Nat \ {0} /\ BLOCK_SIZE \in Nat \ {0} /\ payload_size \in Nat \ {0}
      /\ mem_addr \in Nat
      /\ mem_addr + payload_size - 1 \in BLOCK_SIZE * last .. (BLOCK_SIZE * last + BLOCK_SIZE - 1)
  BY Access DEF ArgsInv
<1>2. PICK q \in Nat : q = first + i - 1 /\ (i = count => q = last)
  BY Starts
<1>3. PICK b \in Nat : b = BLOCK_SIZE * q
  BY <1>2, Starts
<1>4. /\ StartOf(i) \in b .. (b + BLOCK_SIZE - 1) /\ (i # 1 => StartOf(i) = b)
      /\ i < count => StartOf(i + 1) = b + BLOCK_SIZE
      /\ StartOf(i) \in Nat /\ StartOf(i) <= mem_addr + payload_size - 1
  BY <1>2, <1>3, Starts
<1>5. PICK n \in Nat : n = IF i = count THEN mem_addr + payload_size ELSE StartOf(i + 1)
  <2>1. CASE i = count
    BY <1>1, <2>1
  <2>2. CASE i # count
    <3>1. StartOf(i + 1) = b + BLOCK_SIZE
      BY <1>1, <1>4, <2>2
    <3>2. StartOf(i + 1) \in Nat
      BY <1>1, <3>1
    <3> QED BY <2>2, <3>2
  <2> QED BY <2>1, <2>2
<1>6. n - 1 \in b .. (b + BLOCK_SIZE - 1) /\ StartOf(i) <= n - 1
  <2>1. CASE i = count
    BY <1>1, <1>2, <1>3, <1>4, <1>5, <2>1
  <2>2. CASE i # count
    BY <1>1, <1>4, <1>5, <2>2
  <2> QED BY <2>1, <2>2
<1>7. ChunkOf(i) = n - StartOf(i)
  BY <1>5 DEF ChunkOf
<1>8. ChunkOf(i) \in 1 .. BLOCK_SIZE /\ StartOf(i) + ChunkOf(i) = n
  BY <1>1, <1>3, <1>4, <1>6, <1>7
<1>9. \A x \in b .. (b + BLOCK_SIZE - 1) : blockOf(x) = q
  <2> SUFFICES ASSUME NEW x \in b .. (b + BLOCK_SIZE - 1) PROVE blockOf(x) = q
    OBVIOUS
  <2>1. x - b \in 0 .. (BLOCK_SIZE - 1) /\ x = b + (x - b)
    BY <1>1
  <2> QED BY <1>3, <2>1, BlockIs
<1>10. blockOf(StartOf(i)) = blockOf(n - 1)
  BY <1>4, <1>6, <1>9
<1>11. ChunkOf(i) <= payload_size
  <2>1. mem_addr <= StartOf(i)
    BY StartsAfter
  <2>2. n <= mem_addr + payload_size
    <3>1. CASE i = count
      BY <1>1, <1>5, <3>1
    <3>2. CASE i # count
      <4>1. i + 1 \in 1 .. count
        BY <1>1, <3>2
      <4>2. StartOf(i + 1) <= mem_addr + payload_size - 1
        BY <4>1, Starts
      <4> QED BY <1>1, <1>5, <3>2, <4>2
    <3> QED BY <3>1, <3>2
  <2> QED BY <1>1, <1>4, <1>7, <2>1, <2>2
<1>12. blockOf(StartOf(i) + ChunkOf(i) - 1) = blockOf(n - 1)
  <2>1. StartOf(i) + ChunkOf(i) - 1 = n - 1
    BY <1>1, <1>4, <1>8
  <2> QED BY <2>1
<1> QED BY <1>5, <1>8, <1>10, <1>11, <1>12
-----------------------------------------------------------------------------
\* A prefix of requests and chunks grows by the next one.
LEMMA Longer ==
  ASSUME NEW s \in Seq(Nat), NEW x \in Nat
  PROVE  /\ Append(s, x) \in Seq(Nat) /\ Len(s) \in Nat /\ Len(Append(s, x)) = Len(s) + 1
         /\ \A i \in 1 .. Len(s) : Append(s, x)[i] = s[i]
         /\ Append(s, x)[Len(s) + 1] = x
         /\ \A i \in 1 .. (Len(s) + 1) : i = Len(s) + 1 \/ i \in 1 .. Len(s)
  OBVIOUS

LEMMA Within ==
  ASSUME NEW S, NEW s \in Seq(Nat), \A i \in 1 .. Len(s) : s[i] \in S
  PROVE  s \in Seq(S)
  OBVIOUS

LEMMA ArgsKept ==
  ASSUME ArgsInv, UNCHANGED <<mem_addr, payload_size, aligned_addr_end>>
  PROVE  /\ ArgsInv' /\ first' = first /\ last' = last /\ count' = count
         /\ \A i : StartOf(i)' = StartOf(i) /\ ChunkOf(i)' = ChunkOf(i)
  BY DEF ArgsInv, first, last, count, StartOf, ChunkOf

LEMMA AddrsKept ==
  ASSUME ArgsInv, AddrsInv, pc # "addrs", pc' # "addrs",
         UNCHANGED <<mem_addr, payload_size, aligned_addr_end, addr, addrs>>
  PROVE  AddrsInv'
<1>1. first' = first /\ count' = count /\ \A i : StartOf(i)' = StartOf(i)
  BY ArgsKept
<1> QED BY <1>1 DEF AddrsInv

LEMMA InitIInv == Init => IInv
<1> SUFFICES ASSUME Init PROVE IInv
  OBVIOUS
<1>1. /\ mem_addr \in Nat /\ payload_size \in 1 .. MaxSize /\ payload_size \in Nat \ {0}
      /\ Space \in Nat /\ BLOCK_SIZE \in Nat \ {0}
      /\ mem_addr + payload_size <= Space - BLOCK_SIZE
  BY WidthAssumption, BlockSizeAssumption DEF Init, Addr, Space
<1>2. wrap(mem_addr + payload_size - 1) = mem_addr + payload_size - 1
  <2>1. mem_addr + payload_size - 1 \in 0 .. (Space - 1)
    BY <1>1
  <2> QED BY <2>1, Wrapped
<1>3. ArgsInv
  BY <1>1, <1>2 DEF Init, ArgsInv, last, blockStart
<1>4. /\ first \in Nat /\ last \in Nat /\ count \in Nat \ {0} /\ BLOCK_SIZE * first \in Nat
      /\ mem_addr >= BLOCK_SIZE * first
  BY <1>3, Access
<1>5. addr = BLOCK_SIZE * (first + 1)
  <2>1. PICK b \in Nat : b = BLOCK_SIZE * first
    BY <1>4
  <2>2. b + BLOCK_SIZE \in 0 .. (Space - 1)
    BY <1>1, <1>4, <2>1
  <2>3. addr = b + BLOCK_SIZE
    BY <2>1, <2>2, Wrapped DEF Init, blockStart, first
  <2> QED BY <1>4, <2>1, <2>3, NextBlock
<1>6. AddrsInv
  <2>1. /\ addrs = <<mem_addr>> /\ sizes = <<>> /\ payload_left = payload_size /\ pc = "addrs"
    BY DEF Init
  <2>2. addrs \in Seq(Nat) /\ Len(addrs) = 1 /\ addrs[1] = mem_addr
    BY <1>1, <2>1
  <2> QED BY <1>4, <1>5, <2>1, <2>2 DEF AddrsInv, StartOf
<1>7. SizesInv
  BY DEF Init, SizesInv
<1> QED BY <1>3, <1>6, <1>7 DEF IInv

\* The first loop goes on while the next block holds a byte of the access.
LEMMA LoopTest ==
  ASSUME ArgsInv, AddrsInv
  PROVE  (addr <= aligned_addr_end) <=> (Len(addrs) < count)
<1>1. first \in Nat /\ last \in Nat /\ Len(addrs) \in Nat
  BY Access DEF AddrsInv
<1>2. (addr <= aligned_addr_end) <=> (first + Len(addrs) <= last)
  BY <1>1, BlockOrder DEF AddrsInv, ArgsInv
<1> QED BY <1>1, <1>2 DEF count

LEMMA PushAddrIInv == ASSUME IInv, pushAddr PROVE IInv'
<1> USE DEF IInv
<1>1. /\ pc = "addrs" /\ addr <= aligned_addr_end /\ pc' = pc
      /\ UNCHANGED <<mem_addr, payload_size, aligned_addr_end, sizes, payload_left>>
      /\ addrs' = Append(addrs, addr) /\ addr' = wrap(addr + BLOCK_SIZE)
  BY DEF pushAddr
<1>2. /\ ArgsInv' /\ first' = first /\ count' = count
      /\ \A i : StartOf(i)' = StartOf(i) /\ ChunkOf(i)' = ChunkOf(i)
  BY <1>1, ArgsKept
<1>3. PICK n \in Nat : n = Len(addrs)
  BY DEF AddrsInv
<1>4. /\ first \in Nat /\ last \in Nat /\ count \in Nat \ {0} /\ BLOCK_SIZE \in Nat \ {0}
      /\ Space \in Nat /\ BLOCK_SIZE * last \in Nat /\ BLOCK_SIZE * last + BLOCK_SIZE < Space
  BY Access
<1>5. n < count /\ n \in 1 .. count /\ n + 1 \in 1 .. count
  BY <1>1, <1>3, <1>4, LoopTest DEF AddrsInv
<1>6. addr = BLOCK_SIZE * (first + n) /\ aligned_addr_end = BLOCK_SIZE * last
  BY <1>3 DEF AddrsInv, ArgsInv
<1>7. addr \in Nat
  <2>1. first + n \in Nat
    BY <1>4
  <2> QED BY <1>6, <2>1, BlockIs, <1>4
<1>8. addr' = BLOCK_SIZE * (first + (n + 1))
  <2>1. addr + BLOCK_SIZE \in 0 .. (Space - 1)
    BY <1>1, <1>4, <1>6, <1>7
  <2>2. addr' = addr + BLOCK_SIZE
    BY <1>1, <2>1, Wrapped
  <2>3. PICK q \in Nat : q = first + n
    BY <1>4
  <2>4. first + (n + 1) = q + 1
    BY <1>4, <2>3
  <2> QED BY <1>6, <2>2, <2>3, <2>4, NextBlock
<1>9. addr = StartOf(n + 1)
  <2>1. n + 1 # 1 /\ first + (n + 1) - 1 = first + n
    BY <1>4, <1>5
  <2> QED BY <1>6, <2>1 DEF StartOf
<1>10. /\ addrs' \in Seq(Nat) /\ Len(addrs') = n + 1
       /\ \A i \in 1 .. (n + 1) : addrs'[i] = StartOf(i)
  <2>1. /\ addrs \in Seq(Nat) /\ \A i \in 1 .. n : addrs[i] = StartOf(i)
    BY <1>3 DEF AddrsInv
  <2> QED BY <1>1, <1>3, <1>7, <1>9, <2>1, Longer
<1>11. AddrsInv'
  <2>1. pc' = "addrs" /\ sizes' = <<>> /\ payload_left' = payload_size'
    BY <1>1 DEF AddrsInv
  <2> QED BY <1>2, <1>5, <1>8, <1>10, <2>1 DEF AddrsInv
<1>12. SizesInv'
  BY <1>1 DEF SizesInv
<1> QED BY <1>2, <1>11, <1>12

\* What the second loop pushes is the next chunk, which leaves what comes after it.
LEMMA NextChunk ==
  ASSUME ArgsInv, NEW k \in Nat, k < count,
         payload_left = mem_addr + payload_size - StartOf(k + 1)
  PROVE  /\ ChunkOf(k + 1) \in Nat /\ payload_left - ChunkOf(k + 1) \in 0 .. MaxSize
         /\ payload_left - ChunkOf(k + 1) = IF k + 1 = count THEN 0
                                            ELSE mem_addr + payload_size - StartOf(k + 2)
         /\ k + 1 = count => ChunkOf(k + 1) = payload_left
         /\ payload_left > 0 /\ payload_left \in Nat
<1>1. /\ k + 1 \in 1 .. count /\ count \in Nat /\ mem_addr \in Nat /\ payload_size \in Nat
      /\ payload_size <= MaxSize /\ MaxSize \in Nat /\ (k + 1) + 1 = k + 2
  BY Access, WidthAssumption DEF ArgsInv
<1>2. /\ ChunkOf(k + 1) \in 1 .. BLOCK_SIZE /\ ChunkOf(k + 1) <= payload_size
      /\ StartOf(k + 1) + ChunkOf(k + 1)
           = IF k + 1 = count THEN mem_addr + payload_size ELSE StartOf(k + 2)
  BY <1>1, Chunks
<1>3. StartOf(k + 1) \in Nat /\ StartOf(k + 1) <= mem_addr + payload_size - 1 /\ BLOCK_SIZE \in Nat
  BY <1>1, Starts, Access
<1>4. mem_addr <= StartOf(k + 1)
  BY <1>1, StartsAfter
<1>5. CASE k + 1 = count
  BY <1>1, <1>2, <1>3, <1>4, <1>5
<1>6. CASE k + 1 # count
  <2>1. k + 2 \in 1 .. count
    BY <1>1, <1>6
  <2>2. /\ StartOf(k + 2) \in Nat /\ StartOf(k + 2) <= mem_addr + payload_size - 1
        /\ mem_addr <= StartOf(k + 2)
    BY <2>1, Starts, StartsAfter
  <2> QED BY <1>1, <1>2, <1>3, <1>4, <1>6, <2>2
<1> QED BY <1>5, <1>6

LEMMA FirstChunkIs == ASSUME ArgsInv, AddrsInv, pc = "addrs", Len(addrs) = count
                      PROVE  firstChunk = ChunkOf(1)
<1>1. /\ count \in Nat \ {0} /\ BLOCK_SIZE \in Nat \ {0} /\ payload_size \in Nat
      /\ mem_addr \in Nat /\ first \in Nat /\ 1 \in 1 .. count
  BY Access DEF ArgsInv
<1>2. payload_left = payload_size /\ StartOf(1) = mem_addr
  BY DEF AddrsInv, StartOf
<1>3. CASE count = 1
  BY <1>1, <1>2, <1>3 DEF firstChunk, ChunkOf
<1>4. CASE count # 1
  <2>1. StartOf(2) = BLOCK_SIZE * (first + 1)
    <3>1. first + 2 - 1 = first + 1
      BY <1>1
    <3> QED BY <3>1 DEF StartOf
  <2>2. PICK f \in Nat : f = BLOCK_SIZE * first
    BY <1>1, BlockIs
  <2>3. StartOf(2) = f + BLOCK_SIZE
    BY <1>1, <2>1, <2>2, NextBlock
  <2>4. PICK r \in Nat : r = mem_addr % BLOCK_SIZE /\ mem_addr = f + r
    BY <1>1, <2>2, Block DEF first
  <2>5. ChunkOf(1) = StartOf(2) - mem_addr
    <3>1. 1 + 1 = 2
      OBVIOUS
    <3> QED BY <1>2, <1>4, <3>1 DEF ChunkOf
  <2>6. firstChunk = BLOCK_SIZE - r
    BY <1>4, <2>4 DEF firstChunk
  <2> QED BY <1>1, <2>3, <2>4, <2>5, <2>6
<1> QED BY <1>3, <1>4

LEMMA NextChunkIs ==
  ASSUME ArgsInv, NEW k \in Nat \ {0}, k < count,
         payload_left = mem_addr + payload_size - StartOf(k + 1)
  PROVE  nextChunk = ChunkOf(k + 1)
<1>1. k + 1 \in 1 .. count /\ count \in Nat /\ BLOCK_SIZE \in Nat \ {0}
  BY Access
<1>2. /\ ChunkOf(k + 1) \in 1 .. BLOCK_SIZE
      /\ k + 1 = count => ChunkOf(k + 1) = payload_left
      /\ payload_left \in Nat
  BY <1>1, Chunks, NextChunk
<1>3. CASE k + 1 = count
  BY <1>1, <1>2, <1>3 DEF nextChunk
<1>4. CASE k + 1 # count
  <2>1. k + 2 \in 1 .. count /\ k + 1 # 1 /\ k + 1 < count /\ (k + 1) + 1 = k + 2
    BY <1>1, <1>4
  <2>2. PICK b \in Nat : b = BLOCK_SIZE * (first + (k + 1) - 1)
    BY <1>1, Starts
  <2>3. StartOf(k + 1) = b /\ StartOf(k + 2) = b + BLOCK_SIZE
    BY <1>1, <2>1, <2>2, Starts
  <2>4. ChunkOf(k + 1) = BLOCK_SIZE
    BY <1>1, <1>4, <2>1, <2>3 DEF ChunkOf
  <2>5. StartOf(k + 2) <= mem_addr + payload_size - 1
    BY <2>1, Starts
  <2>6. mem_addr \in Nat /\ payload_size \in Nat
    BY Access DEF ArgsInv
  <2>7. payload_left > BLOCK_SIZE
    BY <1>1, <2>3, <2>5, <2>6
  <2> QED BY <2>4, <2>7 DEF nextChunk
<1> QED BY <1>3, <1>4

\* One turn of the second loop, after k chunks.
LEMMA PushSizeOf ==
  ASSUME ArgsInv, NEW k \in Nat, k < count, pushSizeOf(ChunkOf(k + 1)), pc' = "sizes",
         UNCHANGED <<mem_addr, payload_size, aligned_addr_end>>,
         sizes \in Seq(Nat), Len(sizes) = k, \A i \in 1 .. k : sizes[i] = ChunkOf(i),
         payload_left = mem_addr + payload_size - StartOf(k + 1)
  PROVE  SizesInv'
<1>1. /\ count' = count /\ mem_addr' = mem_addr /\ payload_size' = payload_size
      /\ \A i : StartOf(i)' = StartOf(i) /\ ChunkOf(i)' = ChunkOf(i)
  BY ArgsKept
<1>2. /\ ChunkOf(k + 1) \in Nat /\ payload_left - ChunkOf(k + 1) \in 0 .. MaxSize
      /\ payload_left - ChunkOf(k + 1) = IF k + 1 = count THEN 0
                                         ELSE mem_addr + payload_size - StartOf(k + 2)
  BY NextChunk
<1>3. payload_left' = IF k + 1 = count THEN 0 ELSE mem_addr + payload_size - StartOf(k + 2)
  BY <1>2, Wrapped DEF pushSizeOf
<1>4. /\ sizes' \in Seq(Nat) /\ Len(sizes') = k + 1
      /\ \A i \in 1 .. (k + 1) : sizes'[i] = ChunkOf(i)
  BY <1>2, Longer DEF pushSizeOf
<1>5. k + 1 \in 1 .. count /\ (k + 1) + 1 = k + 2
  BY Access
<1> QED BY <1>1, <1>3, <1>4, <1>5 DEF SizesInv

LEMMA PushFirstSizeIInv == ASSUME IInv, pushFirstSize PROVE IInv'
<1> USE DEF IInv
<1>1. /\ pc = "addrs" /\ addr > aligned_addr_end /\ pc' = "sizes" /\ pushSizeOf(firstChunk)
      /\ UNCHANGED <<mem_addr, payload_size, aligned_addr_end, addr, addrs>>
  BY DEF pushFirstSize
<1>2. count \in Nat \ {0} /\ mem_addr \in Nat /\ payload_size \in Nat
  BY Access DEF ArgsInv
<1>3. addr \in Nat /\ aligned_addr_end \in Nat
  <2>1. first \in Nat /\ last \in Nat /\ BLOCK_SIZE \in Nat \ {0}
    BY Access
  <2>2. PICK n \in Nat : n = Len(addrs)
    BY <1>2 DEF AddrsInv
  <2>3. PICK q \in Nat : q = first + n
    BY <2>1
  <2>4. addr = BLOCK_SIZE * q /\ aligned_addr_end = BLOCK_SIZE * last
    BY <2>2, <2>3 DEF AddrsInv, ArgsInv
  <2> QED BY <2>1, <2>4
<1>4. Len(addrs) = count
  BY <1>1, <1>2, <1>3, LoopTest DEF AddrsInv
<1>5. firstChunk = ChunkOf(0 + 1)
  BY <1>1, <1>4, FirstChunkIs
<1>6. payload_left = mem_addr + payload_size - StartOf(0 + 1)
  BY <1>1, <1>2 DEF AddrsInv, StartOf
<1>7. sizes = <<>> /\ sizes \in Seq(Nat) /\ Len(sizes) = 0
  BY <1>1 DEF AddrsInv
<1>8. SizesInv'
  BY <1>1, <1>2, <1>5, <1>6, <1>7, PushSizeOf
<1>9. /\ ArgsInv' /\ first' = first /\ count' = count
      /\ \A i : StartOf(i)' = StartOf(i)
  BY <1>1, ArgsKept
<1>10. AddrsInv'
  BY <1>1, <1>4, <1>9 DEF AddrsInv
<1> QED BY <1>8, <1>9, <1>10

LEMMA PushSizeIInv == ASSUME IInv, pushSize PROVE IInv'
<1> USE DEF IInv
<1>1. /\ pc = "sizes" /\ payload_left > 0 /\ pc' = "sizes" /\ pushSizeOf(nextChunk)
      /\ UNCHANGED <<mem_addr, payload_size, aligned_addr_end, addr, addrs>>
  BY DEF pushSize
<1>2. PICK k \in Nat \ {0} : k = Len(sizes) /\ k \in 1 .. count
  BY <1>1 DEF SizesInv
<1>3. /\ k < count /\ payload_left = mem_addr + payload_size - StartOf(k + 1)
      /\ sizes \in Seq(Nat) /\ \A i \in 1 .. k : sizes[i] = ChunkOf(i)
  <2>1. count \in Nat
    BY Access
  <2>2. k # count
    BY <1>1, <1>2 DEF SizesInv
  <2> QED BY <1>1, <1>2, <2>1, <2>2 DEF SizesInv
<1>4. nextChunk = ChunkOf(k + 1)
  BY <1>3, NextChunkIs
<1>5. SizesInv'
  BY <1>1, <1>2, <1>3, <1>4, PushSizeOf
<1>6. ArgsInv'
  BY <1>1, ArgsKept
<1>7. AddrsInv'
  BY <1>1, AddrsKept
<1> QED BY <1>5, <1>6, <1>7

LEMMA AssertSizesIInv == ASSUME IInv, assertSizes PROVE IInv'
<1> USE DEF IInv
<1>1. /\ pc = "sizes" /\ payload_left = 0 /\ pc' = "done"
      /\ UNCHANGED <<mem_addr, payload_size, aligned_addr_end, addr, addrs, sizes, payload_left>>
  BY DEF assertSizes
<1>2. /\ ArgsInv' /\ count' = count
      /\ \A i : StartOf(i)' = StartOf(i) /\ ChunkOf(i)' = ChunkOf(i)
  BY <1>1, ArgsKept
<1>3. AddrsInv'
  BY <1>1, AddrsKept
<1>4. SizesInv'
  BY <1>1, <1>2 DEF SizesInv
<1> QED BY <1>2, <1>3, <1>4

LEMMA StayIInv == ASSUME IInv, UNCHANGED vars PROVE IInv'
<1>1. UNCHANGED <<mem_addr, payload_size, aligned_addr_end, addr, addrs, sizes, payload_left, pc>>
  BY DEF vars
<1>2. /\ ArgsInv' /\ first' = first /\ count' = count
      /\ \A i : StartOf(i)' = StartOf(i) /\ ChunkOf(i)' = ChunkOf(i)
  BY <1>1, ArgsKept DEF IInv
<1> QED BY <1>1, <1>2 DEF IInv, AddrsInv, SizesInv

LEMMA NextIInv == IInv /\ [Next]_vars => IInv'
<1> SUFFICES ASSUME IInv, [Next]_vars PROVE IInv'
  OBVIOUS
<1>1. CASE pushAddr
  BY <1>1, PushAddrIInv
<1>2. CASE pushFirstSize
  BY <1>2, PushFirstSizeIInv
<1>3. CASE pushSize
  BY <1>3, PushSizeIInv
<1>4. CASE assertSizes
  BY <1>4, AssertSizesIInv
<1>5. CASE Done \/ UNCHANGED vars
  BY <1>5, StayIInv DEF Done
<1> QED BY <1>1, <1>2, <1>3, <1>4, <1>5 DEF Next

LEMMA SpecIInv == Spec => []IInv
  BY InitIInv, NextIInv, PTL DEF Spec
-----------------------------------------------------------------------------
\* The variables of the two loops have their types: no address leaves the address space,
\* and what is left of the payload never wraps below zero (simMemOpr, wl_char_roi.cpp).
THEOREM SplitType == Spec => []TypeOK
<1>1. IInv => TypeOK
  <2> SUFFICES ASSUME IInv PROVE TypeOK
    OBVIOUS
  <2> USE DEF IInv
  <2>1. /\ first \in Nat /\ last \in Nat /\ count \in Nat \ {0}
        /\ payload_size \in 1 .. MaxSize /\ payload_size \in Nat \ {0}
        /\ BLOCK_SIZE \in Nat \ {0} /\ Space \in Nat /\ mem_addr \in Nat
        /\ mem_addr + payload_size <= Space - BLOCK_SIZE
        /\ BLOCK_SIZE * last \in Nat /\ BLOCK_SIZE * last + BLOCK_SIZE < Space
    BY Access DEF ArgsInv
  <2>2. Addr = 0 .. (Space - 1)
    BY DEF Addr, Space
  <2>3. mem_addr \in Addr /\ aligned_addr_end \in Addr
    BY <2>1, <2>2 DEF ArgsInv
  <2>4. addr \in Addr
    <3>1. PICK q \in Nat : q = first + Len(addrs) /\ q <= last + 1
      BY <2>1 DEF AddrsInv, count
    <3>2. BLOCK_SIZE * q <= BLOCK_SIZE * (last + 1) /\ BLOCK_SIZE * q \in Nat
      BY <2>1, <3>1, BlockOrder, BlockIs
    <3>3. BLOCK_SIZE * (last + 1) = BLOCK_SIZE * last + BLOCK_SIZE
      BY <2>1, NextBlock
    <3> QED BY <2>1, <2>2, <3>1, <3>2, <3>3 DEF AddrsInv
  <2>5. addrs \in Seq(Addr)
    <3>1. addrs \in Seq(Nat) /\ \A i \in 1 .. Len(addrs) : addrs[i] \in Addr
      <4> SUFFICES ASSUME NEW i \in 1 .. Len(addrs) PROVE addrs[i] \in Addr
        BY DEF AddrsInv
      <4>1. i \in 1 .. count /\ addrs[i] = StartOf(i)
        BY <2>1 DEF AddrsInv
      <4>2. StartOf(i) \in Nat /\ StartOf(i) <= mem_addr + payload_size - 1
        BY <4>1, Starts
      <4> QED BY <2>1, <2>2, <4>1, <4>2
    <3> QED BY <3>1, Within
  <2>6. pc \in {"addrs", "sizes", "done"}
    BY DEF SizesInv
  <2>7. sizes \in Seq(1 .. BLOCK_SIZE)
    <3>1. CASE pc = "addrs"
      BY <3>1 DEF AddrsInv
    <3>2. CASE pc # "addrs"
      <4>1. sizes \in Seq(Nat) /\ \A i \in 1 .. Len(sizes) : sizes[i] \in 1 .. BLOCK_SIZE
        <5> SUFFICES ASSUME NEW i \in 1 .. Len(sizes) PROVE sizes[i] \in 1 .. BLOCK_SIZE
          BY <3>2 DEF SizesInv
        <5>1. i \in 1 .. count /\ sizes[i] = ChunkOf(i)
          BY <2>1, <3>2 DEF SizesInv
        <5> QED BY <5>1, Chunks
      <4> QED BY <4>1, Within
    <3> QED BY <3>1, <3>2
  <2>8. payload_left \in 0 .. payload_size
    <3>1. CASE pc = "addrs"
      BY <2>1, <3>1 DEF AddrsInv
    <3>2. CASE pc # "addrs" /\ Len(sizes) = count
      BY <2>1, <3>2 DEF SizesInv
    <3>3. CASE pc # "addrs" /\ Len(sizes) # count
      <4>1. PICK k \in Nat : k = Len(sizes) /\ k + 1 \in 1 .. count
        BY <2>1, <3>3 DEF SizesInv
      <4>2. payload_left = mem_addr + payload_size - StartOf(k + 1)
        BY <3>3, <4>1 DEF SizesInv
      <4>3. /\ StartOf(k + 1) \in Nat /\ StartOf(k + 1) <= mem_addr + payload_size - 1
            /\ mem_addr <= StartOf(k + 1)
        BY <4>1, Starts, StartsAfter
      <4> QED BY <2>1, <4>2, <4>3
    <3> QED BY <3>1, <3>2, <3>3
  <2> QED BY <2>1, <2>3, <2>4, <2>5, <2>6, <2>7, <2>8 DEF TypeOK
<1> QED BY <1>1, SpecIInv, PTL

\* Neither loop makes more requests than the access touches blocks, and when the assertion
\* of simMemOpr (wl_char_roi.cpp:264) is reached there are as many sizes as addresses and
\* they tile the access: no byte twice, none left out, no request across a block.
THEOREM SplitIsExact == Spec => []SplitExact
<1>1. IInv => SplitExact
  <2> SUFFICES ASSUME IInv PROVE SplitExact
    OBVIOUS
  <2> USE DEF IInv
  <2>1. PICK expected : expected = ChunkAddrs(mem_addr, payload_size)
    OBVIOUS
  <2>2. count \in Nat \ {0} /\ expected = [i \in 1 .. count |-> StartOf(i)]
    <3>1. count \in Nat \ {0}
      BY Access
    <3> QED BY <2>1, <3>1 DEF ChunkAddrs, count, last, first, StartOf
  <2>3. Len(expected) = count
    BY <2>2
  <2>4. Len(addrs) <= count
    BY <2>2 DEF AddrsInv
  <2>5. Len(sizes) <= count
    BY <2>2 DEF AddrsInv, SizesInv
  <2>6. ASSUME pc = "done"
        PROVE  addrs = expected /\ Tiles(mem_addr, payload_size, addrs, sizes)
    <3>1. /\ addrs \in Seq(Nat) /\ Len(addrs) = count
          /\ \A i \in 1 .. count : addrs[i] = StartOf(i)
      BY <2>6 DEF AddrsInv
    <3>2. addrs = expected
      BY <2>2, <3>1
    <3>3. Len(sizes) = count /\ \A i \in 1 .. count : sizes[i] = ChunkOf(i)
      <4>1. payload_left = 0 /\ Len(sizes) \in 1 .. count
        BY <2>6 DEF SizesInv
      <4>2. ASSUME Len(sizes) # count PROVE FALSE
        <5>1. PICK k \in Nat : k = Len(sizes) /\ k < count
          BY <2>2, <4>1, <4>2
        <5>2. payload_left = mem_addr + payload_size - StartOf(k + 1)
          BY <2>6, <4>2, <5>1 DEF SizesInv
        <5> QED BY <4>1, <5>1, <5>2, NextChunk
      <4> QED BY <2>6, <4>2 DEF SizesInv
    <3>4. addrs[1] = mem_addr
      BY <2>2, <3>1 DEF StartOf
    <3>5. ASSUME NEW i \in 1 .. count
          PROVE  /\ sizes[i] > 0 /\ blockOf(addrs[i]) = blockOf(addrs[i] + sizes[i] - 1)
                 /\ addrs[i] + sizes[i]
                      = IF i = count THEN mem_addr + payload_size ELSE addrs[i + 1]
      <4>1. addrs[i] = StartOf(i) /\ sizes[i] = ChunkOf(i)
        BY <3>1, <3>3
      <4>2. i # count => addrs[i + 1] = StartOf(i + 1)
        BY <2>2, <3>1
      <4>3. ChunkOf(i) > 0
        <5>1. ChunkOf(i) \in 1 .. BLOCK_SIZE /\ BLOCK_SIZE \in Nat
          BY Chunks, Access
        <5> QED BY <5>1
      <4> QED BY <4>1, <4>2, <4>3, Chunks
    <3> QED BY <3>1, <3>2, <3>3, <3>4, <3>5 DEF Tiles
  <2> QED BY <2>1, <2>3, <2>4, <2>5, <2>6 DEF SplitExact
<1> QED BY <1>1, SpecIInv, PTL
=============================================================================
