--------------------------- MODULE WlCharRoiProofs ---------------------------
(***************************************************************************)
(* Theorems about WlCharRoi for any threads, program, memory and cache     *)
(* geometry: the tool implements the cache hierarchy, its MMU gives each   *)
(* page a frame of its own, nothing is used once it is deleted, what is in *)
(* the caches is mapped, and the instructions counted are those fetched.   *)
(***************************************************************************)
EXTENDS WlCharRoi, FiniteSetTheorems, TLAPS

\* The theorems about the caches, for the caches of the tool.
HP == INSTANCE InclusiveHierarchyProofs

\* The part of TypeOK that is not about the caches.
ToolTypeOK ==
  /\ fast_forwarding \in BOOLEAN /\ insn_count \in Nat
  /\ pinLock \in Threads \cup {NoThread}
  /\ deleted \in BOOLEAN /\ finished \in BOOLEAN /\ roi_ended \in BOOLEAN
  /\ calls \in [Threads -> Seq(Call)]
  /\ pc \in [Threads -> {"ready", "waiting", "sending", "exiting"}]
  /\ chunks \in Seq(Nat) /\ executed \in Nat

\* Who is in the critical section, and that nobody enters it after exit or Fini.
LockInv ==
  /\ \A t \in Threads : pc[t] = "waiting" => calls[t] # <<>>
  /\ \A t \in Threads :
       pc[t] = "sending" => pinLock = t /\ chunks # <<>> /\ At(t, "simMemOpr")
  /\ \A t \in Threads : pc[t] = "exiting" => pinLock = t
  /\ deleted => \/ finished /\ \A t \in Threads : calls[t] = <<>>
                \/ \E t \in Threads : pc[t] = "exiting"

ToolInv == ToolTypeOK /\ LockInv

-----------------------------------------------------------------------------
LEMMA HeadTail ==
  ASSUME NEW S, NEW s \in Seq(S), s # <<>>
  PROVE  Head(s) \in S /\ Tail(s) \in Seq(S)
  OBVIOUS

LEMMA TailNonempty ==
  ASSUME NEW S, NEW s \in Seq(S), s # <<>>, Len(s) # 1
  PROVE  Tail(s) # <<>>
<1>1. PICK n \in Nat : n = Len(s)
  OBVIOUS
<1>2. n # 0 /\ n # 1
  BY <1>1
<1>3. Len(Tail(s)) = n - 1 /\ n - 1 # 0
  BY <1>1, <1>2
<1> QED BY <1>3

LEMMA RestType == ASSUME NEW rest \in Rest PROVE rest \in Seq(Call)
<1>1. CASE rest = <<>>
  BY <1>1
<1>2. ASSUME NEW fn \in {"ROI_BEGIN", "ROI_END"}, rest = <<[fn |-> fn]>>
      PROVE  rest \in Seq(Call)
  <2>1. PICK call \in Call : call = [fn |-> fn]
    BY DEF Call
  <2>2. rest = <<call>>
    BY <1>2, <2>1
  <2> QED BY <2>2
<1>3. ASSUME NEW ops \in Operands,
             rest = [i \in DOMAIN ops |-> [fn |-> "simMemOpr", operand |-> ops[i]]]
      PROVE  rest \in Seq(Call)
  <2>1. ops \in Seq(Operand)
    BY WlCharAssumption
  <2>2. \A i \in DOMAIN ops : rest[i] \in Call
    BY <1>3, <2>1 DEF Call
  <2>3. rest \in [1 .. Len(ops) -> Call] /\ Len(ops) \in Nat
    BY <1>3, <2>1, <2>2
  <2> QED BY <2>3
<1> QED BY <1>1, <1>2, <1>3 DEF Rest

LEMMA InstructionType ==
  ASSUME NEW eip \in Eips, NEW rest \in Rest
  PROVE  Instruction(eip, rest) \in Seq(Call)
<1>1. [fn |-> "increCount"] \in Call /\ [fn |-> "simInstrCache", addr |-> eip] \in Call
  BY DEF Call
<1> QED BY <1>1, RestType DEF Instruction

\* Return takes a call off the thread's list.
LEMMA ReturnType ==
  ASSUME ToolTypeOK, NEW t \in Threads, calls[t] # <<>>, Return(t)
  PROVE  /\ calls' \in [Threads -> Seq(Call)]
         /\ pc' \in [Threads -> {"ready", "waiting", "sending", "exiting"}]
         /\ pc'[t] = "ready"
         /\ \A u \in Threads \ {t} : pc'[u] = pc[u] /\ calls'[u] = calls[u]
  BY HeadTail DEF ToolTypeOK, Return

LEMMA OperandType ==
  ASSUME ToolTypeOK, NEW t \in Threads, At(t, "simMemOpr")
  PROVE  Head(calls[t]).operand \in Operand
<1>1. Head(calls[t]) \in Call
  BY HeadTail DEF ToolTypeOK, At
<1> QED BY <1>1 DEF At, Call

LEMMA EipType ==
  ASSUME ToolTypeOK, NEW t \in Threads, At(t, "simInstrCache")
  PROVE  Head(calls[t]).addr \in Eips
<1>1. Head(calls[t]) \in Call
  BY HeadTail DEF ToolTypeOK, At
<1> QED BY <1>1 DEF At, Call

\* An access has at least one chunk, and all are addresses.
LEMMA ChunksType ==
  ASSUME NEW addr \in Nat, NEW size \in Nat \ {0}
  PROVE  /\ ChunkAddrs(addr, size) \in Seq(Nat)
         /\ ChunkAddrs(addr, size) # <<>>
<1> DEFINE first == blockOf(addr)
           last == blockOf(addr + size - 1)
<1>1. first \in Nat /\ last \in Nat /\ first <= last
  BY BlockSizeAssumption DEF blockOf
<1> HIDE DEF first, last
<1>2. last - first + 1 \in Nat /\ last - first + 1 > 0
  BY <1>1
<1>3. \A i \in 1 .. last - first + 1 : BLOCK_SIZE * (first + i - 1) \in Nat
  BY <1>1, BlockSizeAssumption
<1>4. ChunkAddrs(addr, size) =
        [i \in 1 .. last - first + 1 |->
           IF i = 1 THEN addr ELSE BLOCK_SIZE * (first + i - 1)]
  BY DEF ChunkAddrs, first, last
<1>5. ChunkAddrs(addr, size) \in [1 .. last - first + 1 -> Nat]
  BY <1>3, <1>4
<1>6. 1 \in DOMAIN ChunkAddrs(addr, size)
  BY <1>2, <1>4
<1> QED BY <1>2, <1>5, <1>6

-----------------------------------------------------------------------------
LEMMA InitToolInv == Init => ToolInv
<1> SUFFICES ASSUME Init PROVE ToolInv
  OBVIOUS
<1>1. ToolTypeOK
  <2>1. calls \in [Threads -> Seq(Call)] /\ chunks \in Seq(Nat)
    BY DEF Init
  <2>2. pc \in [Threads -> {"ready", "waiting", "sending", "exiting"}]
    BY DEF Init
  <2> QED BY <2>1, <2>2 DEF Init, ToolTypeOK
<1>2. LockInv
  BY DEF Init, LockInv
<1> QED BY <1>1, <1>2 DEF ToolInv

LEMMA ExecuteToolInv ==
  ASSUME ToolInv, NEW t \in Threads, Execute(t) PROVE ToolInv'
<1> USE DEF ToolInv, Execute
<1>1. PICK eip \in Eips, rest \in Rest : calls' = [calls EXCEPT ![t] = Instruction(eip, rest)]
  OBVIOUS
<1>2. PICK instruction \in Seq(Call) : calls' = [calls EXCEPT ![t] = instruction]
  BY <1>1, InstructionType
<1>3. ToolTypeOK'
  BY <1>2 DEF ToolTypeOK
<1>4. /\ calls'[t] = instruction
      /\ \A u \in Threads \ {t} : calls'[u] = calls[u]
  BY <1>2 DEF ToolTypeOK
<1>5. pc[t] # "waiting" /\ pc[t] # "sending"
  BY DEF LockInv, At
<1>6. LockInv'
  BY <1>4, <1>5 DEF LockInv, At
<1> QED BY <1>3, <1>6

LEMMA SkipToolInv == ASSUME ToolInv, NEW t \in Threads, Skip(t) PROVE ToolInv'
<1> USE DEF ToolInv, Skip
<1>1. ToolTypeOK'
  BY ReturnType DEF ToolTypeOK, program
<1>2. LockInv'
  BY ReturnType DEF LockInv, At, program
<1> QED BY <1>1, <1>2

LEMMA EnterToolInv == ASSUME ToolInv, NEW t \in Threads, Enter(t) PROVE ToolInv'
<1> USE DEF ToolInv, Enter
<1>1. ToolTypeOK'
  BY DEF ToolTypeOK, program
<1>2. LockInv'
  BY DEF LockInv, At, ToolTypeOK, program
<1> QED BY <1>1, <1>2

\* Nobody holds the lock, so nobody is sending or on the way out.
LEMMA LockFree ==
  ASSUME ToolInv, NEW t \in Threads, GetLock(t)
  PROVE  /\ calls[t] # <<>> /\ ~ deleted
         /\ \A u \in Threads : pc[u] # "sending" /\ pc[u] # "exiting"
  BY WlCharAssumption DEF ToolInv, ToolTypeOK, LockInv, GetLock

LEMMA IncreCountToolInv ==
  ASSUME ToolInv, NEW t \in Threads, increCount(t) PROVE ToolInv'
<1> USE DEF ToolInv, increCount
<1>1. /\ calls[t] # <<>> /\ ~ deleted
      /\ \A u \in Threads : pc[u] # "sending" /\ pc[u] # "exiting"
  BY LockFree
<1>2. CASE Exit(t)
  <2>1. ToolTypeOK'
    BY <1>2 DEF ToolTypeOK, Exit, program
  <2>2. LockInv'
    BY <1>1, <1>2 DEF LockInv, Exit, ToolTypeOK
  <2> QED BY <2>1, <2>2
<1>3. CASE Return(t) /\ UNCHANGED <<deleted, pinLock>>
  <2>1. ToolTypeOK'
    BY <1>1, <1>3, ReturnType DEF ToolTypeOK, program
  <2>2. LockInv'
    BY <1>1, <1>3, ReturnType DEF LockInv
  <2> QED BY <2>1, <2>2
<1> QED BY <1>2, <1>3

LEMMA SimInstrCacheToolInv ==
  ASSUME ToolInv, NEW t \in Threads, simInstrCache(t) PROVE ToolInv'
<1> USE DEF ToolInv, simInstrCache
<1>1. /\ calls[t] # <<>> /\ ~ deleted
      /\ \A u \in Threads : pc[u] # "sending" /\ pc[u] # "exiting"
  BY LockFree
<1>2. ToolTypeOK'
  BY <1>1, ReturnType DEF ToolTypeOK, program
<1>3. LockInv'
  BY <1>1, ReturnType DEF LockInv
<1> QED BY <1>2, <1>3

LEMMA SimMemOprToolInv ==
  ASSUME ToolInv, NEW t \in Threads, simMemOpr(t) PROVE ToolInv'
<1> USE DEF ToolInv, simMemOpr
<1>1. /\ calls[t] # <<>> /\ ~ deleted
      /\ \A u \in Threads : pc[u] # "sending" /\ pc[u] # "exiting"
  BY LockFree
<1>2. chunks' \in Seq(Nat) /\ chunks' # <<>>
  BY OperandType, ChunksType DEF Operand
<1>3. ToolTypeOK'
  BY <1>2 DEF ToolTypeOK, program
<1>4. LockInv'
  BY <1>1, <1>2 DEF LockInv, At, ToolTypeOK
<1> QED BY <1>3, <1>4

\* Only t is sending; the list of chunks shrinks until the lock is released.
LEMMA SendChunkToolInv ==
  ASSUME ToolInv, NEW t \in Threads, sendChunk(t) PROVE ToolInv'
<1> USE DEF ToolInv, sendChunk
<1>1. /\ pinLock = t /\ chunks # <<>> /\ calls[t] # <<>> /\ chunks \in Seq(Nat)
      /\ \A u \in Threads \ {t} : pc[u] # "sending"
      /\ \A u \in Threads : pc[u] # "exiting"
      /\ ~ deleted
  BY DEF LockInv, At, ToolTypeOK
<1>2. chunks' \in Seq(Nat)
  BY <1>1, HeadTail
<1>3. CASE Len(chunks) = 1
  <2>1. Return(t) /\ pinLock' = NoThread
    BY <1>3
  <2>2. ToolTypeOK'
    BY <1>1, <1>2, <2>1, ReturnType DEF ToolTypeOK, program
  <2>3. LockInv'
    BY <1>1, <2>1, ReturnType DEF LockInv
  <2> QED BY <2>2, <2>3
<1>4. CASE Len(chunks) # 1
  <2>1. UNCHANGED <<calls, pc, pinLock>>
    BY <1>4
  <2>2. chunks' # <<>>
    BY <1>1, <1>4, TailNonempty
  <2>3. ToolTypeOK'
    BY <1>2, <2>1 DEF ToolTypeOK, program
  <2>4. LockInv'
    BY <1>1, <2>1, <2>2 DEF LockInv, At
  <2> QED BY <2>3, <2>4
<1> QED BY <1>3, <1>4

LEMMA MagicToolInv == ASSUME ToolInv, NEW t \in Threads, HandleMagicOp(t) PROVE ToolInv'
<1> USE DEF ToolInv, HandleMagicOp
<1>1. /\ calls[t] # <<>> /\ ~ deleted
      /\ \A u \in Threads : pc[u] # "sending" /\ pc[u] # "exiting"
  BY LockFree
<1>2. fast_forwarding' \in BOOLEAN /\ roi_ended' \in BOOLEAN
  BY Zenon DEF At, ToolTypeOK
<1>3. ToolTypeOK'
  BY <1>1, <1>2, ReturnType DEF ToolTypeOK, program
<1>4. LockInv'
  BY <1>1, ReturnType DEF LockInv
<1> QED BY <1>3, <1>4

LEMMA FiniToolInv == ASSUME ToolInv, Fini PROVE ToolInv'
<1>1. ToolTypeOK'
  BY DEF ToolInv, Fini, ToolTypeOK
<1>2. LockInv'
  BY DEF ToolInv, Fini, LockInv, At
<1> QED BY <1>1, <1>2 DEF ToolInv

LEMMA NextToolInv == ToolInv /\ [Next]_vars => ToolInv'
<1> SUFFICES ASSUME ToolInv, [Next]_vars PROVE ToolInv'
  OBVIOUS
<1>1. ASSUME NEW t \in Threads,
             \/ Execute(t) \/ Skip(t) \/ Enter(t)
             \/ increCount(t) \/ simInstrCache(t) \/ simMemOpr(t) \/ sendChunk(t)
             \/ HandleMagicOp(t)
      PROVE  ToolInv'
  BY <1>1, ExecuteToolInv, SkipToolInv, EnterToolInv, IncreCountToolInv,
     SimInstrCacheToolInv, SimMemOprToolInv, SendChunkToolInv, MagicToolInv
<1>2. CASE UNCHANGED vars
  BY <1>2 DEF ToolInv, ToolTypeOK, LockInv, At, vars, program
<1> QED BY <1>1, <1>2, FiniToolInv DEF Next, Terminated

LEMMA SpecToolInv == Spec => []ToolInv
  BY InitToolInv, NextToolInv, PTL DEF Spec

-----------------------------------------------------------------------------
\* A physical address lies in the simulated memory.
LEMMA PhysicalBlock ==
  ASSUME NEW frame \in Frames, NEW va \in Nat
  PROVE  blockOf(physical(frame, va)) \in Blocks
<1>1. PICK offset \in 0 .. (page_size - 1) : offset = va % page_size
  BY PageAssumption
<1>2. offset % page_size = offset
  BY PageAssumption
<1>3. physical(frame, va) = physical(frame, offset)
  BY <1>1, <1>2 DEF physical
<1> QED BY <1>3 DEF Blocks

\* The steps that send a request to a cache are steps of the hierarchy.
LEMMA NextHierarchy == ToolInv /\ [Next]_vars => [H!Next]_H!vars
<1> SUFFICES ASSUME ToolInv, [Next]_vars PROVE [H!Next]_H!vars
  OBVIOUS
<1>1. ASSUME NEW t \in Threads, simInstrCache(t) PROVE H!Next
  <2>1. PICK eip \in Eips, frame \in Frames : H!InstrFetch(blockOf(physical(frame, eip)))
    BY <1>1, EipType DEF simInstrCache, ToolInv
  <2>2. eip \in Nat
    BY WlCharAssumption
  <2> QED BY <2>1, <2>2, PhysicalBlock DEF H!Next
<1>2. ASSUME NEW t \in Threads, sendChunk(t) PROVE H!Next
  <2>1. Head(chunks) \in Nat
    BY <1>2, HeadTail DEF sendChunk, ToolInv, ToolTypeOK, LockInv
  <2>2. PICK frame \in Frames :
          \/ H!Store(blockOf(physical(frame, Head(chunks))))
          \/ H!Load(blockOf(physical(frame, Head(chunks))))
    BY <1>2 DEF sendChunk
  <2> QED BY <2>1, <2>2, PhysicalBlock DEF H!Next
<1>3. ASSUME UNCHANGED caches PROVE UNCHANGED H!vars
  BY <1>3 DEF caches, H!vars
<1>4. ASSUME NEW t \in Threads,
             \/ Execute(t) \/ Skip(t) \/ Enter(t) \/ increCount(t) \/ simMemOpr(t)
             \/ HandleMagicOp(t)
      PROVE  UNCHANGED caches
  BY <1>4 DEF Execute, Skip, Enter, increCount, simMemOpr, HandleMagicOp
<1>5. (Fini \/ UNCHANGED vars) => UNCHANGED caches
  BY DEF Fini, vars
<1> QED BY <1>1, <1>2, <1>3, <1>4, <1>5 DEF Next, Terminated

\* The tool implements the hierarchy: every property of InclusiveHierarchy holds of
\* the caches in it.
THEOREM RoiImplementsHierarchy == Spec => HierarchySpec
<1>1. Init => H!Init
  BY DEF Init
<1> QED BY <1>1, SpecToolInv, NextHierarchy, PTL DEF Spec, HierarchySpec, H!Spec

\* After exit(0) or Fini no thread sends a request to what is deleted.
THEOREM RoiNoUseAfterDelete == Spec => NoUseAfterDelete
<1>1. ToolInv /\ [Next]_vars => [deleted => UNCHANGED <<caches, mmu>>]_vars
  <2> SUFFICES ASSUME ToolInv, [Next]_vars, deleted PROVE UNCHANGED <<caches, mmu>>
    OBVIOUS
  <2>1. ASSUME NEW t \in Threads PROVE ~ simInstrCache(t)
    BY LockFree DEF simInstrCache
  <2>2. ASSUME NEW t \in Threads PROVE ~ sendChunk(t)
    BY DEF ToolInv, LockInv, sendChunk, At
  <2>3. ASSUME NEW t \in Threads,
               \/ Execute(t) \/ Skip(t) \/ Enter(t) \/ increCount(t) \/ simMemOpr(t)
               \/ HandleMagicOp(t)
        PROVE  UNCHANGED <<caches, mmu>>
    BY <2>3 DEF Execute, Skip, Enter, increCount, simMemOpr, HandleMagicOp
  <2>4. (Fini \/ UNCHANGED vars) => UNCHANGED <<caches, mmu>>
    BY DEF Fini, vars
  <2> QED BY <2>1, <2>2, <2>3, <2>4 DEF Next, Terminated
<1> QED BY <1>1, SpecToolInv, PTL DEF Spec, NoUseAfterDelete

-----------------------------------------------------------------------------
\* What va2pa does to the pool, first and later touches alike.
LEMMA va2paFrames ==
  ASSUME MMUTypeOK, FramesExclusive, NEW va \in Nat, NEW frame \in Frames, va2pa(va, frame)
  PROVE  MMUTypeOK' /\ FramesExclusive'
<1>1. CASE UNCHANGED mmu
  BY <1>1 DEF mmu, MMUTypeOK, FramesExclusive
<1>2. CASE /\ pageOf(va) \notin DOMAIN pages /\ frame \in free_frame_pool
           /\ mapPage(pageOf(va), frame)
  <2>1. PICK page \in Nat : page = pageOf(va)
    BY PageAssumption DEF pageOf
  <2>2. /\ page \notin DOMAIN pages /\ frame \in free_frame_pool
        /\ free_frame_pool' = free_frame_pool \ {frame}
        /\ used_frame_pool' = used_frame_pool \cup {frame}
        /\ pages' = [p \in DOMAIN pages \cup {page} |-> IF p = page THEN frame ELSE pages[p]]
    BY <1>2, <2>1 DEF mapPage
  <2>3. /\ DOMAIN pages' = DOMAIN pages \cup {page}
        /\ pages'[page] = frame
        /\ \A p \in DOMAIN pages : pages'[p] = pages[p] /\ pages[p] # frame
    BY <2>2 DEF FramesExclusive
  <2>4. MMUTypeOK'
    BY <2>2, <2>3 DEF MMUTypeOK
  <2>5. \A p, q \in DOMAIN pages' : pages'[p] = pages'[q] => p = q
    BY <2>3 DEF FramesExclusive
  <2>6. used_frame_pool' = {pages'[p] : p \in DOMAIN pages'}
    BY <2>2, <2>3 DEF FramesExclusive
  <2>7. free_frame_pool' = Frames \ used_frame_pool'
    BY <2>2 DEF FramesExclusive
  <2>8. FramesExclusive'
    BY <2>5, <2>6, <2>7 DEF FramesExclusive
  <2> QED BY <2>4, <2>8
<1> QED BY <1>1, <1>2 DEF va2pa

FramesInv == MMUTypeOK /\ FramesExclusive

LEMMA NextFramesInv == ToolInv /\ FramesInv /\ [Next]_vars => FramesInv'
<1> SUFFICES ASSUME ToolInv, FramesInv, [Next]_vars PROVE FramesInv'
  OBVIOUS
<1>1. ASSUME NEW t \in Threads, simInstrCache(t) PROVE FramesInv'
  <2>1. PICK eip \in Eips, frame \in Frames : va2pa(eip, frame)
    BY <1>1, EipType DEF simInstrCache, ToolInv
  <2>2. eip \in Nat
    BY WlCharAssumption
  <2> QED BY <2>1, <2>2, va2paFrames DEF FramesInv
<1>2. ASSUME NEW t \in Threads, sendChunk(t) PROVE FramesInv'
  <2>1. Head(chunks) \in Nat
    BY <1>2, HeadTail DEF sendChunk, ToolInv, ToolTypeOK, LockInv
  <2>2. PICK frame \in Frames : va2pa(Head(chunks), frame)
    BY <1>2 DEF sendChunk
  <2> QED BY <2>1, <2>2, va2paFrames DEF FramesInv
<1>3. ASSUME UNCHANGED mmu PROVE FramesInv'
  BY <1>3 DEF mmu, FramesInv, MMUTypeOK, FramesExclusive
<1>4. ASSUME NEW t \in Threads,
             \/ Execute(t) \/ Skip(t) \/ Enter(t) \/ increCount(t) \/ simMemOpr(t)
             \/ HandleMagicOp(t)
      PROVE  UNCHANGED mmu
  BY <1>4 DEF Execute, Skip, Enter, increCount, simMemOpr, HandleMagicOp
<1>5. (Fini \/ UNCHANGED vars) => UNCHANGED mmu
  BY DEF Fini, vars
<1> QED BY <1>1, <1>2, <1>3, <1>4, <1>5 DEF Next, Terminated

LEMMA SpecFramesInv == Spec => []FramesInv
<1>1. Init => FramesInv
  BY DEF Init, MMUInit, FramesInv, MMUTypeOK, FramesExclusive
<1> QED BY <1>1, SpecToolInv, NextFramesInv, PTL DEF Spec

\* No two pages of the program share a frame.
THEOREM RoiFramesExclusive == Spec => []FramesExclusive
<1>1. FramesInv => FramesExclusive
  BY DEF FramesInv
<1> QED BY <1>1, SpecFramesInv, PTL

-----------------------------------------------------------------------------
\* The model has its caches as H and their theorems speak of HP: two instances of
\* one module.  What a request does is the same in both.
LEMMA SameArrays ==
  ASSUME NEW c, NEW t, NEW addr, NEW modify, NEW clk
  PROVE  /\ H!isCached(c, t, addr) = HP!isCached(c, t, addr)
         /\ H!accessBlock(c, t, addr, modify, clk) = HP!accessBlock(c, t, addr, modify, clk)
         /\ H!insertBlock(c, t, addr, modify, clk) = HP!insertBlock(c, t, addr, modify, clk)
         /\ H!wb_required(c, t, addr) = HP!wb_required(c, t, addr)
         /\ H!victim_addr(c, t, addr) = HP!victim_addr(c, t, addr)
         /\ H!inval(c, t, addr) = HP!inval(c, t, addr)
         /\ H!MaxAddr = HP!MaxAddr
  BY DEF H!isCached, HP!isCached, H!findBlock, HP!findBlock, H!HitWays, HP!HitWays,
         H!FirstWay, HP!FirstWay, H!Ways, HP!Ways, H!extractSet, HP!extractSet,
         H!extractTag, HP!extractTag, H!regenerateAddr, HP!regenerateAddr, H!touch,
         HP!touch, H!accessBlock, HP!accessBlock, H!victimWay, HP!victimWay,
         H!victimBlk, HP!victimBlk, H!wb_required, HP!wb_required, H!victim_addr,
         HP!victim_addr, H!invalidate, HP!invalidate, H!insertBlock,
         HP!insertBlock, H!inval, HP!inval, H!MaxAddr, HP!MaxAddr

LEMMA SameUpdate ==
  ASSUME NEW h, NEW c, NEW t, NEW clk, NEW moved
  PROVE  H!Update(h, c, t, clk, moved) = HP!Update(h, c, t, clk, moved)
  BY DEF H!Update, HP!Update, H!Bump, HP!Bump, H!Counters, HP!Counters

LEMMA SameBackInval ==
  ASSUME NEW h, NEW victim
  PROVE  H!BackInval(h, victim) = HP!BackInval(h, victim)
  BY SameArrays DEF H!BackInval, HP!BackInval, H!L1s, HP!L1s

LEMMA SameTally ==
  ASSUME NEW type, NEW hit, NEW instr, NEW wb
  PROVE  H!Tally(type, hit, instr, wb) = HP!Tally(type, hit, instr, wb)
  BY DEF H!Tally, HP!Tally

LEMMA SameSendLLC ==
  ASSUME NEW h, NEW addr, NEW type, NEW instr
  PROVE  H!sendLLC(h, addr, type, instr) = HP!sendLLC(h, addr, type, instr)
  BY Zenon, SameArrays, SameUpdate, SameBackInval, SameTally DEF H!sendLLC, HP!sendLLC

LEMMA SameSendL1 ==
  ASSUME NEW h, NEW c, NEW addr, NEW type, NEW instr
  PROVE  H!sendL1(h, c, addr, type, instr) = HP!sendL1(h, c, addr, type, instr)
  BY Zenon, SameArrays, SameUpdate, SameTally, SameSendLLC DEF H!sendL1, HP!sendL1

LEMMA SameRequest ==
  ASSUME NEW c, NEW addr, NEW type, NEW instr
  PROVE  H!Request(c, addr, type, instr) <=> HP!Request(c, addr, type, instr)
  BY SameArrays, SameSendL1 DEF H!Request, HP!Request

LEMMA SameHierarchy ==
  /\ H!Init <=> HP!Init
  /\ H!Next <=> HP!Next
  /\ UNCHANGED H!vars => UNCHANGED HP!vars
<1>1. H!Init <=> HP!Init
  BY DEF H!Init, HP!Init, H!EmptyTags, HP!EmptyTags, H!Sets, HP!Sets, H!Ways,
         HP!Ways, H!Counters, HP!Counters
<1>2. H!Next <=> HP!Next
  BY SameRequest DEF H!Next, HP!Next, H!InstrFetch, HP!InstrFetch, H!Load, HP!Load, H!Store,
         HP!Store
<1>3. UNCHANGED H!vars => UNCHANGED HP!vars
  BY DEF H!vars, HP!vars
<1> QED BY <1>1, <1>2, <1>3

\* The simulated memory is made of blocks, and the geometry is one the theorems are for.
LEMMA CachesAssumptions == HP!GeometryAssumption /\ HP!HierarchyAssumption
<1>1. ASSUME NEW frame \in Frames, NEW va \in 0 .. (page_size - 1)
      PROVE  blockOf(physical(frame, va)) \in Nat
  <2>1. page_size \in Nat /\ frame \in Nat /\ va % page_size \in Nat
    BY PageAssumption
  <2>2. physical(frame, va) \in Nat
    BY <2>1 DEF physical
  <2> QED BY <2>2, BlockSizeAssumption DEF blockOf
<1>2. Blocks \subseteq Nat
  BY <1>1 DEF Blocks
<1> QED BY <1>2, WlCharAssumption DEF HP!GeometryAssumption, HP!HierarchyAssumption

\* The inductive invariant of the caches holds in the tool.
LEMMA InitCachesInv == Init => HP!IInv
  BY CachesAssumptions, SameHierarchy, HP!InitIInv DEF Init

LEMMA NextCachesInv == ToolInv /\ HP!IInv /\ [Next]_vars => HP!IInv'
  BY CachesAssumptions, SameHierarchy, NextHierarchy, HP!NextIInv

LEMMA SpecCachesInv == Spec => []HP!IInv
  BY InitCachesInv, NextCachesInv, SpecToolInv, PTL DEF Spec

\* The state of the tool, its caches and its MMU has its type.
THEOREM RoiType == Spec => []TypeOK
<1>1. HP!IInv => H!TypeOK
  BY DEF HP!IInv, H!TypeOK, HP!TypeOK, H!TagArrays, HP!TagArrays, H!Sets, HP!Sets, H!Ways,
         HP!Ways, H!Blk, HP!Blk, H!Counters, HP!Counters
<1>2. ToolInv /\ FramesInv /\ HP!IInv => TypeOK
  BY <1>1 DEF ToolInv, ToolTypeOK, FramesInv, TypeOK
<1> QED BY <1>2, SpecToolInv, SpecFramesInv, SpecCachesInv, PTL

\* What the properties of the caches look at means the same in H and in HP.
LEMMA SameContents ==
  ASSUME NEW c, NEW t
  PROVE  /\ H!CachedBlocks(c, t) = HP!CachedBlocks(c, t)
         /\ H!DirtyBlocks(c, t) = HP!DirtyBlocks(c, t)
         /\ H!UniqueTags(c, t) <=> HP!UniqueTags(c, t)
         /\ \A clk : H!StrictLRU(c, t, clk) <=> HP!StrictLRU(c, t, clk)
<1>1. H!CachedBlocks(c, t) = HP!CachedBlocks(c, t)
  BY DEF H!CachedBlocks, HP!CachedBlocks, H!regenerateAddr, HP!regenerateAddr,
         H!Ways, HP!Ways, H!Sets, HP!Sets
<1>2. ASSUME NEW addr
      PROVE  /\ H!extractSet(c, addr) = HP!extractSet(c, addr)
             /\ H!findBlock(c, t, addr) = HP!findBlock(c, t, addr)
  BY DEF H!findBlock, HP!findBlock, H!HitWays, HP!HitWays, H!FirstWay, HP!FirstWay,
         H!Ways, HP!Ways, H!extractSet, HP!extractSet, H!extractTag, HP!extractTag
<1>3. H!DirtyBlocks(c, t) = HP!DirtyBlocks(c, t)
  BY <1>1, <1>2 DEF H!DirtyBlocks, HP!DirtyBlocks
<1>4. H!UniqueTags(c, t) <=> HP!UniqueTags(c, t)
  BY DEF H!UniqueTags, HP!UniqueTags, H!Ways, HP!Ways, H!Sets, HP!Sets
<1>5. \A clk : H!StrictLRU(c, t, clk) <=> HP!StrictLRU(c, t, clk)
  BY DEF H!StrictLRU, HP!StrictLRU, H!Ways, HP!Ways, H!Sets, HP!Sets
<1> QED BY <1>1, <1>3, <1>4, <1>5

\* What makes the caches correct holds of those inside the tool, whatever its threads do:
\* they are inclusive, no block is in one of them twice, the one evicted is the oldest, a
\* dirty one was written, and the counters that writeResults prints agree.
THEOREM RoiCachesCorrect ==
  Spec => [](/\ H!NoDuplicates /\ H!Inclusion /\ H!LRUOrder
             /\ H!DirtyIsModified /\ H!TrafficAgrees)
<1>1. HP!NoDuplicates => H!NoDuplicates
  BY SameContents DEF H!NoDuplicates, HP!NoDuplicates
<1>2. HP!Inclusion => H!Inclusion
  BY SameContents DEF H!Inclusion, HP!Inclusion, H!Cached, HP!Cached, H!L1s, HP!L1s
<1>3. HP!LRUOrder => H!LRUOrder
  BY SameContents DEF H!LRUOrder, HP!LRUOrder
<1>4. HP!DirtyIsModified => H!DirtyIsModified
  BY SameContents DEF H!DirtyIsModified, HP!DirtyIsModified, H!Dirty, HP!Dirty
<1>5. HP!TrafficAgrees => H!TrafficAgrees
  BY DEF H!TrafficAgrees, HP!TrafficAgrees
<1>6. HP!IInv => /\ H!NoDuplicates /\ H!Inclusion /\ H!LRUOrder
                /\ H!DirtyIsModified /\ H!TrafficAgrees
  BY <1>1, <1>2, <1>3, <1>4, <1>5 DEF HP!IInv
<1> QED BY <1>6, SpecCachesInv, PTL

\* The step of H!OffChipTraffic.
OffChipStep ==
  /\ H!Cardinality(H!Cached("L2")' \ H!Cached("L2"))
       = stats["L2"].num_data_loads' + stats["L2"].num_instr_loads'
         - stats["L2"].num_data_loads - stats["L2"].num_instr_loads
  /\ H!Cardinality(H!Dirty("L2") \ H!Cached("L2")')
       = stats["L2"].num_evicts' - stats["L2"].num_evicts

\* What enters L2 of the tool was loaded and what leaves it dirty was written back, as
\* often as L2 counts, in every step of any thread.
THEOREM RoiOffChip == Spec => H!OffChipTraffic
<1>1. /\ H!Cached("L2") = HP!Cached("L2") /\ H!Cached("L2")' = HP!Cached("L2")'
      /\ H!Dirty("L2") = HP!Dirty("L2")
  BY SameContents DEF H!Cached, HP!Cached, H!Dirty, HP!Dirty
<1>2. [HP!OffChipStep]_HP!vars => [OffChipStep]_H!vars
  BY <1>1 DEF HP!OffChipStep, OffChipStep, HP!vars, H!vars,
            H!Cardinality, HP!Cardinality
<1>3. ToolInv /\ HP!IInv /\ [Next]_vars => [OffChipStep]_H!vars
  BY <1>2, CachesAssumptions, SameHierarchy, NextHierarchy, HP!NextIInv
<1>4. Spec => [][OffChipStep]_H!vars
  BY <1>3, SpecToolInv, SpecCachesInv, PTL DEF Spec
<1> QED BY <1>4 DEF H!OffChipTraffic, OffChipStep

-----------------------------------------------------------------------------
\* A request brings at most its own block into the caches, and L1I counts the fetches.
LEMMA RequestEffect ==
  ASSUME HP!IInv, NEW addr \in Blocks,
         H!InstrFetch(addr) \/ H!Load(addr) \/ H!Store(addr)
  PROVE  /\ \A c \in Caches : H!Cached(c)' \subseteq H!Cached("L2") \cup {addr}
         /\ H!InstrFetch(addr) => accesses'["L1I"] = accesses["L1I"] + 1
         /\ H!Load(addr) \/ H!Store(addr) => accesses'["L1I"] = accesses["L1I"]
<1>1. \A c \in Caches : H!Cached(c) = HP!Cached(c) /\ H!Cached(c)' = HP!Cached(c)'
  BY DEF H!Cached, HP!Cached, H!CachedBlocks, HP!CachedBlocks, H!regenerateAddr,
         HP!regenerateAddr, H!Ways, HP!Ways, H!Sets, HP!Sets
<1>2. "L2" \in Caches /\ "L1I" \in HP!L1s /\ "L1D" \in HP!L1s
  BY WlCharAssumption DEF HP!L1s
<1>3. ASSUME NEW c \in HP!L1s, NEW type \in {"READ", "WRITE"}, NEW instr \in BOOLEAN,
             H!Request(c, addr, type, instr)
      PROVE  /\ \A d \in Caches : HP!Cached(d)' \subseteq HP!Cached("L2") \cup {addr}
             /\ accesses'[c] = accesses[c] + 1
             /\ \A d \in HP!L1s \ {c} : accesses'[d] = accesses[d]
  <2>1. HP!Request(c, addr, type, instr)
    BY <1>3, SameRequest
  <2> QED BY <2>1, CachesAssumptions, HP!RequestIInv
<1>4. H!InstrFetch(addr) => /\ \A c \in Caches : H!Cached(c)' \subseteq H!Cached("L2") \cup {addr}
                            /\ accesses'["L1I"] = accesses["L1I"] + 1
  BY <1>1, <1>2, <1>3 DEF H!InstrFetch
<1>5. H!Load(addr) => /\ \A c \in Caches : H!Cached(c)' \subseteq H!Cached("L2") \cup {addr}
                      /\ accesses'["L1I"] = accesses["L1I"]
  BY <1>1, <1>2, <1>3 DEF H!Load
<1>6. H!Store(addr) => /\ \A c \in Caches : H!Cached(c)' \subseteq H!Cached("L2") \cup {addr}
                       /\ accesses'["L1I"] = accesses["L1I"]
  BY <1>1, <1>2, <1>3 DEF H!Store
<1> QED BY <1>4, <1>5, <1>6

\* A frame that has been given out stays so.
LEMMA va2paUsed ==
  ASSUME FramesInv, NEW va \in Nat, NEW frame \in Frames, va2pa(va, frame)
  PROVE  used_frame_pool \subseteq used_frame_pool' /\ frame \in used_frame_pool'
<1>1. CASE pageOf(va) \in DOMAIN pages /\ frame = pages[pageOf(va)] /\ UNCHANGED mmu
  BY <1>1 DEF mmu, FramesInv, FramesExclusive
<1>2. CASE mapPage(pageOf(va), frame)
  BY <1>2 DEF mapPage
<1> QED BY <1>1, <1>2 DEF va2pa

\* The block requested for va lies in the frame that va2pa found.
LEMMA RequestMapped ==
  ASSUME HP!IInv, FramesInv, CachedAreMapped,
         NEW va \in Nat, NEW frame \in Frames, va2pa(va, frame),
         NEW addr, addr = blockOf(physical(frame, va)),
         H!InstrFetch(addr) \/ H!Load(addr) \/ H!Store(addr)
  PROVE  CachedAreMapped'
<1>1. addr \in Blocks
  BY PhysicalBlock
<1>2. used_frame_pool \subseteq used_frame_pool' /\ frame \in used_frame_pool'
  BY va2paUsed
<1>3. PICK offset \in 0 .. (page_size - 1) : addr = blockOf(physical(frame, offset))
  <2>1. PICK offset \in 0 .. (page_size - 1) : offset = va % page_size
    BY PageAssumption
  <2>2. offset % page_size = offset
    BY PageAssumption
  <2>3. physical(frame, va) = physical(frame, offset)
    BY <2>1, <2>2 DEF physical
  <2> QED BY <2>3
<1>4. ASSUME NEW c \in Caches, NEW b \in H!Cached(c)'
      PROVE  \E f \in used_frame_pool' : \E o \in 0 .. (page_size - 1) : b = blockOf(physical(f, o))
  <2>1. b \in H!Cached("L2") \/ b = addr
    BY <1>1, RequestEffect
  <2>2. "L2" \in Caches
    BY WlCharAssumption
  <2>3. CASE b \in H!Cached("L2")
    BY <1>2, <2>2, <2>3 DEF CachedAreMapped
  <2>4. CASE b = addr
    BY <1>2, <1>3, <2>4
  <2> QED BY <2>1, <2>3, <2>4
<1> QED BY <1>4 DEF CachedAreMapped

LEMMA InitMapped == Init => CachedAreMapped
<1> SUFFICES ASSUME Init, NEW c \in Caches, NEW b \in H!Cached(c) PROVE FALSE
  BY DEF CachedAreMapped
<1>1. \A s \in H!Sets(c), w \in H!Ways(c) : ~ tags[c][s][w].valid
  BY DEF Init, H!Init, H!EmptyTags
<1> QED BY <1>1 DEF H!Cached, H!CachedBlocks

LEMMA NextMapped ==
  ToolInv /\ FramesInv /\ HP!IInv /\ CachedAreMapped /\ [Next]_vars => CachedAreMapped'
<1> SUFFICES ASSUME ToolInv, FramesInv, HP!IInv, CachedAreMapped, [Next]_vars
             PROVE  CachedAreMapped'
  OBVIOUS
<1>1. ASSUME NEW t \in Threads, simInstrCache(t) PROVE CachedAreMapped'
  <2>1. PICK eip \in Eips, frame \in Frames :
          va2pa(eip, frame) /\ H!InstrFetch(blockOf(physical(frame, eip)))
    BY <1>1, EipType DEF simInstrCache, ToolInv
  <2>2. eip \in Nat
    BY WlCharAssumption
  <2> QED BY <2>1, <2>2, RequestMapped
<1>2. ASSUME NEW t \in Threads, sendChunk(t) PROVE CachedAreMapped'
  <2>1. Head(chunks) \in Nat
    BY <1>2, HeadTail DEF sendChunk, ToolInv, ToolTypeOK, LockInv
  <2>2. PICK frame \in Frames :
          /\ va2pa(Head(chunks), frame)
          /\ \/ H!Store(blockOf(physical(frame, Head(chunks))))
             \/ H!Load(blockOf(physical(frame, Head(chunks))))
    BY <1>2 DEF sendChunk
  <2> QED BY <2>1, <2>2, RequestMapped
<1>3. ASSUME UNCHANGED <<caches, mmu>> PROVE CachedAreMapped'
  BY <1>3 DEF caches, mmu, CachedAreMapped, H!Cached
<1>4. ASSUME NEW t \in Threads,
             \/ Execute(t) \/ Skip(t) \/ Enter(t) \/ increCount(t) \/ simMemOpr(t)
             \/ HandleMagicOp(t)
      PROVE  UNCHANGED <<caches, mmu>>
  BY <1>4 DEF Execute, Skip, Enter, increCount, simMemOpr, HandleMagicOp
<1>5. (Fini \/ UNCHANGED vars) => UNCHANGED <<caches, mmu>>
  BY DEF Fini, vars
<1> QED BY <1>1, <1>2, <1>3, <1>4, <1>5 DEF Next, Terminated

\* Every block in a cache is in a frame that the MMU has given out.
THEOREM RoiCachedAreMapped == Spec => []CachedAreMapped
  BY InitMapped, NextMapped, SpecToolInv, SpecFramesInv, SpecCachesInv, PTL DEF Spec

-----------------------------------------------------------------------------
\* Each instruction is counted, then fetched, once.
FetchOrder(s) ==
  \A i \in 1 .. Len(s) :
    /\ s[i].fn = "increCount" => i = 1 /\ Len(s) >= 2 /\ s[2].fn = "simInstrCache"
    /\ s[i].fn = "simInstrCache" => i = 1 \/ s[i - 1].fn = "increCount"

\* The threads that are past increCount (or never leave it) and not yet past the fetch.
Unfetched == {t \in Threads : At(t, "simInstrCache") \/ pc[t] = "exiting"}

\* Until the ROI begins nothing is simulated; from then on the difference of the
\* counts is one that the threads under way can explain.
FetchInv ==
  /\ \A t \in Threads : FetchOrder(calls[t])
  /\ ~ roi_ended /\ fast_forwarding =>
       /\ insn_count = 0 /\ accesses["L1I"] = 0
       /\ \A t \in Threads : pc[t] = "ready" \/ (pc[t] = "waiting" /\ MagicOp(t))
  /\ ~ roi_ended /\ ~ fast_forwarding =>
       /\ insn_count <= accesses["L1I"] + Cardinality(Unfetched)
       /\ accesses["L1I"] + Cardinality(Unfetched) <= insn_count + Cardinality(Threads) - 1

LEMMA TwoFirst ==
  ASSUME NEW S, NEW a \in S, NEW b \in S, NEW rest \in Seq(S), NEW s, s = <<a, b>> \o rest
  PROVE  /\ Len(s) = Len(rest) + 2 /\ s[1] = a /\ s[2] = b
         /\ \A i \in 1 .. Len(s) : i # 1 /\ i # 2 => s[i] = rest[i - 2] /\ i - 2 \in DOMAIN rest
<1>1. Len(s) = Len(rest) + 2 /\ Len(rest) \in Nat /\ DOMAIN rest = 1 .. Len(rest)
  OBVIOUS
<1>2. s[1] = a /\ s[2] = b
  OBVIOUS
<1>3. ASSUME NEW i \in 1 .. Len(s), i # 1, i # 2
      PROVE  s[i] = rest[i - 2] /\ i - 2 \in DOMAIN rest
  <2>1. i \in Nat /\ i > 2 /\ i - 2 \in 1 .. Len(rest)
    BY <1>1, <1>3
  <2>2. s[i] = rest[i - Len(<<a, b>>)]
    BY <1>1, <2>1
  <2> QED BY <1>1, <2>1, <2>2
<1> QED BY <1>1, <1>2, <1>3

LEMMA InstructionOrder ==
  ASSUME NEW eip \in Eips, NEW rest \in Rest
  PROVE  FetchOrder(Instruction(eip, rest))
<1>1. \A i \in DOMAIN rest : rest[i].fn # "increCount" /\ rest[i].fn # "simInstrCache"
  BY DEF Rest
<1>2. rest \in Seq(Call) /\ Len(rest) \in Nat
  BY RestType
<1>3. PICK count \in Call, fetch \in Call :
        /\ count = [fn |-> "increCount"]
        /\ fetch = [fn |-> "simInstrCache", addr |-> eip]
  BY DEF Call
<1>4. count.fn = "increCount" /\ fetch.fn = "simInstrCache"
  BY <1>3
<1>5. PICK s : s = <<count, fetch>> \o rest
  OBVIOUS
<1>6. /\ Len(s) = Len(rest) + 2 /\ s[1] = count /\ s[2] = fetch
      /\ \A i \in 1 .. Len(s) : i # 1 /\ i # 2 => s[i] = rest[i - 2] /\ i - 2 \in DOMAIN rest
  BY <1>2, <1>5, TwoFirst
<1>7. ASSUME NEW i \in 1 .. Len(s)
      PROVE  /\ s[i].fn = "increCount" => i = 1
             /\ s[i].fn = "simInstrCache" => i = 1 \/ i = 2
  BY <1>1, <1>4, <1>6
<1>8. Len(s) >= 2 /\ s[1].fn = "increCount" /\ s[2].fn = "simInstrCache" /\ s[2 - 1] = s[1]
  BY <1>2, <1>4, <1>6
<1>9. FetchOrder(s)
  BY <1>7, <1>8 DEF FetchOrder
<1> QED BY <1>3, <1>5, <1>9 DEF Instruction

\* What the next call of the instruction is.
LEMMA TailOrder ==
  ASSUME NEW s \in Seq(Call), s # <<>>, FetchOrder(s)
  PROVE  /\ FetchOrder(Tail(s))
         /\ Head(s).fn = "increCount" =>
              Tail(s) # <<>> /\ Head(Tail(s)).fn = "simInstrCache"
         /\ Head(s).fn # "increCount" =>
              ~ (Tail(s) # <<>> /\ Head(Tail(s)).fn = "simInstrCache")
<1>1. /\ Len(s) \in Nat /\ Len(s) >= 1 /\ Head(s) = s[1]
      /\ Tail(s) \in Seq(Call) /\ Len(Tail(s)) = Len(s) - 1
      /\ \A i \in 1 .. Len(s) - 1 : Tail(s)[i] = s[i + 1]
      /\ Tail(s) # <<>> => Head(Tail(s)) = Tail(s)[1] /\ Len(s) >= 2
      /\ Len(s) >= 2 => Tail(s) # <<>>
  OBVIOUS
<1> DEFINE r == Tail(s)
<1> HIDE DEF r
<1>2. FetchOrder(r)
  <2>1. ASSUME NEW i \in 1 .. Len(s) - 1
        PROVE  r[i].fn # "increCount" /\ (r[i].fn = "simInstrCache" => i = 1 \/ r[i - 1].fn = "increCount")
    <3>1. i \in Nat /\ i + 1 \in 1 .. Len(s) /\ r[i] = s[i + 1] /\ i + 1 # 1
      BY <1>1 DEF r
    <3>2. s[i + 1].fn # "increCount" /\ (s[i + 1].fn = "simInstrCache" => s[(i + 1) - 1].fn = "increCount")
      BY <3>1 DEF FetchOrder
    <3>3. i # 1 => i - 1 \in 1 .. Len(s) - 1
      BY <1>1
    <3>4. i # 1 => r[i - 1] = s[(i - 1) + 1]
      BY <1>1, <3>3 DEF r
    <3>5. (i + 1) - 1 = i /\ (i - 1) + 1 = i
      BY <3>1
    <3> QED BY <3>1, <3>2, <3>4, <3>5
  <2> QED BY <1>1, <2>1 DEF FetchOrder, r
<1>3. 1 \in 1 .. Len(s)
  BY <1>1
<1>4. Head(s).fn = "increCount" => Len(s) >= 2 /\ s[2].fn = "simInstrCache"
  BY <1>1, <1>3 DEF FetchOrder
<1>5. Len(s) >= 2 => 2 \in 1 .. Len(s) /\ 2 - 1 = 1 /\ 2 # 1
  BY <1>1
<1>6. Len(s) >= 2 /\ s[2].fn = "simInstrCache" => Head(s).fn = "increCount"
  BY <1>1, <1>5 DEF FetchOrder
<1>7. Len(s) >= 2 => Head(Tail(s)) = s[2]
  <2>1. ASSUME Len(s) >= 2 PROVE Tail(s)[1] = s[1 + 1]
    BY <1>1, <2>1
  <2> QED BY <1>1, <2>1
<1> QED BY <1>1, <1>2, <1>4, <1>6, <1>7 DEF r

\* Counting the threads between the count and the fetch.
LEMMA UnfetchedCount ==
  ASSUME NEW t \in Threads
  PROVE  /\ Cardinality(Unfetched) \in Nat /\ Cardinality(Threads) \in Nat
         /\ t \notin Unfetched => /\ Cardinality(Unfetched) <= Cardinality(Threads) - 1
                                  /\ Cardinality(Unfetched \cup {t}) = Cardinality(Unfetched) + 1
         /\ t \in Unfetched => Cardinality(Unfetched \ {t}) = Cardinality(Unfetched) - 1
<1>1. IsFiniteSet(Threads) /\ IsFiniteSet(Unfetched)
  BY WlCharAssumption, FS_Subset DEF Unfetched
<1>2. Cardinality(Unfetched) \in Nat /\ Cardinality(Threads) \in Nat
  BY <1>1, FS_CardinalityType
<1>3. ASSUME t \notin Unfetched PROVE Cardinality(Unfetched \cup {t}) = Cardinality(Unfetched) + 1
  BY <1>1, <1>3, FS_AddElement
<1>4. ASSUME t \notin Unfetched PROVE Cardinality(Unfetched) <= Cardinality(Threads) - 1
  <2>1. Unfetched \cup {t} \subseteq Threads
    BY DEF Unfetched
  <2>2. Cardinality(Unfetched \cup {t}) <= Cardinality(Threads)
    BY <1>1, <2>1, FS_Subset
  <2> QED BY <1>2, <1>3, <1>4, <2>2
<1>5. ASSUME t \in Unfetched PROVE Cardinality(Unfetched \ {t}) = Cardinality(Unfetched) - 1
  BY <1>1, <1>5, FS_RemoveElement
<1> QED BY <1>2, <1>3, <1>4, <1>5

\* A routine that returns leaves the instruction at its next call.
LEMMA ReturnFetch ==
  ASSUME ToolInv, \A u \in Threads : FetchOrder(calls[u]),
         NEW t \in Threads, calls[t] # <<>>, pc[t] # "exiting", Return(t)
  PROVE  /\ \A u \in Threads : FetchOrder(calls'[u])
         /\ At(t, "increCount") => Unfetched' = Unfetched \cup {t} /\ t \notin Unfetched
         /\ ~ At(t, "increCount") => Unfetched' = Unfetched \ {t}
<1>1. calls[t] \in Seq(Call) /\ calls'[t] = Tail(calls[t]) /\ pc'[t] = "ready"
  BY DEF ToolInv, ToolTypeOK, Return
<1>2. \A u \in Threads \ {t} : pc'[u] = pc[u] /\ calls'[u] = calls[u]
  BY DEF ToolInv, ToolTypeOK, Return
<1>3. /\ FetchOrder(calls'[t])
      /\ At(t, "increCount") => At(t, "simInstrCache")'
      /\ ~ At(t, "increCount") => ~ At(t, "simInstrCache")'
  BY <1>1, TailOrder DEF At
<1>4. \A u \in Threads : FetchOrder(calls'[u])
  BY <1>2, <1>3
<1>5. \A u \in Threads \ {t} : u \in Unfetched' <=> u \in Unfetched
  BY <1>2 DEF Unfetched, At
<1>6. t \in Unfetched' <=> At(t, "increCount")
  BY <1>1, <1>3 DEF Unfetched
<1>7. At(t, "increCount") => t \notin Unfetched
  BY DEF Unfetched, At
<1>8. Unfetched \subseteq Threads /\ Unfetched' \subseteq Threads
  BY DEF Unfetched
<1>9. At(t, "increCount") => Unfetched' = Unfetched \cup {t}
  BY <1>5, <1>6, <1>8
<1>10. ~ At(t, "increCount") => Unfetched' = Unfetched \ {t}
  BY <1>5, <1>6, <1>8
<1> QED BY <1>4, <1>7, <1>9, <1>10

LEMMA ExecuteFetch ==
  ASSUME ToolInv, FetchInv, NEW t \in Threads, Execute(t) PROVE FetchInv'
<1>1. PICK instruction \in Seq(Call) :
        /\ calls' = [calls EXCEPT ![t] = instruction] /\ FetchOrder(instruction)
        /\ instruction # <<>> => Head(instruction).fn # "simInstrCache"
  <2>1. PICK eip \in Eips, rest \in Rest : calls' = [calls EXCEPT ![t] = Instruction(eip, rest)]
    BY DEF Execute
  <2>2. Instruction(eip, rest) \in Seq(Call) /\ FetchOrder(Instruction(eip, rest))
    BY InstructionType, InstructionOrder
  <2>3. Head(Instruction(eip, rest)).fn # "simInstrCache"
    <3>1. PICK count \in Call, fetch \in Call :
            /\ count = [fn |-> "increCount"]
            /\ fetch = [fn |-> "simInstrCache", addr |-> eip]
      BY DEF Call
    <3>2. Instruction(eip, rest) = <<count, fetch>> \o rest
      BY <3>1 DEF Instruction
    <3>3. Instruction(eip, rest)[1] = count
      BY <3>2, RestType, TwoFirst
    <3> QED BY <3>1, <3>3
  <2> QED BY <2>1, <2>2, <2>3
<1>2. calls[t] = <<>> /\ calls'[t] = instruction /\ \A u \in Threads \ {t} : calls'[u] = calls[u]
  BY <1>1 DEF Execute, ToolInv, ToolTypeOK
<1>3. /\ UNCHANGED <<fast_forwarding, insn_count, accesses, pc, roi_ended>>
  BY DEF Execute, caches
<1>4. Unfetched' = Unfetched
  BY <1>1, <1>2, <1>3 DEF Unfetched, At
<1>5. \A u \in Threads : FetchOrder(calls'[u])
  BY <1>1, <1>2 DEF FetchInv
<1>6. \A u \in Threads : MagicOp(u) => MagicOp(u)'
  BY <1>2 DEF MagicOp, At
<1> QED BY <1>3, <1>4, <1>5, <1>6 DEF FetchInv

LEMMA SkipFetch ==
  ASSUME ToolInv, FetchInv, NEW t \in Threads, Skip(t) PROVE FetchInv'
<1>1. \A u \in Threads : FetchOrder(calls'[u])
  BY ReturnFetch DEF FetchInv, Skip
<1>2. fast_forwarding /\ UNCHANGED <<fast_forwarding, insn_count, accesses, roi_ended>>
  BY DEF Skip, Proceeds, caches
<1>3. pc'[t] = "ready" /\ \A u \in Threads \ {t} : pc'[u] = pc[u] /\ calls'[u] = calls[u]
  BY DEF Skip, Return, ToolInv, ToolTypeOK
<1>4. \A u \in Threads \ {t} : MagicOp(u) => MagicOp(u)'
  BY <1>3 DEF MagicOp, At
<1> QED BY <1>1, <1>2, <1>3, <1>4 DEF FetchInv

LEMMA EnterFetch ==
  ASSUME ToolInv, FetchInv, NEW t \in Threads, Enter(t) PROVE FetchInv'
<1>1. UNCHANGED <<fast_forwarding, insn_count, accesses, roi_ended, calls>>
  BY DEF Enter, caches
<1>2. pc[t] = "ready" /\ pc'[t] = "waiting" /\ \A u \in Threads \ {t} : pc'[u] = pc[u]
  BY DEF Enter, ToolInv, ToolTypeOK
<1>3. Unfetched' = Unfetched
  BY <1>1, <1>2 DEF Unfetched, At
<1>4. fast_forwarding => MagicOp(t)
  BY DEF Enter, Proceeds
<1>5. \A u \in Threads : MagicOp(u)' <=> MagicOp(u)
  BY <1>1 DEF MagicOp, At
<1> QED BY <1>1, <1>2, <1>3, <1>4, <1>5 DEF FetchInv

\* Nothing but the magic op is past its unlocked test before the ROI begins.
LEMMA BusyInROI ==
  ASSUME FetchInv, NEW t \in Threads, ~ MagicOp(t), pc[t] # "ready", ~ roi_ended
  PROVE  /\ ~ fast_forwarding
         /\ insn_count <= accesses["L1I"] + Cardinality(Unfetched)
         /\ accesses["L1I"] + Cardinality(Unfetched) <= insn_count + Cardinality(Threads) - 1
  BY DEF FetchInv

LEMMA IncreCountFetch ==
  ASSUME ToolInv, HP!IInv, FetchInv, NEW t \in Threads, increCount(t) PROVE FetchInv'
<1>1. /\ pc[t] = "waiting" /\ At(t, "increCount") /\ calls[t] # <<>> /\ ~ MagicOp(t)
      /\ insn_count' = insn_count + 1 /\ insn_count \in Nat
      /\ UNCHANGED <<fast_forwarding, accesses, roi_ended>>
  BY DEF increCount, GetLock, At, MagicOp, caches, ToolInv, ToolTypeOK
<1>2. /\ Unfetched' = Unfetched \cup {t} /\ t \notin Unfetched
      /\ \A u \in Threads : FetchOrder(calls'[u])
  <2>1. CASE Exit(t)
    <3>1. /\ UNCHANGED calls /\ pc'[t] = "exiting"
          /\ \A u \in Threads \ {t} : pc'[u] = pc[u]
      BY <2>1 DEF Exit, ToolInv, ToolTypeOK
    <3>2. t \notin Unfetched
      BY <1>1 DEF Unfetched, At
    <3>3. \A u \in Threads : u \in Unfetched' <=> u \in Unfetched \cup {t}
      BY <3>1 DEF Unfetched, At
    <3>4. Unfetched' \subseteq Threads /\ Unfetched \subseteq Threads
      BY DEF Unfetched
    <3> QED BY <3>1, <3>2, <3>3, <3>4 DEF FetchInv
  <2>2. CASE Return(t)
    BY <1>1, <2>2, ReturnFetch DEF FetchInv
  <2> QED BY <2>1, <2>2 DEF increCount
<1>3. Cardinality(Unfetched') = Cardinality(Unfetched) + 1 /\ Cardinality(Unfetched) \in Nat
  BY <1>2, UnfetchedCount
<1>4. accesses["L1I"] \in Nat /\ Cardinality(Threads) \in Nat
  BY UnfetchedCount, WlCharAssumption DEF HP!IInv, HP!TypeOK
<1>5. ASSUME ~ roi_ended
      PROVE  /\ ~ fast_forwarding
             /\ insn_count' <= accesses["L1I"] + Cardinality(Unfetched')
             /\ accesses["L1I"] + Cardinality(Unfetched') <= insn_count' + Cardinality(Threads) - 1
  <2>1. /\ ~ fast_forwarding
        /\ insn_count <= accesses["L1I"] + Cardinality(Unfetched)
        /\ accesses["L1I"] + Cardinality(Unfetched) <= insn_count + Cardinality(Threads) - 1
    BY <1>1, <1>5, BusyInROI
  <2> QED BY <1>1, <1>3, <1>4, <2>1
<1> QED BY <1>1, <1>2, <1>5 DEF FetchInv

LEMMA SimInstrCacheFetch ==
  ASSUME ToolInv, HP!IInv, FetchInv, NEW t \in Threads, simInstrCache(t) PROVE FetchInv'
<1>1. /\ pc[t] = "waiting" /\ At(t, "simInstrCache") /\ calls[t] # <<>> /\ ~ MagicOp(t)
      /\ ~ At(t, "increCount") /\ Return(t) /\ insn_count \in Nat
      /\ UNCHANGED <<fast_forwarding, insn_count, roi_ended>>
  BY DEF simInstrCache, GetLock, At, MagicOp, ToolInv, ToolTypeOK
<1>2. /\ Unfetched' = Unfetched \ {t} /\ t \in Unfetched
      /\ \A u \in Threads : FetchOrder(calls'[u])
  BY <1>1, ReturnFetch DEF FetchInv, Unfetched
<1>3. accesses'["L1I"] = accesses["L1I"] + 1
  <2>1. PICK eip \in Eips, frame \in Frames : H!InstrFetch(blockOf(physical(frame, eip)))
    BY EipType DEF simInstrCache, ToolInv
  <2>2. eip \in Nat
    BY WlCharAssumption
  <2> QED BY <2>1, <2>2, PhysicalBlock, RequestEffect
<1>4. Cardinality(Unfetched') = Cardinality(Unfetched) - 1 /\ Cardinality(Unfetched) \in Nat
  BY <1>2, UnfetchedCount
<1>5. accesses["L1I"] \in Nat /\ Cardinality(Threads) \in Nat
  BY UnfetchedCount, WlCharAssumption DEF HP!IInv, HP!TypeOK
<1>6. ASSUME ~ roi_ended
      PROVE  /\ ~ fast_forwarding
             /\ insn_count <= accesses'["L1I"] + Cardinality(Unfetched')
             /\ accesses'["L1I"] + Cardinality(Unfetched') <= insn_count + Cardinality(Threads) - 1
  <2>1. /\ ~ fast_forwarding
        /\ insn_count <= accesses["L1I"] + Cardinality(Unfetched)
        /\ accesses["L1I"] + Cardinality(Unfetched) <= insn_count + Cardinality(Threads) - 1
    BY <1>1, <1>6, BusyInROI
  <2> QED BY <1>1, <1>3, <1>4, <1>5, <2>1
<1> QED BY <1>1, <1>2, <1>6 DEF FetchInv

LEMMA SimMemOprFetch ==
  ASSUME ToolInv, FetchInv, NEW t \in Threads, simMemOpr(t) PROVE FetchInv'
<1>1. /\ pc[t] = "waiting" /\ ~ MagicOp(t)
      /\ UNCHANGED <<fast_forwarding, insn_count, accesses, roi_ended, calls>>
  BY DEF simMemOpr, GetLock, At, MagicOp, caches
<1>2. pc'[t] = "sending" /\ \A u \in Threads \ {t} : pc'[u] = pc[u]
  BY DEF simMemOpr, ToolInv, ToolTypeOK
<1>3. Unfetched' = Unfetched
  BY <1>1, <1>2 DEF Unfetched, At
<1>4. ~ roi_ended => ~ fast_forwarding
  BY <1>1, BusyInROI
<1> QED BY <1>1, <1>3, <1>4 DEF FetchInv

LEMMA SendChunkFetch ==
  ASSUME ToolInv, HP!IInv, FetchInv, NEW t \in Threads, sendChunk(t) PROVE FetchInv'
<1>1. /\ pc[t] = "sending" /\ At(t, "simMemOpr") /\ calls[t] # <<>> /\ ~ MagicOp(t)
      /\ ~ At(t, "increCount") /\ t \notin Unfetched /\ chunks \in Seq(Nat) /\ chunks # <<>>
      /\ UNCHANGED <<fast_forwarding, insn_count, roi_ended>>
  BY DEF sendChunk, At, MagicOp, Unfetched, ToolInv, ToolTypeOK, LockInv
<1>2. Unfetched' = Unfetched /\ \A u \in Threads : FetchOrder(calls'[u])
  <2>1. CASE Return(t)
    <3>1. Unfetched' = Unfetched \ {t} /\ \A u \in Threads : FetchOrder(calls'[u])
      BY <1>1, <2>1, ReturnFetch DEF FetchInv
    <3> QED BY <1>1, <3>1
  <2>2. CASE UNCHANGED <<calls, pc, pinLock>>
    BY <2>2 DEF Unfetched, At, FetchInv
  <2> QED BY <2>1, <2>2 DEF sendChunk
<1>3. accesses'["L1I"] = accesses["L1I"]
  <2>1. Head(chunks) \in Nat
    BY <1>1, HeadTail
  <2>2. PICK frame \in Frames :
          \/ H!Store(blockOf(physical(frame, Head(chunks))))
          \/ H!Load(blockOf(physical(frame, Head(chunks))))
    BY DEF sendChunk
  <2> QED BY <2>1, <2>2, PhysicalBlock, RequestEffect
<1>4. ~ roi_ended => ~ fast_forwarding
  BY <1>1, BusyInROI
<1> QED BY <1>1, <1>2, <1>3, <1>4 DEF FetchInv

\* When the ROI begins the thread that begins it is not fetching.
LEMMA MagicFetch ==
  ASSUME ToolInv, FetchInv, NEW t \in Threads, HandleMagicOp(t) PROVE FetchInv'
<1>1. /\ pc[t] = "waiting" /\ MagicOp(t) /\ calls[t] # <<>> /\ Return(t)
      /\ ~ At(t, "increCount") /\ t \notin Unfetched
      /\ UNCHANGED <<insn_count, accesses>>
  BY DEF HandleMagicOp, GetLock, At, MagicOp, Unfetched, caches
<1>2. Unfetched' = Unfetched /\ \A u \in Threads : FetchOrder(calls'[u])
  <2>1. Unfetched' = Unfetched \ {t} /\ \A u \in Threads : FetchOrder(calls'[u])
    BY <1>1, ReturnFetch DEF FetchInv
  <2> QED BY <1>1, <2>1
<1>3. CASE At(t, "ROI_END")
  <2>1. roi_ended'
    BY <1>3 DEF HandleMagicOp
  <2> QED BY <1>2, <2>1 DEF FetchInv
<1>4. CASE ~ At(t, "ROI_END")
  <2>1. ~ fast_forwarding' /\ (~ roi_ended' => ~ roi_ended)
    BY <1>4 DEF HandleMagicOp
  <2>2. CASE roi_ended \/ ~ fast_forwarding
    BY <1>1, <1>2, <2>1, <2>2 DEF FetchInv
  <2>3. CASE ~ roi_ended /\ fast_forwarding
    <3>1. insn_count = 0 /\ accesses["L1I"] = 0
      BY <2>3 DEF FetchInv
    <3>2. /\ Cardinality(Unfetched) \in Nat
          /\ Cardinality(Unfetched) <= Cardinality(Threads) - 1
      BY <1>1, UnfetchedCount
    <3>3. /\ insn_count <= accesses["L1I"] + Cardinality(Unfetched)
          /\ accesses["L1I"] + Cardinality(Unfetched) <= insn_count + Cardinality(Threads) - 1
      <4>1. Cardinality(Threads) \in Nat
        BY UnfetchedCount
      <4> QED BY <3>1, <3>2, <4>1
    <3> QED BY <1>1, <1>2, <2>1, <3>3 DEF FetchInv
  <2> QED BY <2>2, <2>3
<1> QED BY <1>3, <1>4

LEMMA InitFetch == Init => FetchInv
<1> SUFFICES ASSUME Init PROVE FetchInv
  OBVIOUS
<1>1. \A t \in Threads : FetchOrder(calls[t]) /\ pc[t] = "ready"
  BY DEF Init, FetchOrder
<1>2. accesses["L1I"] = 0 /\ insn_count = 0 /\ fast_forwarding
  BY WlCharAssumption DEF Init, H!Init
<1> QED BY <1>1, <1>2 DEF FetchInv

LEMMA NextFetch == ToolInv /\ HP!IInv /\ FetchInv /\ [Next]_vars => FetchInv'
<1> SUFFICES ASSUME ToolInv, HP!IInv, FetchInv, [Next]_vars PROVE FetchInv'
  OBVIOUS
<1>1. ASSUME NEW t \in Threads,
             \/ Execute(t) \/ Skip(t) \/ Enter(t)
             \/ increCount(t) \/ simInstrCache(t) \/ simMemOpr(t) \/ sendChunk(t)
             \/ HandleMagicOp(t)
      PROVE  FetchInv'
  BY <1>1, ExecuteFetch, SkipFetch, EnterFetch, IncreCountFetch, SimInstrCacheFetch,
     SimMemOprFetch, SendChunkFetch, MagicFetch
<1>2. CASE Fini \/ UNCHANGED vars
  <2>1. UNCHANGED <<fast_forwarding, insn_count, accesses, roi_ended, calls, pc>>
    BY <1>2 DEF Fini, vars, caches
  <2> QED BY <2>1 DEF FetchInv, Unfetched, At, MagicOp
<1> QED BY <1>1, <1>2 DEF Next, Terminated

\* In a program that stays in the ROI the instructions counted and those the instruction
\* cache has served differ by no more than the threads under way.
THEOREM RoiFetchesCounted == Spec => []FetchesCounted
<1>1. ToolInv /\ HP!IInv /\ FetchInv => FetchesCounted
  <2> SUFFICES ASSUME ToolInv, HP!IInv, FetchInv, ~ roi_ended
               PROVE  /\ insn_count <= accesses["L1I"] + Cardinality(Threads)
                      /\ accesses["L1I"] <= insn_count + Cardinality(Threads) - 1
    BY DEF FetchesCounted
  <2>1. PICK t : t \in Threads
    BY WlCharAssumption
  <2>2. IsFiniteSet(Threads) /\ Unfetched \subseteq Threads
    BY WlCharAssumption DEF Unfetched
  <2>3. Cardinality(Unfetched) <= Cardinality(Threads)
    BY <2>2, FS_Subset
  <2>4. Cardinality(Unfetched) \in Nat /\ Cardinality(Threads) \in Nat
    BY <2>1, UnfetchedCount
  <2>5. Cardinality(Threads) # 0
    BY <2>1, <2>2, FS_EmptySet
  <2>6. accesses["L1I"] \in Nat /\ insn_count \in Nat
    BY WlCharAssumption DEF HP!IInv, HP!TypeOK, ToolInv, ToolTypeOK
  <2>7. CASE fast_forwarding
    <3>1. insn_count = 0 /\ accesses["L1I"] = 0
      BY <2>7 DEF FetchInv
    <3> QED BY <2>4, <2>5, <3>1
  <2>8. CASE ~ fast_forwarding
    <3>1. /\ insn_count <= accesses["L1I"] + Cardinality(Unfetched)
          /\ accesses["L1I"] + Cardinality(Unfetched) <= insn_count + Cardinality(Threads) - 1
      BY <2>8 DEF FetchInv
    <3> QED BY <2>3, <2>4, <2>6, <3>1
  <2> QED BY <2>7, <2>8
<1> QED BY <1>1, InitFetch, NextFetch, SpecToolInv, SpecCachesInv, PTL DEF Spec
=============================================================================
