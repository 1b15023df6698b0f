------------------------------ MODULE WlCharRoi ------------------------------
(***************************************************************************)
(* The pintool wl_char_roi (Workload_Char/wl_char_roi.cpp): the analysis   *)
(* routines Pin calls on the threads of the program, over the MMU          *)
(* (PageMapper) and the caches (InclusiveHierarchy) of one simulated core. *)
(* Each routine tests fast_forwarding without pinLock and does the rest    *)
(* under it.  Nothing but that flag is touched without the lock, so that a *)
(* critical section is one step; simMemOpr has one for each request.       *)
(***************************************************************************)
EXTENDS PageMapper, BlockSplit, FiniteSets

CONSTANTS Threads,
          NoThread,  \* the owner of a free pinLock
          Caches, num_sets, assoc,  \* geometry of the caches
          Eips,      \* addresses of the program's instructions
          Operands,  \* the operand lists of its memory instructions
          LIMIT,     \* instructions to simulate
          MaxInstrs  \* bound: instructions the program executes in all

\* A memory operand of an instruction, and how many bytes it has.
Operand == [is_store : BOOLEAN, addr : Nat, size : Nat \ {0}]

\* blockStart and physical agree on the block of an address if a page is made of
\* whole blocks.
ASSUME WlCharAssumption ==
  /\ IsFiniteSet(Threads) /\ Threads # {} /\ NoThread \notin Threads
  /\ LIMIT \in Nat \ {0} /\ MaxInstrs \in Nat
  /\ page_size % BLOCK_SIZE = 0
  /\ Caches = {"L1I", "L1D", "L2"}
  /\ num_sets \in [Caches -> Nat \ {0}] /\ assoc \in [Caches -> Nat \ {0}]
  /\ Eips \subseteq Nat /\ Operands \subseteq Seq(Operand)

VARIABLES
  fast_forwarding, insn_count, pinLock, \* the statics of the tool
  tags, accesses, stats, modified,      \* its caches
  deleted,   \* the statistics are out, and the caches and the MMU deleted
  calls,     \* calls[t]: the analysis calls left of the instruction of t
  pc,        \* pc[t]: where t is in the first of them
  chunks,    \* addresses that the simMemOpr with the lock has still to send
  executed,  \* instructions started, bounded by MaxInstrs
  finished,  \* the program has ended
  roi_ended  \* history: the program left the ROI

caches == <<tags, accesses, stats, modified>>
program == <<executed, finished>>
vars == <<fast_forwarding, insn_count, pinLock, caches, mmu, deleted, calls, pc, chunks,
          program, roi_ended>>

\* The blocks of the simulated memory.
Blocks == {blockOf(physical(f, va)) : f \in Frames, va \in 0 .. (page_size - 1)}

H == INSTANCE InclusiveHierarchy

Call ==
  [fn : {"increCount", "ROI_BEGIN", "ROI_END"}]
    \cup [fn : {"simInstrCache"}, addr : Eips]
    \cup [fn : {"simMemOpr"}, operand : Operand]

TypeOK ==
  /\ fast_forwarding \in BOOLEAN /\ insn_count \in Nat
  /\ pinLock \in Threads \cup {NoThread}
  /\ H!TypeOK /\ MMUTypeOK
  /\ deleted \in BOOLEAN /\ finished \in BOOLEAN /\ roi_ended \in BOOLEAN
  /\ calls \in [Threads -> Seq(Call)]
  /\ pc \in [Threads -> {"ready", "waiting", "sending", "exiting"}]
  /\ chunks \in Seq(Nat) /\ executed \in Nat

Init ==
  /\ fast_forwarding = TRUE /\ insn_count = 0 /\ pinLock = NoThread
  /\ H!Init /\ MMUInit
  /\ deleted = FALSE /\ finished = FALSE /\ roi_ended = FALSE
  /\ calls = [t \in Threads |-> <<>>]
  /\ pc = [t \in Threads |-> "ready"]
  /\ chunks = <<>> /\ executed = 0
-----------------------------------------------------------------------------
\* What instructionSim inserts for an instruction: increCount, simInstrCache, then
\* a simMemOpr for each memory operand (none if it is predicated off), or a magic op.
Instruction(eip, rest) ==
  <<[fn |-> "increCount"], [fn |-> "simInstrCache", addr |-> eip]>> \o rest

Rest ==
  {<<>>, <<[fn |-> "ROI_BEGIN"]>>, <<[fn |-> "ROI_END"]>>}
    \cup {[i \in DOMAIN ops |-> [fn |-> "simMemOpr", operand |-> ops[i]]] : ops \in Operands}

\* The program executes its next instruction on t.
Execute(t) ==
  /\ calls[t] = <<>> /\ ~ finished /\ executed < MaxInstrs
  /\ \E eip \in Eips, rest \in Rest :
       calls' = [calls EXCEPT ![t] = Instruction(eip, rest)]
  /\ executed' = executed + 1
  /\ UNCHANGED <<fast_forwarding, insn_count, pinLock, caches, mmu, deleted, pc, chunks,
                 finished, roi_ended>>

At(t, fn) == calls[t] # <<>> /\ Head(calls[t]).fn = fn

MagicOp(t) == At(t, "ROI_BEGIN") \/ At(t, "ROI_END")

Return(t) ==
  /\ calls' = [calls EXCEPT ![t] = Tail(@)]
  /\ pc' = [pc EXCEPT ![t] = "ready"]

\* Mutant of Proceeds: an instruction is fetched even when fast-forwarding.
Proceeds_fetch(t) == MagicOp(t) \/ At(t, "simInstrCache") \/ ~ fast_forwarding

\* The unlocked test each routine but the magic op starts with.
Proceeds(t) == MagicOp(t) \/ ~ fast_forwarding

\* It fails: the routine returns at once.
Skip(t) ==
  /\ pc[t] = "ready" /\ calls[t] # <<>> /\ ~ Proceeds(t)
  /\ Return(t)
  /\ UNCHANGED <<fast_forwarding, insn_count, pinLock, caches, mmu, deleted, chunks,
                 program, roi_ended>>

\* It holds: the routine calls PIN_GetLock.
Enter(t) ==
  /\ pc[t] = "ready" /\ calls[t] # <<>> /\ Proceeds(t)
  /\ pc' = [pc EXCEPT ![t] = "waiting"]
  /\ UNCHANGED <<fast_forwarding, insn_count, pinLock, caches, mmu, deleted, calls, chunks,
                 program, roi_ended>>

GetLock(t) == pc[t] = "waiting" /\ pinLock = NoThread

\* Mutant of Exit: the lock is released before exit(0).
Exit_released(t) == deleted' = TRUE /\ UNCHANGED pinLock /\ Return(t)

\* The end of increCount at the limit: the lock is kept.
Exit(t) ==
  /\ deleted' = TRUE
  /\ pinLock' = t
  /\ pc' = [pc EXCEPT ![t] = "exiting"]
  /\ UNCHANGED calls

increCount(t) ==
  /\ GetLock(t) /\ At(t, "increCount")
  /\ insn_count' = insn_count + 1
  /\ IF insn_count' >= LIMIT THEN Exit(t) ELSE Return(t) /\ UNCHANGED <<deleted, pinLock>>
  /\ UNCHANGED <<fast_forwarding, caches, mmu, chunks, program, roi_ended>>

simInstrCache(t) ==
  /\ GetLock(t) /\ At(t, "simInstrCache")
  /\ LET eip == Head(calls[t]).addr
     IN  \E frame \in Frames : va2pa(eip, frame) /\ H!InstrFetch(blockOf(physical(frame, eip)))
  /\ Return(t)
  /\ UNCHANGED <<fast_forwarding, insn_count, pinLock, deleted, chunks, program, roi_ended>>

\* simMemOpr splits its operand, then takes the lock ...
simMemOpr(t) ==
  /\ GetLock(t) /\ At(t, "simMemOpr")
  /\ LET operand == Head(calls[t]).operand
     IN  chunks' = ChunkAddrs(operand.addr, operand.size)
  /\ pinLock' = t
  /\ pc' = [pc EXCEPT ![t] = "sending"]
  /\ UNCHANGED <<fast_forwarding, insn_count, caches, mmu, deleted, calls, program, roi_ended>>

\* ... and sends a request for each chunk; the lock goes with the last.
sendChunk(t) ==
  /\ pc[t] = "sending"
  /\ \E frame \in Frames :
       LET addr == blockOf(physical(frame, Head(chunks)))
       IN  /\ va2pa(Head(chunks), frame)
           /\ IF Head(calls[t]).operand.is_store THEN H!Store(addr) ELSE H!Load(addr)
  /\ chunks' = Tail(chunks)
  /\ IF Len(chunks) = 1 THEN Return(t) /\ pinLock' = NoThread
     ELSE UNCHANGED <<calls, pc, pinLock>>
  /\ UNCHANGED <<fast_forwarding, insn_count, deleted, program, roi_ended>>

HandleMagicOp(t) ==
  /\ GetLock(t) /\ MagicOp(t)
  /\ fast_forwarding' = At(t, "ROI_END")
  /\ roi_ended' = (roi_ended \/ At(t, "ROI_END"))
  /\ Return(t)
  /\ UNCHANGED <<insn_count, pinLock, caches, mmu, deleted, chunks, program>>

\* The program ends before the limit.
Fini ==
  /\ ~ finished /\ \A t \in Threads : calls[t] = <<>>
  /\ finished' = TRUE /\ deleted' = TRUE
  /\ UNCHANGED <<fast_forwarding, insn_count, pinLock, caches, mmu, calls, pc, chunks,
                 executed, roi_ended>>

\* Nothing else stops the tool.
Terminated == deleted /\ UNCHANGED vars

Next ==
  \/ \E t \in Threads :
       \/ Execute(t) \/ Skip(t) \/ Enter(t)
       \/ increCount(t) \/ simInstrCache(t) \/ simMemOpr(t) \/ sendChunk(t)
       \/ HandleMagicOp(t)
  \/ Fini
  \/ Terminated

Spec == Init /\ [][Next]_vars
-----------------------------------------------------------------------------
\* The caches see one request of the program at a time, of a block that exists: the
\* tool implements the hierarchy that InclusiveHierarchy is about, with all its
\* properties, whatever the threads do.
HierarchySpec == H!Spec

\* The caches and the MMU are not touched once they are deleted, although other
\* threads may wait for the lock to do so.
NoUseAfterDelete == [][deleted => UNCHANGED <<caches, mmu>>]_vars

\* Every block in a cache is in a frame the MMU has given out.
CachedAreMapped ==
  \A c \in Caches : \A b \in H!Cached(c) :
    \E frame \in used_frame_pool : \E va \in 0 .. (page_size - 1) :
      b = blockOf(physical(frame, va))

\* In a program that stays in the ROI the instruction cache has served the
\* instructions counted: only those of each thread under way when it begins
\* (fetched, not counted) and when the count is read (counted, not fetched) differ.
FetchesCounted ==
  ~ roi_ended =>
    /\ insn_count <= accesses["L1I"] + Cardinality(Threads)
    /\ accesses["L1I"] <= insn_count + Cardinality(Threads) - 1
=============================================================================
