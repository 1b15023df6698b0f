------------------------------ MODULE TraceExtr ------------------------------
(***************************************************************************)
(* The trace extractors Workload_Char/trace_extr.cpp and                   *)
(* trace_extr_only_roi.cpp: the analysis routines that Pin calls, on the   *)
(* thread of the program that executes the instruction, before each        *)
(* instruction.  Threads share the ROI flag, the instruction count and the *)
(* trace file; each routine tests a flag without pinLock first and takes   *)
(* the lock after.  The two tools are one program but for the skipping:    *)
(* the second has no fast_forwarding, traces by the ROI flag alone, makes  *)
(* no assertion and has its bpTrace commented out.                         *)
(*                                                                         *)
(* A step is what a thread does between two accesses that another thread   *)
(* can observe: an unlocked test, the wait for the lock, the load and the  *)
(* store of ++insn_count, and the rest of a critical section with the      *)
(* release of the lock.                                                    *)
(***************************************************************************)
EXTENDS Integers, Sequences, FiniteSets

CONSTANTS Threads,
          NoThread,      \* the owner of a free pinLock
          LIMIT,         \* instructions to extract
          roi_skippings, \* instructions of the ROI to skip first: knob -s, or LIMIT
          MaxInstrs      \* bound: instructions the program executes in all

ASSUME ExtractorAssumption ==
  /\ IsFiniteSet(Threads) /\ NoThread \notin Threads
  /\ LIMIT \in Nat \ {0} /\ roi_skippings \in Nat \ {0}
  /\ MaxInstrs \in Nat

Tools == {"trace_extr", "trace_extr_only_roi"}
Tracing == {"bpTrace", "memTrace"}   \* the routines that print a record
Calls == Tracing \cup {"increCount", "nonBranchNorMem", "ROI_BEGIN", "ROI_END"}

\* What instructionSim inserts for an instruction: increCount first, then by its
\* kind.  A memory instruction has a call for each operand it reads or writes,
\* and none of them happens when it is predicated off.
Instructions ==
  {<<"increCount">> \o rest : rest \in
     {<<"nonBranchNorMem">>, <<"bpTrace">>, <<>>, <<"memTrace">>,
      <<"memTrace", "memTrace">>, <<"ROI_BEGIN">>, <<"ROI_END">>}}

\* In trace_extr_only_roi.cpp a branch is an instruction like any other.
OnlyRoiInstructions == Instructions \ {<<"increCount", "bpTrace">>}

VARIABLES
  tool,       \* which of the two runs
  entering_roi, fast_forwarding, insn_count, pinLock, \* the statics of the tool
  num_exes,   \* num_exes[t]: num_exes_before_mem_or_bra of the thread's data
  trace_out,  \* trace_out[t]: that field of the records of t in the file
  closed,     \* the file is closed and exit(0) called
  aborted,    \* an assertion failed: the process is gone
  calls,      \* calls[t]: the analysis calls left of the instruction of t
  pc,         \* pc[t]: where t is in the first of them
  reg,        \* reg[t]: insn_count as ++insn_count of t loaded it
  executed,   \* instructions started, bounded by MaxInstrs
  \* History, for the properties:
  passed,     \* increments of insn_count completed
  extracted,  \* instructions with an effect on the trace
  marked,     \* threads whose present instruction is one of these
  roi_begun,  \* times the program entered the ROI
  roi_ended,  \* the program left the ROI
  observed    \* observed[t]: what t did in tracing mode

statics == <<tool, entering_roi, fast_forwarding, insn_count>>
output == <<num_exes, trace_out, closed, aborted>>
history == <<passed, extracted, marked, roi_begun, roi_ended, observed>>
vars == <<statics, pinLock, output, calls, pc, reg, executed, history>>

TypeOK ==
  /\ tool \in Tools
  /\ entering_roi \in BOOLEAN /\ fast_forwarding \in BOOLEAN /\ insn_count \in Nat
  /\ pinLock \in Threads \cup {NoThread}
  /\ num_exes \in [Threads -> Nat] /\ trace_out \in [Threads -> Seq(Nat)]
  /\ closed \in BOOLEAN /\ aborted \in BOOLEAN
  /\ calls \in [Threads -> Seq(Calls)]
  /\ pc \in [Threads -> {"ready", "waiting", "locked", "loaded", "exiting"}]
  /\ reg \in [Threads -> Nat]
  /\ executed \in Nat
  /\ passed \in Nat /\ extracted \in Nat /\ marked \subseteq Threads
  /\ roi_begun \in Nat /\ roi_ended \in BOOLEAN
  /\ observed \in [Threads -> Seq({"exe", "record"})]

Init ==
  /\ tool \in Tools
  /\ entering_roi = FALSE /\ fast_forwarding = (tool = "trace_extr") /\ insn_count = 0
  /\ pinLock = NoThread
  /\ num_exes = [t \in Threads |-> 0] /\ trace_out = [t \in Threads |-> <<>>]
  /\ closed = FALSE /\ aborted = FALSE
  /\ calls = [t \in Threads |-> <<>>]
  /\ pc = [t \in Threads |-> "ready"]
  /\ reg = [t \in Threads |-> 0]
  /\ executed = 0
  /\ passed = 0 /\ extracted = 0 /\ marked = {} /\ roi_begun = 0 /\ roi_ended = FALSE
  /\ observed = [t \in Threads |-> <<>>]
-----------------------------------------------------------------------------
\* t left a mark of this kind in the trace, or in its pending count.
Mark(t, kind) ==
  /\ extracted' = extracted + (IF t \in marked THEN 0 ELSE 1)
  /\ marked' = marked \cup {t}
  /\ observed' = [observed EXCEPT ![t] = Append(@, kind)]
  /\ UNCHANGED <<passed, roi_begun, roi_ended>>

\* The program executes its next instruction on t.
Execute(t) ==
  /\ calls[t] = <<>> /\ executed < MaxInstrs
  /\ \E instruction \in IF tool = "trace_extr" THEN Instructions ELSE OnlyRoiInstructions :
       calls' = [calls EXCEPT ![t] = instruction]
  /\ executed' = executed + 1
  /\ marked' = marked \ {t}
  /\ UNCHANGED <<statics, pinLock, output, pc, reg, passed, extracted,
                 roi_begun, roi_ended, observed>>

At(t, call) == calls[t] # <<>> /\ Head(calls[t]) = call

\* The unlocked test each routine starts with.
Proceeds(call) ==
  /\ call = "increCount" => entering_roi
  /\ call \in Tracing \cup {"nonBranchNorMem"} =>
       IF tool = "trace_extr" THEN ~ fast_forwarding ELSE entering_roi

Return(t) == calls' = [calls EXCEPT ![t] = Tail(@)]

\* The test fails: the routine returns at once.
Skip(t) ==
  /\ pc[t] = "ready"
  /\ \E call \in Calls : At(t, call) /\ ~ Proceeds(call)
  /\ Return(t)
  /\ UNCHANGED <<statics, pinLock, output, pc, reg, executed, history>>

\* It holds: the routine calls PIN_GetLock.
Enter(t) ==
  /\ pc[t] = "ready"
  /\ \E call \in Calls \ {"nonBranchNorMem"} : At(t, call) /\ Proceeds(call)
  /\ pc' = [pc EXCEPT ![t] = "waiting"]
  /\ UNCHANGED <<statics, pinLock, output, calls, reg, executed, history>>

nonBranchNorMem(t) ==
  /\ pc[t] = "ready"
  /\ At(t, "nonBranchNorMem") /\ Proceeds("nonBranchNorMem")
  /\ num_exes' = [num_exes EXCEPT ![t] = @ + 1]
  /\ Mark(t, "exe")
  /\ Return(t)
  /\ UNCHANGED <<statics, pinLock, trace_out, closed, aborted, pc, reg, executed>>

\* Mutant of GetLock: the lock is not waited for.
GetLock_unlocked(t) ==
  /\ pc[t] = "waiting"
  /\ pinLock' = t
  /\ pc' = [pc EXCEPT ![t] = "locked"]
  /\ UNCHANGED <<statics, output, calls, reg, executed, history>>

GetLock(t) ==
  /\ pc[t] = "waiting" /\ pinLock = NoThread
  /\ pinLock' = t
  /\ pc' = [pc EXCEPT ![t] = "locked"]
  /\ UNCHANGED <<statics, output, calls, reg, executed, history>>

\* Mutant of ReleaseLock: a branch returns without releasing.
ReleaseLock_kept(t) ==
  /\ UNCHANGED pinLock
  /\ pc' = [pc EXCEPT ![t] = "ready"]
  /\ Return(t)

\* PIN_ReleaseLock, and the return of the routine.
ReleaseLock(t) ==
  /\ pinLock' = NoThread
  /\ pc' = [pc EXCEPT ![t] = "ready"]
  /\ Return(t)

\* assert(entering_roi == true), in the extraction branch of trace_extr.cpp.
Asserted == tool = "trace_extr" /\ ~ fast_forwarding => entering_roi

\* increCount under the lock, up to the load of insn_count.
increLoad(t) ==
  /\ pc[t] = "locked" /\ At(t, "increCount")
  /\ IF Asserted
     THEN /\ reg' = [reg EXCEPT ![t] = insn_count]
          /\ pc' = [pc EXCEPT ![t] = "loaded"]
          /\ UNCHANGED aborted
     ELSE /\ aborted' = TRUE
          /\ UNCHANGED <<reg, pc>>
  /\ UNCHANGED <<statics, pinLock, num_exes, trace_out, closed, calls, executed, history>>

\* Mutant of counted: the count runs down.
counted_down(t) == reg[t] - 1

counted(t) == reg[t] + 1
Skipped(t) == fast_forwarding /\ counted(t) >= roi_skippings

\* Mutant of AtLimit: one more instruction than LIMIT.
AtLimit_late(t) == ~ fast_forwarding /\ counted(t) > LIMIT

AtLimit(t) == ~ fast_forwarding /\ counted(t) >= LIMIT

\* Mutant of Exit: the lock is released first.
Exit_released(t) == closed' = TRUE /\ ReleaseLock(t)

\* The file is closed and exit(0) called, with the lock held.
Exit(t) ==
  /\ closed' = TRUE
  /\ pc' = [pc EXCEPT ![t] = "exiting"]
  /\ UNCHANGED <<pinLock, calls>>

\* The store, what the new count decides, and the end of increCount.
increStore(t) ==
  /\ pc[t] = "loaded" /\ At(t, "increCount")
  /\ insn_count' = IF Skipped(t) THEN 0 ELSE counted(t)
  /\ fast_forwarding' = (fast_forwarding /\ ~ Skipped(t))
  /\ IF AtLimit(t) THEN Exit(t) ELSE ReleaseLock(t) /\ UNCHANGED closed
  /\ passed' = passed + 1
  /\ reg' = [reg EXCEPT ![t] = 0]
  /\ UNCHANGED <<tool, entering_roi, num_exes, trace_out, aborted, executed,
                 extracted, marked, roi_begun, roi_ended, observed>>

\* Mutant of traceRecord: the thread's own count is not reset.
traceRecord_unreset(t) ==
  /\ pc[t] = "locked" /\ \E call \in Tracing : At(t, call)
  /\ trace_out' = [trace_out EXCEPT ![t] = Append(@, num_exes[t])]
  /\ Mark(t, "record")
  /\ ReleaseLock(t)
  /\ UNCHANGED <<statics, num_exes, closed, aborted, reg, executed>>

\* memTrace and bpTrace under the lock, with the reset of the thread's own count
\* that follows the release.
traceRecord(t) ==
  /\ pc[t] = "locked" /\ \E call \in Tracing : At(t, call)
  /\ trace_out' = [trace_out EXCEPT ![t] = Append(@, num_exes[t])]
  /\ num_exes' = [num_exes EXCEPT ![t] = 0]
  /\ Mark(t, "record")
  /\ ReleaseLock(t)
  /\ UNCHANGED <<statics, closed, aborted, reg, executed>>

HandleMagicOp(t) ==
  /\ pc[t] = "locked" /\ (At(t, "ROI_BEGIN") \/ At(t, "ROI_END"))
  /\ entering_roi' = At(t, "ROI_BEGIN")
  /\ roi_begun' = roi_begun + (IF ~ entering_roi /\ entering_roi' THEN 1 ELSE 0)
  /\ roi_ended' = (roi_ended \/ At(t, "ROI_END"))
  /\ ReleaseLock(t)
  /\ UNCHANGED <<tool, fast_forwarding, insn_count, output, reg, executed,
                 passed, extracted, marked, observed>>
-----------------------------------------------------------------------------
\* A step of a thread inside the analysis routines.
Analysis(t) ==
  \/ Skip(t) \/ Enter(t) \/ nonBranchNorMem(t) \/ GetLock(t)
  \/ increLoad(t) \/ increStore(t) \/ traceRecord(t) \/ HandleMagicOp(t)

\* The process has ended, or the program has: nothing else may block.
Terminated ==
  /\ closed \/ aborted \/ (executed = MaxInstrs /\ \A t \in Threads : calls[t] = <<>>)
  /\ UNCHANGED vars

Next ==
  \/ ~ aborted /\ \E t \in Threads : Execute(t) \/ Analysis(t)
  \/ Terminated

Spec == Init /\ [][Next]_vars

\* A thread inside an analysis routine is runnable until it waits for the lock.
FairSpec == Spec /\ \A t \in Threads : WF_vars(~ aborted /\ Analysis(t))
-----------------------------------------------------------------------------
\* No increment of ++insn_count is lost between threads, and the two phases hand
\* over exactly: the count restarts after roi_skippings of them, and the tool
\* exits at the LIMIT-th one after that, not before and not later.
CountExact ==
  /\ passed = insn_count + (IF fast_forwarding \/ tool # "trace_extr" THEN 0 ELSE roi_skippings)
  /\ IF fast_forwarding THEN insn_count < roi_skippings
     ELSE IF closed THEN insn_count = LIMIT ELSE insn_count < LIMIT

\* Once the file is closed no thread gets as far as printing a record, which the
\* closed stream would drop: exit(0) keeps the lock (trace_extr.cpp:77-87).
NoRecordLost ==
  closed => \A t \in Threads : ~ (pc[t] = "locked" /\ \E call \in Tracing : At(t, call))

\* The count in a record is the number of instructions of that thread since its
\* last record, so that the file replays what each thread did, in its order.
Before(seq, p) ==   \* the unbroken run of "exe" that ends before position p
  Cardinality({q \in 1 .. (p - 1) : \A r \in q .. (p - 1) : seq[r] = "exe"})

TraceReplays ==
  \A t \in Threads :
    LET did        == observed[t]
        Records(p) == {q \in 1 .. p : did[q] = "record"}
    IN  /\ Len(trace_out[t]) = Cardinality(Records(Len(did)))
        /\ \A p \in Records(Len(did)) : trace_out[t][Cardinality(Records(p))] = Before(did, p)
        /\ num_exes[t] = Before(did, Len(did) + 1)

\* What is extracted beyond the LIMIT - 1 instructions that are counted is what was in
\* flight when extraction began: for trace_extr, as long as the program stays in the ROI,
\* one instruction of each thread when fast-forwarding ended; for trace_extr_only_roi one
\* of each other thread whenever the program enters the ROI.
ExtractionBound ==
  IF tool = "trace_extr"
  THEN ~ roi_ended => extracted <= LIMIT - 1 + Cardinality(Threads)
  ELSE extracted <= LIMIT - 1 + roi_begun * (Cardinality(Threads) - 1)

\* "Maximum of instructions (all threads) to be extracted" (trace_extr.cpp:40).
ExtractionLimit == extracted <= LIMIT

\* assert(entering_roi == true), trace_extr.cpp:73.
AssertionHolds == ~ aborted

\* No routine keeps the lock, unless the process is on its way out.
LockIsReleased ==
  \A t \in Threads : (pinLock = t) ~> (pinLock # t \/ closed \/ aborted)
=============================================================================
