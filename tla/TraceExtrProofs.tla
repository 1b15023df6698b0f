--------------------------- MODULE TraceExtrProofs ---------------------------
(***************************************************************************)
(* Theorems about TraceExtr for any set of threads, any limits and any     *)
(* number of instructions: the lock excludes the threads from each other's *)
(* critical sections, and so the instruction count is exact and nothing is *)
(* printed after the trace file is closed; the records replay the threads, *)
(* and few instructions are extracted beyond the limit.                    *)
(***************************************************************************)
EXTENDS TraceExtr, FiniteSetTheorems, TLAPS

Inside == {"locked", "loaded", "exiting"}   \* where a thread holds pinLock

\* The lock is held by the one thread that is past PIN_GetLock.
LockInv == \A t \in Threads : pc[t] \in Inside <=> pinLock = t

\* Nobody changed insn_count since the thread in ++insn_count loaded it.
LoadInv == \A t \in Threads : pc[t] = "loaded" => reg[t] = insn_count

\* A closed file comes with a thread in exit(0), which holds the lock for ever.
ExitInv ==
  /\ \A t \in Threads : pc[t] = "exiting" => closed
  /\ closed => \E t \in Threads : pc[t] = "exiting"

\* Only trace_extr.cpp skips.
ToolInv == fast_forwarding => tool = "trace_extr"

\* The inductive invariant.
IInv == TypeOK /\ ToolInv /\ LockInv /\ LoadInv /\ ExitInv /\ CountExact

LEMMA InstructionsType == Instructions \subseteq Seq(Calls)
<1> DEFINE Rest == {<<"nonBranchNorMem">>, <<"bpTrace">>, <<>>, <<"memTrace">>,
                    <<"memTrace", "memTrace">>, <<"ROI_BEGIN">>, <<"ROI_END">>}
<1>1. Rest \subseteq Seq(Calls)
  BY DEF Calls, Tracing
<1>2. <<"increCount">> \in Seq(Calls)
  BY DEF Calls
<1>3. \A rest \in Rest : <<"increCount">> \o rest \in Seq(Calls)
  <2> HIDE DEF Rest
  <2> QED BY <1>1, <1>2
<1> QED BY <1>3 DEF Instructions

\* What Pin inserts for an instruction in either tool.
LEMMA ToolInstructions ==
  ASSUME NEW instruction \in IF tool = "trace_extr" THEN Instructions ELSE OnlyRoiInstructions
  PROVE  instruction \in Seq(Calls)
  BY InstructionsType DEF OnlyRoiInstructions

LEMMA TailType ==
  ASSUME NEW s \in Seq(Calls), s # <<>>
  PROVE  Tail(s) \in Seq(Calls)
  OBVIOUS

\* Popping the first call of a thread keeps the type of calls.
LEMMA ReturnType ==
  ASSUME TypeOK, NEW t \in Threads, calls[t] # <<>>, Return(t)
  PROVE  calls' \in [Threads -> Seq(Calls)]
<1>1. Tail(calls[t]) \in Seq(Calls)
  BY TailType DEF TypeOK
<1> QED BY <1>1 DEF Return, TypeOK

LEMMA MarkType ==
  ASSUME TypeOK, NEW t \in Threads, NEW kind \in {"exe", "record"}, Mark(t, kind)
  PROVE  /\ extracted' \in Nat /\ marked' \subseteq Threads
         /\ observed' \in [Threads -> Seq({"exe", "record"})]
         /\ passed' = passed /\ roi_begun' = roi_begun /\ roi_ended' = roi_ended
<1>1. Append(observed[t], kind) \in Seq({"exe", "record"})
  BY DEF TypeOK
<1> QED BY <1>1 DEF Mark, TypeOK

LEMMA InitIInv == Init => IInv
<1> SUFFICES ASSUME Init PROVE IInv
  OBVIOUS
<1>1. TypeOK
  <2>1. /\ trace_out \in [Threads -> Seq(Nat)]
        /\ calls \in [Threads -> Seq(Calls)]
        /\ observed \in [Threads -> Seq({"exe", "record"})]
    BY DEF Init
  <2>2. /\ num_exes \in [Threads -> Nat] /\ reg \in [Threads -> Nat]
        /\ pc \in [Threads -> {"ready", "waiting", "locked", "loaded", "exiting"}]
    BY DEF Init
  <2> QED BY <2>1, <2>2 DEF Init, TypeOK
<1>2. LockInv /\ LoadInv /\ ExitInv
  BY ExtractorAssumption DEF Init, LockInv, LoadInv, ExitInv, Inside
<1>3. fast_forwarding <=> tool = "trace_extr"
  BY DEF Init
<1>4. ToolInv /\ CountExact
  <2>1. insn_count = 0 /\ passed = 0 /\ ~ closed
    BY DEF Init
  <2> QED BY <1>3, <2>1, ExtractorAssumption DEF ToolInv, CountExact
<1> QED BY <1>1, <1>2, <1>4 DEF IInv

LEMMA ExecuteIInv == ASSUME IInv, NEW t \in Threads, Execute(t) PROVE IInv'
<1> USE DEF IInv, Execute, statics, output
<1>1. PICK instruction \in IF tool = "trace_extr" THEN Instructions ELSE OnlyRoiInstructions :
        calls' = [calls EXCEPT ![t] = instruction]
  OBVIOUS
<1>2. calls' \in [Threads -> Seq(Calls)]
  BY <1>1, ToolInstructions DEF TypeOK
<1>3. executed' \in Nat /\ marked' \subseteq Threads
  BY DEF TypeOK
<1>4. TypeOK'
  BY <1>2, <1>3 DEF TypeOK
<1>5. ToolInv' /\ LockInv' /\ LoadInv' /\ ExitInv' /\ CountExact'
  BY DEF ToolInv, LockInv, LoadInv, ExitInv, CountExact
<1> QED BY <1>4, <1>5

LEMMA SkipIInv == ASSUME IInv, NEW t \in Threads, Skip(t) PROVE IInv'
<1> USE DEF IInv, Skip, statics, output, history
<1>1. calls' \in [Threads -> Seq(Calls)]
  BY ReturnType DEF At
<1>2. TypeOK'
  BY <1>1 DEF TypeOK
<1>3. ToolInv' /\ LockInv' /\ LoadInv' /\ ExitInv' /\ CountExact'
  BY DEF ToolInv, LockInv, LoadInv, ExitInv, CountExact
<1> QED BY <1>2, <1>3

LEMMA EnterIInv == ASSUME IInv, NEW t \in Threads, Enter(t) PROVE IInv'
<1> USE DEF IInv, Enter, statics, output, history
<1>1. pc' = [pc EXCEPT ![t] = "waiting"] /\ pc[t] = "ready" /\ DOMAIN pc = Threads
  BY DEF TypeOK
<1>2. TypeOK'
  BY DEF TypeOK
<1>3. ToolInv' /\ LockInv' /\ LoadInv' /\ ExitInv' /\ CountExact'
  BY <1>1 DEF ToolInv, LockInv, LoadInv, ExitInv, CountExact, Inside
<1> QED BY <1>2, <1>3

LEMMA NonBranchIInv == ASSUME IInv, NEW t \in Threads, nonBranchNorMem(t) PROVE IInv'
<1> USE DEF IInv, nonBranchNorMem, statics
<1>1. calls' \in [Threads -> Seq(Calls)]
  BY ReturnType DEF At
<1>2. /\ extracted' \in Nat /\ marked' \subseteq Threads
      /\ observed' \in [Threads -> Seq({"exe", "record"})]
      /\ passed' = passed /\ roi_begun' = roi_begun /\ roi_ended' = roi_ended
  BY MarkType
<1>3. num_exes' \in [Threads -> Nat]
  BY DEF TypeOK
<1>4. TypeOK'
  BY <1>1, <1>2, <1>3 DEF TypeOK
<1>5. ToolInv' /\ LockInv' /\ LoadInv' /\ ExitInv' /\ CountExact'
  BY <1>2 DEF ToolInv, LockInv, LoadInv, ExitInv, CountExact
<1> QED BY <1>4, <1>5

LEMMA GetLockIInv == ASSUME IInv, NEW t \in Threads, GetLock(t) PROVE IInv'
<1> USE DEF IInv, GetLock, statics, output, history
<1>1. /\ pc' = [pc EXCEPT ![t] = "locked"] /\ pc[t] = "waiting" /\ DOMAIN pc = Threads
      /\ pinLock = NoThread /\ pinLock' = t
  BY DEF TypeOK
<1>2. TypeOK'
  BY DEF TypeOK
<1>3. LockInv'
  BY <1>1, ExtractorAssumption DEF LockInv, Inside
<1>4. ToolInv' /\ LoadInv' /\ ExitInv' /\ CountExact'
  BY <1>1 DEF ToolInv, LoadInv, ExitInv, CountExact
<1> QED BY <1>2, <1>3, <1>4

LEMMA LoadIInv == ASSUME IInv, NEW t \in Threads, increLoad(t) PROVE IInv'
<1> USE DEF IInv, increLoad, statics, history
<1>1. CASE Asserted
  <2>1. /\ pc' = [pc EXCEPT ![t] = "loaded"] /\ pc[t] = "locked" /\ DOMAIN pc = Threads
        /\ reg' = [reg EXCEPT ![t] = insn_count] /\ DOMAIN reg = Threads
    BY <1>1 DEF TypeOK
  <2>2. TypeOK'
    BY <1>1 DEF TypeOK
  <2>3. ToolInv' /\ LockInv' /\ LoadInv' /\ ExitInv' /\ CountExact'
    BY <2>1 DEF ToolInv, LockInv, LoadInv, ExitInv, CountExact, Inside
  <2> QED BY <2>2, <2>3
<1>2. CASE ~ Asserted
  <2>1. TypeOK'
    BY <1>2 DEF TypeOK
  <2>2. ToolInv' /\ LockInv' /\ LoadInv' /\ ExitInv' /\ CountExact'
    BY <1>2 DEF ToolInv, LockInv, LoadInv, ExitInv, CountExact
  <2> QED BY <2>1, <2>2
<1> QED BY <1>1, <1>2

\* The thread that stores the count is the only one inside, so that its register
\* is the count and the file is still open.
LEMMA StoreIInv == ASSUME IInv, NEW t \in Threads, increStore(t) PROVE IInv'
<1> USE DEF IInv
<1>1. /\ pc[t] = "loaded" /\ calls[t] # <<>> /\ pinLock = t
      /\ counted(t) = insn_count + 1
      /\ \A u \in Threads : u # t => pc[u] \notin Inside
      /\ ~ closed
  BY DEF increStore, At, LockInv, LoadInv, ExitInv, Inside, counted
<1>2. /\ insn_count \in Nat /\ passed \in Nat /\ fast_forwarding \in BOOLEAN
      /\ DOMAIN pc = Threads
  BY DEF TypeOK
<1>3. /\ insn_count' = IF Skipped(t) THEN 0 ELSE insn_count + 1
      /\ fast_forwarding' = (fast_forwarding /\ ~ Skipped(t))
      /\ Skipped(t) <=> fast_forwarding /\ insn_count + 1 >= roi_skippings
      /\ AtLimit(t) <=> ~ fast_forwarding /\ insn_count + 1 >= LIMIT
      /\ Skipped(t) \in BOOLEAN
  BY <1>1 DEF increStore, Skipped, AtLimit
<1>4. passed' \in Nat /\ passed' = passed + 1 /\ tool' = tool
  BY <1>2 DEF increStore
<1>5. ToolInv'
  BY <1>2, <1>3, <1>4 DEF ToolInv
<1>6. CASE AtLimit(t)
  <2>1. /\ closed' = TRUE /\ pc' = [pc EXCEPT ![t] = "exiting"]
        /\ pinLock' = pinLock /\ calls' = calls
    BY <1>6 DEF increStore, Exit
  <2>2. TypeOK'
    BY <1>2, <1>3, <1>4, <2>1 DEF TypeOK, increStore
  <2>3. LockInv' /\ ExitInv' /\ LoadInv'
    BY <1>1, <1>2, <2>1 DEF LockInv, ExitInv, LoadInv, Inside
  <2>4. CountExact'
    BY <1>1, <1>2, <1>3, <1>4, <1>6, <2>1, ExtractorAssumption DEF CountExact
  <2> QED BY <1>5, <2>2, <2>3, <2>4
<1>7. CASE ~ AtLimit(t)
  <2>1. /\ closed' = closed /\ pc' = [pc EXCEPT ![t] = "ready"]
        /\ pinLock' = NoThread /\ Return(t)
    BY <1>7 DEF increStore, ReleaseLock
  <2>2. calls' \in [Threads -> Seq(Calls)]
    BY <1>1, <2>1, ReturnType
  <2>3. TypeOK'
    <3>1. insn_count' \in Nat /\ fast_forwarding' \in BOOLEAN
      BY <1>2, <1>3
    <3>2. /\ reg' \in [Threads -> Nat]
          /\ pc' \in [Threads -> {"ready", "waiting", "locked", "loaded", "exiting"}]
      BY <2>1 DEF TypeOK, increStore
    <3> QED BY <1>4, <2>1, <2>2, <3>1, <3>2 DEF TypeOK, increStore
  <2>4. LockInv' /\ ExitInv' /\ LoadInv'
    BY <1>1, <1>2, <2>1, ExtractorAssumption DEF LockInv, ExitInv, LoadInv, Inside
  <2>5. roi_skippings \in Nat \ {0} /\ LIMIT \in Nat \ {0}
    BY ExtractorAssumption
  <2>6. CountExact'
    <3>1. CASE fast_forwarding /\ insn_count + 1 >= roi_skippings
      <4>1. Skipped(t)
        BY <1>3, <3>1
      <4>2. insn_count' = 0 /\ ~ fast_forwarding'
        BY <1>3, <4>1
      <4>3. insn_count + 1 = roi_skippings /\ passed = insn_count /\ tool = "trace_extr"
        BY <1>2, <2>5, <3>1 DEF CountExact, ToolInv
      <4> QED BY <1>1, <1>4, <2>1, <2>5, <4>2, <4>3 DEF CountExact
    <3>2. CASE fast_forwarding /\ ~ (insn_count + 1 >= roi_skippings)
      <4>1. ~ Skipped(t)
        BY <1>3, <3>2
      <4>2. insn_count' = insn_count + 1 /\ fast_forwarding'
        BY <1>3, <3>2, <4>1
      <4> QED BY <1>1, <1>2, <1>4, <2>1, <2>5, <3>2, <4>2 DEF CountExact
    <3>3. CASE ~ fast_forwarding
      <4>1. ~ Skipped(t) /\ ~ (insn_count + 1 >= LIMIT)
        BY <1>3, <1>7, <3>3
      <4>2. insn_count' = insn_count + 1 /\ ~ fast_forwarding'
        BY <1>3, <3>3, <4>1
      <4> QED BY <1>1, <1>2, <1>4, <2>1, <2>5, <3>3, <4>1, <4>2 DEF CountExact
    <3> QED BY <3>1, <3>2, <3>3
  <2> QED BY <1>5, <2>3, <2>4, <2>6
<1> QED BY <1>6, <1>7

\* Leaving a critical section that neither counts nor exits.
LEMMA ReleaseInvs ==
  ASSUME IInv, NEW t \in Threads, pc[t] = "locked", ReleaseLock(t),
         UNCHANGED <<reg, insn_count, closed>>
  PROVE  LockInv' /\ LoadInv' /\ ExitInv'
<1>1. /\ pc' = [pc EXCEPT ![t] = "ready"] /\ DOMAIN pc = Threads
      /\ pinLock = t /\ pinLock' = NoThread
  BY DEF IInv, TypeOK, LockInv, Inside, ReleaseLock
<1> QED BY <1>1, ExtractorAssumption DEF IInv, LockInv, LoadInv, ExitInv, Inside

LEMMA RecordIInv == ASSUME IInv, NEW t \in Threads, traceRecord(t) PROVE IInv'
<1> USE DEF IInv, traceRecord, statics
<1>1. calls' \in [Threads -> Seq(Calls)]
  BY ReturnType DEF At, ReleaseLock
<1>2. /\ extracted' \in Nat /\ marked' \subseteq Threads
      /\ observed' \in [Threads -> Seq({"exe", "record"})]
      /\ passed' = passed /\ roi_begun' = roi_begun /\ roi_ended' = roi_ended
  BY MarkType
<1>3. num_exes' \in [Threads -> Nat] /\ trace_out' \in [Threads -> Seq(Nat)]
  BY DEF TypeOK
<1>4. TypeOK'
  BY <1>1, <1>2, <1>3 DEF TypeOK, ReleaseLock
<1>5. LockInv' /\ LoadInv' /\ ExitInv'
  BY ReleaseInvs
<1>6. ToolInv' /\ CountExact'
  BY <1>2 DEF ToolInv, CountExact
<1> QED BY <1>4, <1>5, <1>6

LEMMA MagicIInv == ASSUME IInv, NEW t \in Threads, HandleMagicOp(t) PROVE IInv'
<1> USE DEF IInv, HandleMagicOp, statics, output
<1>1. calls' \in [Threads -> Seq(Calls)]
  BY ReturnType DEF At, ReleaseLock
<1>2. passed' = passed /\ roi_begun' \in Nat /\ roi_ended' \in BOOLEAN
  BY DEF TypeOK, At
<1>3. entering_roi' \in BOOLEAN
  BY DEF At
<1>4. TypeOK'
  BY <1>1, <1>2, <1>3 DEF TypeOK, ReleaseLock
<1>5. LockInv' /\ LoadInv' /\ ExitInv'
  BY ReleaseInvs
<1>6. ToolInv' /\ CountExact'
  BY <1>2 DEF ToolInv, CountExact
<1> QED BY <1>4, <1>5, <1>6

LEMMA NextIInv == IInv /\ [Next]_vars => IInv'
<1> SUFFICES ASSUME IInv, [Next]_vars PROVE IInv'
  OBVIOUS
<1>1. ASSUME NEW t \in Threads, Execute(t) PROVE IInv'
  BY <1>1, ExecuteIInv
<1>2. ASSUME NEW t \in Threads, Analysis(t) PROVE IInv'
  BY <1>2, SkipIInv, EnterIInv, NonBranchIInv, GetLockIInv, LoadIInv, StoreIInv,
     RecordIInv, MagicIInv DEF Analysis
<1>3. CASE UNCHANGED vars
  BY <1>3 DEF IInv, TypeOK, ToolInv, LockInv, LoadInv, ExitInv, CountExact, vars, statics, output, history
<1> QED BY <1>1, <1>2, <1>3 DEF Next, Terminated

LEMMA SpecIInv == Spec => []IInv
  BY InitIInv, NextIInv, PTL DEF Spec

-----------------------------------------------------------------------------
Kinds == {"exe", "record"}

\* The positions that Before counts, and those of the records up to p.
Run(seq, p) == {q \in 1 .. (p - 1) : \A r \in q .. (p - 1) : seq[r] = "exe"}
RecordsTo(seq, p) == {q \in 1 .. p : seq[q] = "record"}

\* TraceReplays of one thread, which did seq, with its records out and its count n.
Replays(seq, out, n) ==
  /\ Len(out) = Cardinality(RecordsTo(seq, Len(seq)))
  /\ \A p \in RecordsTo(seq, Len(seq)) : out[Cardinality(RecordsTo(seq, p))] = Before(seq, p)
  /\ n = Before(seq, Len(seq) + 1)

LEMMA RunFinite ==
  ASSUME NEW s, NEW p \in Nat
  PROVE  /\ IsFiniteSet(Run(s, p)) /\ Before(s, p) = Cardinality(Run(s, p))
         /\ Before(s, p) \in Nat
<1>1. IsFiniteSet(1 .. (p - 1))
  BY FS_Interval
<1>2. Run(s, p) \subseteq 1 .. (p - 1)
  BY DEF Run
<1>3. IsFiniteSet(Run(s, p))
  BY <1>1, <1>2, FS_Subset
<1>4. Before(s, p) = Cardinality(Run(s, p))
  BY DEF Before, Run
<1> QED BY <1>3, <1>4, FS_CardinalityType

LEMMA RecordsFinite ==
  ASSUME NEW s, NEW p \in Nat
  PROVE  IsFiniteSet(RecordsTo(s, p)) /\ Cardinality(RecordsTo(s, p)) \in Nat
<1>1. IsFiniteSet(1 .. p) /\ RecordsTo(s, p) \subseteq 1 .. p
  BY FS_Interval DEF RecordsTo
<1>2. IsFiniteSet(RecordsTo(s, p))
  BY <1>1, FS_Subset
<1> QED BY <1>2, FS_CardinalityType

LEMMA AppendKinds ==
  ASSUME NEW s \in Seq(Kinds), NEW k \in Kinds
  PROVE  /\ Append(s, k) \in Seq(Kinds) /\ Len(s) \in Nat /\ Len(Append(s, k)) = Len(s) + 1
         /\ \A r \in 1 .. Len(s) : Append(s, k)[r] = s[r]
         /\ Append(s, k)[Len(s) + 1] = k
  OBVIOUS

\* What a thread did stays counted as it was when it does more ...
LEMMA Kept ==
  ASSUME NEW s \in Seq(Kinds), NEW k \in Kinds
  PROVE  /\ \A p \in 1 .. (Len(s) + 1) : Before(Append(s, k), p) = Before(s, p)
         /\ \A p \in 0 .. Len(s) : RecordsTo(Append(s, k), p) = RecordsTo(s, p)
<1> DEFINE a == Append(s, k)
<1>1. Len(s) \in Nat /\ \A r \in 1 .. Len(s) : a[r] = s[r]
  BY AppendKinds
<1> HIDE DEF a
<1>2. ASSUME NEW p \in 1 .. (Len(s) + 1)
      PROVE  Before(a, p) = Before(s, p)
  <2>1. \A q \in 1 .. (p - 1) : \A r \in q .. (p - 1) : a[r] = s[r]
    BY <1>1
  <2> QED BY <2>1 DEF Before
<1>3. ASSUME NEW p \in 0 .. Len(s)
      PROVE  RecordsTo(a, p) = RecordsTo(s, p)
  BY <1>1 DEF RecordsTo
<1> QED BY <1>2, <1>3 DEF a

\* ... another instruction makes the run before the end one longer ...
LEMMA BeforeExe ==
  ASSUME NEW s \in Seq(Kinds)
  PROVE  Before(Append(s, "exe"), Len(s) + 2) = Before(s, Len(s) + 1) + 1
<1> DEFINE a == Append(s, "exe")
           n == Len(s)
<1>1. n \in Nat /\ (\A r \in 1 .. n : a[r] = s[r]) /\ a[n + 1] = "exe"
  BY AppendKinds DEF Kinds
<1> HIDE DEF a, n
<1>2. n + 1 \in Nat /\ n + 2 \in Nat /\ (n + 1) - 1 = n /\ (n + 2) - 1 = n + 1
  BY <1>1
<1>3. ASSUME NEW q \in 1 .. n
      PROVE  q \in Run(a, n + 2) <=> q \in Run(s, n + 1)
  <2>1. q \in 1 .. (n + 1) /\ \A r \in q .. (n + 1) : r = n + 1 \/ (r \in q .. n /\ a[r] = s[r])
    BY <1>1
  <2>2. \A r \in q .. n : r \in q .. (n + 1)
    BY <1>1
  <2> QED BY <1>1, <1>2, <2>1, <2>2 DEF Run
<1>4. n + 1 \in Run(a, n + 2)
  <2>1. n + 1 \in 1 .. (n + 1) /\ \A r \in (n + 1) .. (n + 1) : r = n + 1
    BY <1>1
  <2> QED BY <1>1, <1>2, <2>1 DEF Run
<1>5. Run(a, n + 2) \subseteq 1 .. (n + 1) /\ Run(s, n + 1) \subseteq 1 .. n
  BY <1>2 DEF Run
<1>6. \A q \in 1 .. (n + 1) : q = n + 1 \/ q \in 1 .. n
  BY <1>1
<1>7. n + 1 \notin Run(s, n + 1)
  BY <1>1, <1>5
<1>8. Run(a, n + 2) = Run(s, n + 1) \cup {n + 1}
  BY <1>3, <1>4, <1>5, <1>6
<1>9. IsFiniteSet(Run(s, n + 1))
  BY <1>2, RunFinite
<1>10. Cardinality(Run(a, n + 2)) = Cardinality(Run(s, n + 1)) + 1
  BY <1>7, <1>8, <1>9, FS_AddElement
<1> QED BY <1>2, <1>10, RunFinite DEF a, n

\* ... and a record ends it.
LEMMA BeforeRecord ==
  ASSUME NEW s \in Seq(Kinds)
  PROVE  Before(Append(s, "record"), Len(s) + 2) = 0
<1> DEFINE a == Append(s, "record")
           n == Len(s)
<1>1. n \in Nat /\ a[n + 1] = "record"
  BY AppendKinds DEF Kinds
<1> HIDE DEF a, n
<1>2. n + 2 \in Nat /\ (n + 2) - 1 = n + 1
  BY <1>1
<1>3. \A q \in 1 .. (n + 1) : n + 1 \in q .. (n + 1)
  BY <1>1
<1>4. Run(a, n + 2) = {}
  BY <1>1, <1>2, <1>3 DEF Run
<1>5. Cardinality(Run(a, n + 2)) = 0
  BY <1>4, FS_EmptySet
<1> QED BY <1>2, <1>5, RunFinite DEF a, n

LEMMA RecordsExe ==
  ASSUME NEW s \in Seq(Kinds)
  PROVE  RecordsTo(Append(s, "exe"), Len(s) + 1) = RecordsTo(s, Len(s))
<1> DEFINE a == Append(s, "exe")
<1>1. PICK n \in Nat : n = Len(s)
  BY AppendKinds DEF Kinds
<1>2. (\A r \in 1 .. n : a[r] = s[r]) /\ a[n + 1] = "exe"
  BY <1>1, AppendKinds DEF Kinds
<1> HIDE DEF a
<1>3. \A q \in 1 .. (n + 1) : q = n + 1 \/ q \in 1 .. n
  OBVIOUS
<1>4. \A q \in 1 .. n : q \in 1 .. (n + 1)
  OBVIOUS
<1>5. RecordsTo(a, n + 1) = RecordsTo(s, n)
  BY <1>2, <1>3, <1>4 DEF RecordsTo
<1> QED BY <1>1, <1>5 DEF a

LEMMA RecordsRecord ==
  ASSUME NEW s \in Seq(Kinds)
  PROVE  RecordsTo(Append(s, "record"), Len(s) + 1) = RecordsTo(s, Len(s)) \cup {Len(s) + 1}
<1> DEFINE a == Append(s, "record")
<1>1. PICK n \in Nat : n = Len(s)
  BY AppendKinds DEF Kinds
<1>2. (\A r \in 1 .. n : a[r] = s[r]) /\ a[n + 1] = "record"
  BY <1>1, AppendKinds DEF Kinds
<1> HIDE DEF a
<1>3. (\A q \in 1 .. (n + 1) : q = n + 1 \/ q \in 1 .. n) /\ n + 1 \in 1 .. (n + 1)
  OBVIOUS
<1>4. \A q \in 1 .. n : q \in 1 .. (n + 1)
  OBVIOUS
<1>5. RecordsTo(a, n + 1) = RecordsTo(s, n) \cup {n + 1}
  BY <1>2, <1>3, <1>4 DEF RecordsTo
<1> QED BY <1>1, <1>5 DEF a

\* An instruction without a record adds to the count of the thread ...
LEMMA ReplaysExe ==
  ASSUME NEW s \in Seq(Kinds), NEW out \in Seq(Nat), NEW n \in Nat, Replays(s, out, n)
  PROVE  Replays(Append(s, "exe"), out, n + 1)
<1> DEFINE a == Append(s, "exe")
<1>1. PICK l \in Nat : l = Len(s)
  BY AppendKinds DEF Kinds
<1>2. Len(a) = l + 1 /\ "exe" \in Kinds
  BY <1>1, AppendKinds DEF Kinds
<1>3. RecordsTo(a, l + 1) = RecordsTo(s, l) /\ Before(a, l + 2) = Before(s, l + 1) + 1
  BY <1>1, RecordsExe, BeforeExe
<1>4. \A p \in RecordsTo(s, l) : RecordsTo(a, p) = RecordsTo(s, p) /\ Before(a, p) = Before(s, p)
  <2>1. \A p \in RecordsTo(s, l) : p \in 0 .. l /\ p \in 1 .. (l + 1)
    BY DEF RecordsTo
  <2> QED BY <1>1, <1>2, <2>1, Kept
<1>5. (l + 1) + 1 = l + 2
  OBVIOUS
<1> HIDE DEF a
<1>6. /\ Len(out) = Cardinality(RecordsTo(s, l))
      /\ \A p \in RecordsTo(s, l) : out[Cardinality(RecordsTo(s, p))] = Before(s, p)
      /\ n = Before(s, l + 1)
  BY <1>1 DEF Replays
<1>7. Replays(a, out, n + 1)
  BY <1>2, <1>3, <1>4, <1>5, <1>6 DEF Replays
<1> QED BY <1>7 DEF a

\* ... and a record prints the count and starts it again.
LEMMA ReplaysRecord ==
  ASSUME NEW s \in Seq(Kinds), NEW out \in Seq(Nat), NEW n \in Nat, Replays(s, out, n)
  PROVE  Replays(Append(s, "record"), Append(out, n), 0)
<1> DEFINE a == Append(s, "record")
           o == Append(out, n)
<1>1. PICK l \in Nat : l = Len(s)
  BY AppendKinds DEF Kinds
<1>2. Len(a) = l + 1 /\ "record" \in Kinds
  BY <1>1, AppendKinds DEF Kinds
<1>3. RecordsTo(a, l + 1) = RecordsTo(s, l) \cup {l + 1} /\ Before(a, l + 2) = 0
  BY <1>1, RecordsRecord, BeforeRecord
<1>4. \A p \in RecordsTo(s, l) : RecordsTo(a, p) = RecordsTo(s, p) /\ Before(a, p) = Before(s, p)
  <2>1. \A p \in RecordsTo(s, l) : p \in 0 .. l /\ p \in 1 .. (l + 1)
    BY DEF RecordsTo
  <2> QED BY <1>1, <1>2, <2>1, Kept
<1>5. (l + 1) + 1 = l + 2 /\ l + 1 \in 1 .. (l + 1)
  OBVIOUS
<1>6. PICK m \in Nat : m = Len(out)
  OBVIOUS
<1>7. Len(o) = m + 1 /\ o[m + 1] = n /\ \A i \in 1 .. m : o[i] = out[i]
  BY <1>6
<1>8. Before(a, l + 1) = n
  <2>1. Before(a, l + 1) = Before(s, l + 1)
    BY <1>1, <1>2, <1>5, Kept
  <2> QED BY <1>1, <2>1 DEF Replays
<1> HIDE DEF a, o
<1>9. /\ m = Cardinality(RecordsTo(s, l))
      /\ \A p \in RecordsTo(s, l) : out[Cardinality(RecordsTo(s, p))] = Before(s, p)
  BY <1>1, <1>6 DEF Replays
<1>10. Cardinality(RecordsTo(a, l + 1)) = m + 1
  <2>1. l + 1 \notin RecordsTo(s, l)
    BY DEF RecordsTo
  <2>2. IsFiniteSet(RecordsTo(s, l))
    BY RecordsFinite
  <2> QED BY <1>3, <1>9, <2>1, <2>2, FS_AddElement
<1>11. ASSUME NEW p \in RecordsTo(s, l)
       PROVE  Cardinality(RecordsTo(s, p)) \in 1 .. m
  <2>1. p \in 1 .. l /\ p \in Nat /\ p \in RecordsTo(s, p) /\ RecordsTo(s, p) \subseteq RecordsTo(s, l)
    BY DEF RecordsTo
  <2>2. /\ IsFiniteSet(RecordsTo(s, p)) /\ Cardinality(RecordsTo(s, p)) \in Nat
        /\ IsFiniteSet(RecordsTo(s, l))
    BY <2>1, RecordsFinite
  <2>3. Cardinality(RecordsTo(s, p)) <= Cardinality(RecordsTo(s, l))
    BY <2>1, <2>2, FS_Subset
  <2>4. Cardinality(RecordsTo(s, p)) # 0
    BY <2>1, <2>2, FS_EmptySet
  <2> QED BY <1>9, <2>2, <2>3, <2>4
<1>12. ASSUME NEW p \in RecordsTo(a, l + 1)
       PROVE  o[Cardinality(RecordsTo(a, p))] = Before(a, p)
  <2>1. CASE p = l + 1
    BY <1>7, <1>8, <1>10, <2>1
  <2>2. CASE p \in RecordsTo(s, l)
    BY <1>4, <1>7, <1>9, <1>11, <2>2
  <2> QED BY <1>3, <2>1, <2>2
<1>13. Replays(a, o, 0)
  BY <1>2, <1>3, <1>5, <1>7, <1>10, <1>12 DEF Replays
<1> QED BY <1>13 DEF a, o

\* The count of each thread and its records go with what it did.
ReplayInv == \A t \in Threads : Replays(observed[t], trace_out[t], num_exes[t])

LEMMA ReplaysStart == Replays(<<>>, <<>>, 0)
<1>1. RecordsTo(<<>>, 0) = {} /\ Run(<<>>, 1) = {}
  BY DEF RecordsTo, Run
<1>2. Cardinality({}) = 0
  BY FS_EmptySet
<1>3. Before(<<>>, 1) = 0
  BY <1>1, <1>2, RunFinite
<1>4. Len(<<>>) = 0 /\ 0 + 1 = 1
  OBVIOUS
<1> QED BY <1>1, <1>2, <1>3, <1>4 DEF Replays

LEMMA InitReplay == Init => ReplayInv
  BY ReplaysStart DEF Init, ReplayInv

LEMMA NextReplay == IInv /\ ReplayInv /\ [Next]_vars => ReplayInv'
<1> SUFFICES ASSUME IInv, ReplayInv, [Next]_vars PROVE ReplayInv'
  OBVIOUS
<1>1. /\ observed \in [Threads -> Seq(Kinds)] /\ trace_out \in [Threads -> Seq(Nat)]
      /\ num_exes \in [Threads -> Nat]
  BY DEF IInv, TypeOK, Kinds
<1>2. ASSUME UNCHANGED <<observed, trace_out, num_exes>> PROVE ReplayInv'
  BY <1>2 DEF ReplayInv
<1>3. ASSUME NEW t \in Threads, nonBranchNorMem(t) PROVE ReplayInv'
  <2>1. /\ observed' = [observed EXCEPT ![t] = Append(observed[t], "exe")]
        /\ num_exes' = [num_exes EXCEPT ![t] = num_exes[t] + 1] /\ trace_out' = trace_out
    BY <1>3 DEF nonBranchNorMem, Mark
  <2>2. Replays(Append(observed[t], "exe"), trace_out[t], num_exes[t] + 1)
    BY <1>1, ReplaysExe DEF ReplayInv
  <2>3. ASSUME NEW u \in Threads
        PROVE  Replays(observed'[u], trace_out'[u], num_exes'[u])
    <3>1. CASE u = t
      BY <1>1, <2>1, <2>2, <3>1
    <3>2. CASE u # t
      BY <1>1, <2>1, <3>2 DEF ReplayInv
    <3> QED BY <3>1, <3>2
  <2> QED BY <2>3 DEF ReplayInv
<1>4. ASSUME NEW t \in Threads, traceRecord(t) PROVE ReplayInv'
  <2>1. /\ observed' = [observed EXCEPT ![t] = Append(observed[t], "record")]
        /\ num_exes' = [num_exes EXCEPT ![t] = 0]
        /\ trace_out' = [trace_out EXCEPT ![t] = Append(trace_out[t], num_exes[t])]
    BY <1>4 DEF traceRecord, Mark
  <2>2. Replays(Append(observed[t], "record"), Append(trace_out[t], num_exes[t]), 0)
    BY <1>1, ReplaysRecord DEF ReplayInv
  <2>3. ASSUME NEW u \in Threads
        PROVE  Replays(observed'[u], trace_out'[u], num_exes'[u])
    <3>1. CASE u = t
      BY <1>1, <2>1, <2>2, <3>1
    <3>2. CASE u # t
      BY <1>1, <2>1, <3>2 DEF ReplayInv
    <3> QED BY <3>1, <3>2
  <2> QED BY <2>3 DEF ReplayInv
<1>5. ASSUME NEW t \in Threads, Execute(t) PROVE ReplayInv'
  BY <1>2, <1>5 DEF Execute, output
<1>6. ASSUME NEW t \in Threads, Analysis(t) PROVE ReplayInv'
  <2>1. \/ nonBranchNorMem(t) \/ traceRecord(t)
        \/ UNCHANGED <<observed, trace_out, num_exes>>
    BY <1>6 DEF Analysis, Skip, Enter, GetLock, increLoad, increStore, HandleMagicOp,
       output, history
  <2> QED BY <1>2, <1>3, <1>4, <2>1
<1>7. CASE UNCHANGED vars
  BY <1>2, <1>7 DEF vars, output, history
<1> QED BY <1>5, <1>6, <1>7 DEF Next, Terminated

LEMMA SpecReplay == Spec => []ReplayInv
<1>1. Spec => [](IInv /\ ReplayInv)
  BY InitIInv, NextIInv, InitReplay, NextReplay, PTL DEF Spec
<1> QED BY <1>1, PTL

-----------------------------------------------------------------------------
\* increCount comes first in an instruction, a magic op last.
CallOrder(c) ==
  \A i \in 1 .. Len(c) :
    /\ c[i] = "increCount" => i = 1
    /\ c[i] \in {"ROI_BEGIN", "ROI_END"} => i = Len(c)

\* A thread leaves its first mark of an instruction after increCount.
CallsInv ==
  \A t \in Threads :
    /\ CallOrder(calls[t])
    /\ pc[t] # "ready" => calls[t] # <<>>
    /\ At(t, "increCount") => t \notin marked

\* Until the program leaves the ROI, trace_extr counts and extracts inside it only.
RoiInv ==
  tool = "trace_extr" /\ ~ roi_ended =>
    /\ entering_roi \/ fast_forwarding
    /\ ~ entering_roi => \A t \in Threads : pc[t] # "ready" => ~ At(t, "increCount")

\* The routines that trace pass their unlocked test.
TracingOn == IF tool = "trace_extr" THEN ~ fast_forwarding ELSE entering_roi

\* t is past increCount, and its instruction can be the next to leave a first mark:
\* t can still pass the test, or has.
IsComing(t) ==
  /\ calls[t] # <<>> /\ Head(calls[t]) # "increCount" /\ t \notin marked
  /\ TracingOn \/ (pc[t] # "ready" /\ Head(calls[t]) \in Tracing)

Coming == {t \in Threads : IsComing(t)}

\* The increments after which an instruction goes on: the one that exits does not.
Admitted == IF closed THEN LIMIT - 1 ELSE insn_count

\* The instructions under way when tracing was switched on.
UnderWay ==
  IF tool = "trace_extr" THEN Cardinality(Threads) ELSE roi_begun * (Cardinality(Threads) - 1)

Watched == tool = "trace_extr" => ~ roi_ended

\* Each instruction extracted, or about to be, was admitted by increCount or was under
\* way when tracing was switched on.
FlightInv ==
  Watched => IF fast_forwarding THEN extracted = 0 /\ Coming = {}
             ELSE extracted + Cardinality(Coming) <= Admitted + UnderWay

ExtractInv == CallsInv /\ RoiInv /\ FlightInv

LEMMA TailOrder ==
  ASSUME NEW c \in Seq(Calls), c # <<>>, CallOrder(c)
  PROVE  /\ CallOrder(Tail(c))
         /\ Tail(c) # <<>> => Head(Tail(c)) # "increCount"
         /\ Head(c) \in {"ROI_BEGIN", "ROI_END"} => Tail(c) = <<>>
<1> DEFINE d == Tail(c)
<1>1. PICK n \in Nat : n = Len(c)
  OBVIOUS
<1>2. /\ n >= 1 /\ Len(d) = n - 1 /\ (\A i \in 1 .. (n - 1) : d[i] = c[i + 1])
      /\ Head(c) = c[1] /\ (n = 1 => d = <<>>) /\ (d # <<>> => n > 1 /\ Head(d) = d[1])
  BY <1>1
<1>3. \A i \in 1 .. n : /\ c[i] = "increCount" => i = 1
                        /\ c[i] \in {"ROI_BEGIN", "ROI_END"} => i = n
  BY <1>1 DEF CallOrder
<1> HIDE DEF d
<1>4. ASSUME NEW i \in 1 .. (n - 1)
      PROVE  /\ d[i] # "increCount"
             /\ d[i] \in {"ROI_BEGIN", "ROI_END"} => i = n - 1
  <2>1. i + 1 \in 1 .. n /\ i + 1 # 1 /\ (i + 1 = n => i = n - 1) /\ d[i] = c[i + 1]
    BY <1>2
  <2> QED BY <1>3, <2>1
<1>5. CallOrder(d)
  BY <1>2, <1>4 DEF CallOrder
<1>6. n > 1 => 1 \in 1 .. (n - 1)
  OBVIOUS
<1>7. Head(c) \in {"ROI_BEGIN", "ROI_END"} => d = <<>>
  <2>1. 1 \in 1 .. n
    BY <1>2
  <2> QED BY <1>2, <1>3, <2>1
<1>8. d # <<>> => Head(d) # "increCount"
  BY <1>2, <1>4, <1>6
<1> QED BY <1>5, <1>7, <1>8 DEF d

LEMMA InstructionOrder ==
  ASSUME NEW c \in Instructions
  PROVE  CallOrder(c) /\ c # <<>> /\ Head(c) = "increCount"
<1>1. \/ c = <<"increCount", "nonBranchNorMem">> \/ c = <<"increCount", "bpTrace">>
      \/ c = <<"increCount">> \/ c = <<"increCount", "memTrace">>
      \/ c = <<"increCount", "memTrace", "memTrace">>
      \/ c = <<"increCount", "ROI_BEGIN">> \/ c = <<"increCount", "ROI_END">>
  BY DEF Instructions
<1>2. c # <<>> /\ Head(c) = "increCount"
  BY <1>1
<1>3. /\ Len(c) \in 1 .. 3 /\ c[1] = "increCount"
      /\ Len(c) = 2 => c[2] # "increCount"
      /\ Len(c) = 3 => c[2] = "memTrace" /\ c[3] = "memTrace"
  BY <1>1
<1>4. \A i \in 1 .. Len(c) : i = 1 \/ (i = 2 /\ Len(c) \in {2, 3}) \/ (i = 3 /\ Len(c) = 3)
  BY <1>3
<1>5. ASSUME NEW i \in 1 .. Len(c)
      PROVE  /\ c[i] = "increCount" => i = 1
             /\ c[i] \in {"ROI_BEGIN", "ROI_END"} => i = Len(c)
  BY <1>3, <1>4
<1> QED BY <1>2, <1>5 DEF CallOrder

\* A step of t leaves the other threads where they are.
LEMMA StepIsLocal ==
  ASSUME IInv, NEW t \in Threads, Execute(t) \/ Analysis(t)
  PROVE  /\ tool' = tool
         /\ \A u \in Threads \ {t} :
              calls'[u] = calls[u] /\ pc'[u] = pc[u] /\ (u \in marked' <=> u \in marked)
<1>1. DOMAIN calls = Threads /\ DOMAIN pc = Threads
  BY DEF IInv, TypeOK
<1>2. CASE Execute(t)
  BY <1>1, <1>2 DEF Execute, statics
<1>3. CASE Skip(t) \/ Enter(t) \/ GetLock(t)
  BY <1>1, <1>3 DEF Skip, Enter, GetLock, Return, statics, history
<1>4. CASE nonBranchNorMem(t)
  BY <1>1, <1>4 DEF nonBranchNorMem, Mark, Return, statics
<1>5. CASE traceRecord(t)
  BY <1>1, <1>5 DEF traceRecord, Mark, ReleaseLock, Return, statics
<1>6. CASE increLoad(t)
  BY <1>1, <1>6 DEF increLoad, statics, history
<1>7. CASE increStore(t)
  BY <1>1, <1>7 DEF increStore, Exit, ReleaseLock, Return
<1>8. CASE HandleMagicOp(t)
  BY <1>1, <1>8 DEF HandleMagicOp, ReleaseLock, Return
<1> QED BY <1>2, <1>3, <1>4, <1>5, <1>6, <1>7, <1>8 DEF Analysis

\* What a step of t does to the calls of t: it starts an instruction, stays in a
\* routine, or returns from one.
Starts(t) == calls'[t] \in Instructions /\ calls[t] = <<>> /\ marked' = marked \ {t} /\ pc' = pc
Stays(t) == calls[t] # <<>> /\ calls'[t] = calls[t] /\ marked' = marked
Returns(t) == calls[t] # <<>> /\ calls'[t] = Tail(calls[t]) /\ pc'[t] = "ready"

LEMMA CallsStep ==
  ASSUME IInv, CallsInv, NEW t \in Threads, Execute(t) \/ Analysis(t)
  PROVE  /\ Starts(t) \/ Stays(t) \/ Returns(t)
         /\ marked' \subseteq marked \cup {t}
         /\ At(t, "increCount") => t \notin marked'
<1>1. DOMAIN calls = Threads /\ DOMAIN pc = Threads
  BY DEF IInv, TypeOK
<1>2. CASE Execute(t)
  <2>1. Starts(t)
    BY <1>1, <1>2 DEF Execute, OnlyRoiInstructions, Starts
  <2> QED BY <2>1 DEF Starts, CallsInv
<1>3. CASE Skip(t)
  <2>1. Returns(t) /\ marked' = marked
    BY <1>1, <1>3 DEF Skip, Return, At, history, Returns
  <2> QED BY <2>1 DEF CallsInv
<1>4. CASE Enter(t) \/ GetLock(t) \/ increLoad(t)
  <2>1. calls' = calls /\ marked' = marked
    BY <1>4 DEF Enter, GetLock, increLoad, history
  <2>2. calls[t] # <<>>
    BY <1>4 DEF Enter, GetLock, increLoad, At, CallsInv
  <2> QED BY <2>1, <2>2 DEF CallsInv, Stays
<1>5. CASE nonBranchNorMem(t) \/ traceRecord(t)
  <2>1. CASE nonBranchNorMem(t)
    BY <1>1, <2>1 DEF nonBranchNorMem, Mark, Return, At, Returns
  <2>2. CASE traceRecord(t)
    BY <1>1, <2>2 DEF traceRecord, Mark, ReleaseLock, Return, At, Tracing, Returns
  <2> QED BY <1>5, <2>1, <2>2
<1>6. CASE increStore(t)
  <2>1. marked' = marked /\ calls[t] # <<>>
    BY <1>6 DEF increStore, At
  <2>2. CASE AtLimit(t)
    BY <1>6, <2>1, <2>2 DEF increStore, Exit, CallsInv, Stays
  <2>3. CASE ~ AtLimit(t)
    BY <1>1, <1>6, <2>1, <2>3 DEF increStore, ReleaseLock, Return, CallsInv, Returns
  <2> QED BY <2>2, <2>3
<1>7. CASE HandleMagicOp(t)
  BY <1>1, <1>7 DEF HandleMagicOp, ReleaseLock, Return, At, CallsInv, Returns
<1> QED BY <1>2, <1>3, <1>4, <1>5, <1>6, <1>7 DEF Analysis

LEMMA StepCallsInv ==
  ASSUME IInv, CallsInv, NEW t \in Threads, Execute(t) \/ Analysis(t)
  PROVE  CallsInv'
<1>1. \A u \in Threads \ {t} :
        calls'[u] = calls[u] /\ pc'[u] = pc[u] /\ (u \in marked' <=> u \in marked)
  BY StepIsLocal
<1>2. CallOrder(calls[t]) /\ calls[t] \in Seq(Calls)
  BY DEF CallsInv, IInv, TypeOK
<1>3. /\ CallOrder(calls'[t])
      /\ pc'[t] # "ready" => calls'[t] # <<>>
      /\ At(t, "increCount")' => t \notin marked'
  <2>1. CASE Starts(t)
    BY <2>1, InstructionOrder DEF Starts, CallsInv
  <2>2. CASE Stays(t)
    BY <1>2, <2>2 DEF Stays, CallsInv, At
  <2>3. CASE Returns(t)
    BY <1>2, <2>3, TailOrder DEF Returns, At
  <2> QED BY <2>1, <2>2, <2>3, CallsStep
<1> QED BY <1>1, <1>3 DEF CallsInv, At

LEMMA StepRoiInv ==
  ASSUME IInv, CallsInv, RoiInv, NEW t \in Threads, Execute(t) \/ Analysis(t)
  PROVE  RoiInv'
<1> SUFFICES ASSUME tool' = "trace_extr", ~ roi_ended'
             PROVE  /\ entering_roi' \/ fast_forwarding'
                    /\ ~ entering_roi' =>
                         \A u \in Threads : pc'[u] # "ready" => ~ At(u, "increCount")'
  BY DEF RoiInv
<1>1. /\ tool' = tool
      /\ \A u \in Threads \ {t} : calls'[u] = calls[u] /\ pc'[u] = pc[u]
  BY StepIsLocal
<1>2. DOMAIN calls = Threads /\ DOMAIN pc = Threads
  BY DEF IInv, TypeOK
<1>3. ~ roi_ended /\ tool = "trace_extr"
  <2>1. CASE HandleMagicOp(t)
    BY <1>1, <2>1 DEF HandleMagicOp
  <2>2. CASE ~ HandleMagicOp(t)
    <3>1. roi_ended' = roi_ended
      BY <2>2 DEF Execute, Analysis, Skip, Enter, nonBranchNorMem, GetLock, increLoad, increStore,
         traceRecord, Mark, history
    <3> QED BY <1>1, <3>1
  <2> QED BY <2>1, <2>2
<1>4. /\ entering_roi \/ fast_forwarding
      /\ ~ entering_roi => \A u \in Threads : pc[u] # "ready" => ~ At(u, "increCount")
  BY <1>3 DEF RoiInv
<1>5. CASE HandleMagicOp(t)
  <2>1. At(t, "ROI_BEGIN")
    BY <1>5 DEF HandleMagicOp
  <2>2. entering_roi'
    BY <1>5, <2>1 DEF HandleMagicOp
  <2> QED BY <2>2
<1>6. CASE ~ HandleMagicOp(t)
  <2>1. entering_roi' = entering_roi
    BY <1>6 DEF Execute, Analysis, Skip, Enter, nonBranchNorMem, GetLock, increLoad, increStore,
       traceRecord, statics
  <2>2. entering_roi \/ (fast_forwarding' = fast_forwarding /\ ~ increStore(t))
    <3>1. CASE increStore(t)
      BY <1>4, <3>1 DEF increStore
    <3>2. CASE ~ increStore(t)
      BY <1>6, <3>2 DEF Execute, Analysis, Skip, Enter, nonBranchNorMem, GetLock, increLoad,
         traceRecord, statics
    <3> QED BY <3>1, <3>2
  <2>3. ASSUME ~ entering_roi, pc'[t] # "ready", At(t, "increCount")'
        PROVE  FALSE
    <3>1. CASE Starts(t)
      <4>1. pc[t] # "ready" /\ calls[t] = <<>>
        BY <2>3, <3>1 DEF Starts
      <4> QED BY <4>1 DEF CallsInv
    <3>2. CASE Stays(t)
      <4>1. At(t, "increCount") /\ pc[t] = "ready"
        BY <1>4, <2>3, <3>2 DEF Stays, At
      <4>2. Enter(t)
        BY <1>6, <2>3, <3>2, <4>1, <1>2, CallsStep
           DEF Execute, Analysis, Skip, nonBranchNorMem, GetLock, increLoad, increStore, traceRecord,
               Stays, At
      <4>3. entering_roi
        BY <4>1, <4>2 DEF Enter, At, Proceeds
      <4> QED BY <2>3, <4>3
    <3>3. CASE Returns(t)
      BY <2>3, <3>3 DEF Returns
    <3> QED BY <3>1, <3>2, <3>3, CallsStep
  <2>4. ~ entering_roi => \A u \in Threads : pc'[u] # "ready" => ~ At(u, "increCount")'
    BY <1>1, <1>4, <2>3 DEF At
  <2> QED BY <1>4, <2>1, <2>2, <2>4
<1> QED BY <1>5, <1>6

\* Sets of threads are finite.
LEMMA SomeThreads ==
  ASSUME NEW C \in SUBSET Threads
  PROVE  /\ IsFiniteSet(C) /\ Cardinality(C) \in Nat /\ Cardinality(Threads) \in Nat
         /\ Cardinality(C) <= Cardinality(Threads)
  BY FS_Subset, FS_CardinalityType, ExtractorAssumption

LEMMA FewerThreads ==
  ASSUME NEW C \in SUBSET Threads, NEW D \in SUBSET C
  PROVE  Cardinality(D) <= Cardinality(C)
  BY SomeThreads, FS_Subset

LEMMA FlightTypes ==
  ASSUME TypeOK
  PROVE  /\ Coming \in SUBSET Threads /\ Cardinality(Coming) \in Nat
         /\ Admitted \in Nat /\ extracted \in Nat /\ UnderWay \in Int
<1>1. Coming \in SUBSET Threads
  BY DEF Coming
<1>2. Cardinality(Coming) \in Nat /\ Cardinality(Threads) \in Nat
  BY <1>1, SomeThreads
<1>3. Admitted \in Nat /\ extracted \in Nat /\ roi_begun \in Nat
  BY ExtractorAssumption DEF Admitted, TypeOK
<1>4. UnderWay \in Int
  <2>1. PICK m \in Nat : m = Cardinality(Threads)
    BY <1>2
  <2>2. roi_begun * (m - 1) \in Int
    BY <1>3
  <2> QED BY <2>1, <2>2 DEF UnderWay
<1> QED BY <1>1, <1>2, <1>3, <1>4

\* While trace_extr is watched, what traces is inside the ROI.
LEMMA TracingInRoi ==
  ASSUME IInv, RoiInv, Watched
  PROVE  TracingOn => entering_roi
  BY DEF RoiInv, Watched, TracingOn

\* A step of t makes no other thread one that is coming, unless it switches tracing on.
LEMMA OthersComing ==
  ASSUME IInv, NEW t \in Threads, Execute(t) \/ Analysis(t), TracingOn' => TracingOn
  PROVE  Coming' \subseteq Coming \cup {t}
<1>1. \A u \in Threads \ {t} :
        calls'[u] = calls[u] /\ pc'[u] = pc[u] /\ (u \in marked' <=> u \in marked)
  BY StepIsLocal
<1>2. \A u \in Threads \ {t} : IsComing(u)' => IsComing(u)
  BY <1>1 DEF IsComing
<1> QED BY <1>2 DEF Coming

\* Outside the critical sections of increCount and HandleMagicOp, a step does not switch
\* anything, and uses up what it adds to the trace.
LEMMA ComingStep ==
  ASSUME IInv, CallsInv, NEW t \in Threads, Execute(t) \/ Analysis(t),
         ~ increStore(t), ~ HandleMagicOp(t), TracingOn => entering_roi
  PROVE  /\ UNCHANGED <<tool, fast_forwarding, roi_begun, Admitted>>
         /\ Coming' \subseteq Coming
         /\ \/ extracted' = extracted
            \/ extracted' = extracted + 1 /\ t \in Coming /\ t \notin Coming'
<1>1. /\ UNCHANGED <<tool, fast_forwarding, entering_roi, insn_count, roi_begun, closed>>
  <2>1. CASE Execute(t)
    BY <2>1 DEF Execute, statics, output
  <2>2. CASE Skip(t) \/ Enter(t) \/ GetLock(t) \/ increLoad(t)
    BY <2>2 DEF Skip, Enter, GetLock, increLoad, statics, output, history
  <2>3. CASE nonBranchNorMem(t) \/ traceRecord(t)
    BY <2>3 DEF nonBranchNorMem, traceRecord, Mark, statics
  <2> QED BY <2>1, <2>2, <2>3 DEF Analysis
<1>2. UNCHANGED <<tool, fast_forwarding, roi_begun, Admitted>> /\ (TracingOn' <=> TracingOn)
  BY <1>1 DEF Admitted, TracingOn
<1>3. Coming' \subseteq Coming \cup {t}
  BY <1>2, OthersComing
<1>4. DOMAIN calls = Threads /\ DOMAIN pc = Threads
  BY DEF IInv, TypeOK
<1>5. CASE Execute(t)
  <2>1. calls'[t] \in Instructions /\ extracted' = extracted
    BY <1>4, <1>5 DEF Execute, OnlyRoiInstructions
  <2>2. ~ IsComing(t)'
    BY <2>1, InstructionOrder DEF IsComing
  <2> QED BY <1>2, <1>3, <2>1, <2>2 DEF Coming
<1>6. CASE Skip(t)
  <2>1. /\ pc'[t] = "ready" /\ marked' = marked /\ extracted' = extracted
        /\ \E call \in Calls : At(t, call) /\ ~ Proceeds(call)
    BY <1>6 DEF Skip, history
  <2>2. IsComing(t)' => TracingOn /\ t \notin marked
    BY <1>2, <2>1 DEF IsComing
  <2>3. TracingOn => \A call \in Calls : At(t, call) => Proceeds(call)
    BY DEF Proceeds, TracingOn
  <2> QED BY <1>2, <1>3, <2>1, <2>2, <2>3 DEF Coming
<1>7. CASE Enter(t)
  <2>1. calls' = calls /\ marked' = marked /\ extracted' = extracted
    BY <1>7 DEF Enter, history
  <2>2. calls[t] # <<>> /\ (Head(calls[t]) \in Tracing => TracingOn)
    BY <1>7 DEF Enter, At, Proceeds, TracingOn, Tracing
  <2>3. IsComing(t)' => IsComing(t)
    BY <1>2, <2>1, <2>2 DEF IsComing
  <2> QED BY <1>2, <1>3, <2>1, <2>3 DEF Coming
<1>8. CASE GetLock(t) \/ increLoad(t)
  <2>1. calls' = calls /\ marked' = marked /\ extracted' = extracted /\ pc[t] # "ready"
    BY <1>8 DEF GetLock, increLoad, history
  <2>2. IsComing(t)' => IsComing(t)
    BY <1>2, <2>1 DEF IsComing
  <2> QED BY <1>2, <1>3, <2>1, <2>2 DEF Coming
<1>9. CASE nonBranchNorMem(t) \/ traceRecord(t)
  <2>1. /\ t \in marked' /\ extracted \in Nat
        /\ extracted' = extracted + (IF t \in marked THEN 0 ELSE 1)
    BY <1>9 DEF nonBranchNorMem, traceRecord, Mark, IInv, TypeOK
  <2>2. t \notin Coming'
    BY <2>1 DEF Coming, IsComing
  <2>3. t \notin marked => IsComing(t)
    <3>1. CASE nonBranchNorMem(t)
      BY <3>1 DEF nonBranchNorMem, At, Proceeds, IsComing, TracingOn
    <3>2. CASE traceRecord(t)
      BY <3>2 DEF traceRecord, At, IsComing, Tracing
    <3> QED BY <1>9, <3>1, <3>2
  <2>4. t \in marked => extracted' = extracted
    BY <2>1
  <2>5. t \notin marked => extracted' = extracted + 1 /\ t \in Coming
    BY <2>1, <2>3 DEF Coming
  <2> QED BY <1>2, <1>3, <2>2, <2>4, <2>5
<1> QED BY <1>5, <1>6, <1>7, <1>8, <1>9 DEF Analysis

\* A step that adds no more to the trace, or to the threads that are coming, than
\* increCount admits.
LEMMA FlightKept ==
  ASSUME TypeOK, TypeOK', FlightInv, Watched,
         UNCHANGED <<tool, fast_forwarding, roi_begun>>,
         extracted' + Cardinality(Coming') + Admitted <= extracted + Cardinality(Coming) + Admitted',
         fast_forwarding /\ Coming = {} => extracted' = extracted /\ Coming' = {}
  PROVE  FlightInv'
<1>1. UnderWay' = UnderWay
  BY DEF UnderWay
<1>2. /\ Cardinality(Coming) \in Nat /\ Admitted \in Nat /\ extracted \in Nat /\ UnderWay \in Int
      /\ Cardinality(Coming') \in Nat /\ Admitted' \in Nat /\ extracted' \in Nat
  <2>1. Coming' \in SUBSET Threads
    BY DEF Coming
  <2>2. Cardinality(Coming') \in Nat
    BY <2>1, SomeThreads
  <2>3. Admitted' \in Nat /\ extracted' \in Nat
    BY ExtractorAssumption DEF Admitted, TypeOK
  <2> QED BY <2>2, <2>3, FlightTypes
<1>3. CASE fast_forwarding
  <2>1. extracted = 0 /\ Coming = {}
    BY <1>3 DEF FlightInv
  <2>2. extracted' = 0 /\ Coming' = {}
    BY <1>3, <2>1
  <2> QED BY <1>3, <2>2 DEF FlightInv
<1>4. CASE ~ fast_forwarding
  <2>1. extracted + Cardinality(Coming) <= Admitted + UnderWay
    BY <1>4 DEF FlightInv
  <2>2. extracted' + Cardinality(Coming') <= Admitted' + UnderWay'
    BY <1>1, <1>2, <2>1
  <2> QED BY <1>4, <2>2 DEF FlightInv
<1> QED BY <1>3, <1>4

LEMMA RoiEndedStays ==
  ASSUME NEW t \in Threads, Execute(t) \/ Analysis(t)
  PROVE  roi_ended => roi_ended'
<1>1. CASE HandleMagicOp(t)
  BY <1>1 DEF HandleMagicOp
<1>2. CASE ~ HandleMagicOp(t)
  <2>1. roi_ended' = roi_ended
    BY <1>2 DEF Execute, Analysis, Skip, Enter, nonBranchNorMem, GetLock, increLoad, increStore,
       traceRecord, Mark, history
  <2> QED BY <2>1
<1> QED BY <1>1, <1>2

\* increCount admits t, switches tracing on, or exits.
LEMMA StoreFlight ==
  ASSUME IInv, IInv', CallsInv, FlightInv, Watched, NEW t \in Threads, increStore(t)
  PROVE  FlightInv'
<1>1. /\ pc[t] = "loaded" /\ At(t, "increCount") /\ pinLock = t /\ counted(t) = insn_count + 1
      /\ ~ closed
  BY DEF increStore, IInv, At, LockInv, LoadInv, ExitInv, Inside, counted
<1>2. /\ UNCHANGED <<tool, roi_begun, extracted, entering_roi, marked>>
      /\ insn_count' = IF Skipped(t) THEN 0 ELSE insn_count + 1
      /\ fast_forwarding' = (fast_forwarding /\ ~ Skipped(t))
      /\ Analysis(t)
  BY <1>1 DEF increStore, Analysis
<1>3. TypeOK /\ TypeOK' /\ insn_count \in Nat /\ extracted \in Nat /\ DOMAIN calls = Threads
      /\ DOMAIN pc = Threads
  BY DEF IInv, TypeOK
<1>4. Coming \in SUBSET Threads /\ t \notin Coming
  BY <1>1 DEF Coming, IsComing, At
<1>5. Cardinality(Coming) \in Nat /\ Admitted = insn_count
  BY <1>1, <1>4, SomeThreads DEF Admitted
<1>6. CASE AtLimit(t)
  <2>1. ~ fast_forwarding /\ ~ Skipped(t) /\ insn_count + 1 >= LIMIT
    BY <1>1, <1>6 DEF AtLimit, Skipped
  <2>2. insn_count = LIMIT - 1
    BY <1>1, <1>3, <2>1, ExtractorAssumption DEF IInv, CountExact
  <2>3. closed' /\ calls' = calls
    BY <1>6 DEF increStore, Exit
  <2>4. Admitted' = LIMIT - 1
    BY <2>3 DEF Admitted
  <2>5. UNCHANGED <<tool, fast_forwarding, roi_begun, extracted>> /\ (TracingOn' <=> TracingOn)
    <3>1. fast_forwarding' = fast_forwarding
      BY <1>2, <2>1 DEF IInv, TypeOK
    <3> QED BY <1>2, <3>1 DEF TracingOn
  <2>6. Coming' \subseteq Coming
    <3>1. Coming' \subseteq Coming \cup {t}
      BY <1>2, <2>5, OthersComing
    <3>2. ~ IsComing(t)'
      BY <1>1, <2>3 DEF IsComing, At
    <3> QED BY <3>1, <3>2 DEF Coming
  <2>7. Cardinality(Coming') <= Cardinality(Coming) /\ Cardinality(Coming') \in Nat
    BY <1>4, <2>6, FewerThreads, SomeThreads
  <2>8. extracted' + Cardinality(Coming') + Admitted <= extracted + Cardinality(Coming) + Admitted'
    BY <1>3, <1>5, <2>2, <2>4, <2>5, <2>7
  <2> QED BY <1>3, <2>5, <2>6, <2>8, FlightKept
<1>7. CASE ~ AtLimit(t) /\ ~ Skipped(t)
  <2>1. /\ ~ closed' /\ insn_count' = insn_count + 1 /\ pc'[t] = "ready"
        /\ UNCHANGED <<tool, fast_forwarding, roi_begun, extracted>>
    <3>1. ReleaseLock(t) /\ UNCHANGED closed
      BY <1>7 DEF increStore
    <3>2. fast_forwarding' = fast_forwarding
      BY <1>2, <1>3, <1>7 DEF IInv, TypeOK
    <3> QED BY <1>1, <1>2, <1>3, <1>7, <3>1, <3>2 DEF ReleaseLock
  <2>2. Admitted' = insn_count + 1 /\ (TracingOn' <=> TracingOn)
    BY <1>2, <2>1 DEF Admitted, TracingOn
  <2>3. Coming' \subseteq Coming \cup {t}
    BY <1>2, <2>2, OthersComing
  <2>4. Cardinality(Coming \cup {t}) = Cardinality(Coming) + 1
    BY <1>4, SomeThreads, FS_AddElement
  <2>5. /\ Cardinality(Coming') <= Cardinality(Coming \cup {t}) /\ Cardinality(Coming') \in Nat
    <3>1. Coming \cup {t} \in SUBSET Threads /\ Coming' \in SUBSET Threads
      BY <1>4, <2>3
    <3> QED BY <2>3, <3>1, FewerThreads, SomeThreads
  <2>6. extracted' + Cardinality(Coming') + Admitted <= extracted + Cardinality(Coming) + Admitted'
    BY <1>3, <1>5, <2>1, <2>2, <2>4, <2>5
  <2>7. fast_forwarding => t \notin Coming'
    <3>1. fast_forwarding => tool' = "trace_extr" /\ fast_forwarding'
      BY <2>1 DEF IInv, ToolInv
    <3>2. fast_forwarding => ~ TracingOn'
      BY <3>1 DEF TracingOn
    <3>3. ~ TracingOn' => ~ IsComing(t)'
      BY <2>1 DEF IsComing
    <3> QED BY <3>2, <3>3 DEF Coming
  <2> QED BY <1>3, <2>1, <2>3, <2>6, <2>7, FlightKept
<1>8. CASE Skipped(t)
  <2>1. fast_forwarding /\ tool = "trace_extr"
    BY <1>8 DEF Skipped, IInv, ToolInv
  <2>2. extracted = 0
    BY <2>1 DEF FlightInv
  <2>3. ~ AtLimit(t)
    BY <2>1 DEF AtLimit
  <2>4. insn_count' = 0 /\ ~ fast_forwarding' /\ closed' = closed
    BY <1>2, <1>8, <2>3 DEF increStore
  <2>5. Admitted' = 0 /\ UnderWay' = Cardinality(Threads)
    BY <1>1, <1>2, <2>1, <2>4 DEF Admitted, UnderWay
  <2>6. Coming' \in SUBSET Threads
    BY DEF Coming
  <2>7. /\ Cardinality(Coming') <= Cardinality(Threads) /\ Cardinality(Coming') \in Nat
        /\ Cardinality(Threads) \in Nat
    BY <2>6, SomeThreads
  <2>8. extracted' + Cardinality(Coming') <= Admitted' + UnderWay'
    BY <1>2, <2>2, <2>5, <2>7
  <2> QED BY <2>4, <2>8 DEF FlightInv
<1> QED BY <1>6, <1>7, <1>8

LEMMA OneMoreRoi ==
  ASSUME NEW b \in Nat, NEW m \in Nat
  PROVE  (b + 1) * (m - 1) = b * (m - 1) + (m - 1)
  OBVIOUS

\* When t enters the ROI, the instruction of t ends there: those of the other threads
\* are under way.
LEMMA MagicFlight ==
  ASSUME IInv, IInv', CallsInv, FlightInv, Watched, NEW t \in Threads, HandleMagicOp(t)
  PROVE  FlightInv'
<1>1. /\ UNCHANGED <<tool, fast_forwarding, insn_count, closed, extracted>>
      /\ pc'[t] = "ready" /\ calls'[t] = Tail(calls[t]) /\ Analysis(t)
  BY DEF HandleMagicOp, ReleaseLock, Return, output, IInv, TypeOK, Analysis
<1>2. Admitted' = Admitted
  BY <1>1 DEF Admitted
<1>3. TypeOK /\ TypeOK' /\ extracted \in Nat /\ roi_begun \in Nat /\ calls[t] \in Seq(Calls)
  BY DEF IInv, TypeOK
<1>4. t \notin Coming'
  <2>1. calls[t] # <<>> /\ Head(calls[t]) \in {"ROI_BEGIN", "ROI_END"} /\ CallOrder(calls[t])
    BY DEF HandleMagicOp, At, CallsInv
  <2>2. Tail(calls[t]) = <<>>
    BY <1>3, <2>1, TailOrder
  <2> QED BY <1>1, <2>2 DEF Coming, IsComing
<1>5. /\ Coming \in SUBSET Threads /\ Cardinality(Coming) \in Nat /\ Admitted \in Nat
      /\ UnderWay \in Int
  BY <1>3, FlightTypes
<1>6. CASE tool # "trace_extr" /\ ~ entering_roi /\ At(t, "ROI_BEGIN")
  <2>1. ~ fast_forwarding /\ ~ fast_forwarding' /\ roi_begun' = roi_begun + 1
    BY <1>1, <1>6 DEF HandleMagicOp, IInv, ToolInv
  <2>2. PICK m \in Nat : m = Cardinality(Threads)
    BY SomeThreads
  <2>3. UnderWay = roi_begun * (m - 1) /\ UnderWay' = (roi_begun + 1) * (m - 1)
    BY <1>1, <1>6, <2>1, <2>2 DEF UnderWay
  <2>4. UnderWay' = UnderWay + (m - 1)
    BY <1>3, <2>3, OneMoreRoi
  <2>5. Coming' \subseteq Threads \ {t}
    BY <1>4 DEF Coming
  <2>6. Cardinality(Threads \ {t}) = m - 1
    BY <2>2, ExtractorAssumption, FS_RemoveElement
  <2>7. Cardinality(Coming') <= m - 1 /\ Cardinality(Coming') \in Nat
    <3>1. Threads \ {t} \in SUBSET Threads /\ Coming' \in SUBSET Threads
      BY <2>5
    <3> QED BY <2>5, <2>6, <3>1, FewerThreads, SomeThreads
  <2>8. extracted + Cardinality(Coming) <= Admitted + UnderWay
    BY <2>1 DEF FlightInv
  <2>9. extracted' + Cardinality(Coming') <= Admitted' + UnderWay'
    BY <1>1, <1>2, <1>3, <1>5, <2>4, <2>7, <2>8
  <2> QED BY <2>1, <2>9 DEF FlightInv
<1>7. CASE ~ (tool # "trace_extr" /\ ~ entering_roi /\ At(t, "ROI_BEGIN"))
  <2>1. TracingOn' => TracingOn
    BY <1>1, <1>7 DEF HandleMagicOp, TracingOn
  <2>2. Coming' \subseteq Coming
    BY <1>1, <1>4, <2>1, OthersComing
  <2>3. Cardinality(Coming') <= Cardinality(Coming) /\ Cardinality(Coming') \in Nat
    BY <1>5, <2>2, FewerThreads, SomeThreads
  <2>4. CASE tool = "trace_extr"
    <3>1. UnderWay' = UnderWay
      BY <1>1, <2>4 DEF UnderWay
    <3>2. CASE fast_forwarding
      BY <1>1, <2>2, <3>2 DEF FlightInv
    <3>3. CASE ~ fast_forwarding
      <4>1. extracted + Cardinality(Coming) <= Admitted + UnderWay
        BY <3>3 DEF FlightInv
      <4>2. extracted' + Cardinality(Coming') <= Admitted' + UnderWay'
        BY <1>1, <1>2, <1>3, <1>5, <2>3, <3>1, <4>1
      <4> QED BY <1>1, <3>3, <4>2 DEF FlightInv
    <3> QED BY <3>2, <3>3
  <2>5. CASE tool # "trace_extr"
    <3>1. roi_begun' = roi_begun
      BY <1>3, <1>7, <2>5 DEF HandleMagicOp
    <3>2. extracted' + Cardinality(Coming') + Admitted <= extracted + Cardinality(Coming) + Admitted'
      BY <1>1, <1>2, <1>3, <1>5, <2>3
    <3> QED BY <1>1, <1>3, <2>2, <3>1, <3>2, FlightKept
  <2> QED BY <2>4, <2>5
<1> QED BY <1>6, <1>7

LEMMA StepFlightInv ==
  ASSUME IInv, IInv', ExtractInv, NEW t \in Threads, Execute(t) \/ Analysis(t)
  PROVE  FlightInv'
<1> USE DEF ExtractInv
<1>1. tool' = tool
  BY StepIsLocal
<1>2. CASE ~ Watched
  <2>1. ~ Watched'
    BY <1>1, <1>2, RoiEndedStays DEF Watched
  <2> QED BY <2>1 DEF FlightInv
<1>3. CASE Watched /\ increStore(t)
  BY <1>3, StoreFlight
<1>4. CASE Watched /\ HandleMagicOp(t)
  BY <1>4, MagicFlight
<1>5. CASE Watched /\ ~ increStore(t) /\ ~ HandleMagicOp(t)
  <2>1. /\ UNCHANGED <<tool, fast_forwarding, roi_begun, Admitted>>
        /\ Coming' \subseteq Coming
        /\ \/ extracted' = extracted
           \/ extracted' = extracted + 1 /\ t \in Coming /\ t \notin Coming'
    BY <1>5, ComingStep, TracingInRoi
  <2>2. /\ TypeOK /\ TypeOK' /\ Coming \in SUBSET Threads /\ Cardinality(Coming) \in Nat
        /\ Admitted \in Nat /\ extracted \in Nat
    BY FlightTypes DEF IInv
  <2>3. Cardinality(Coming') <= Cardinality(Coming) /\ Cardinality(Coming') \in Nat
    BY <2>1, <2>2, FewerThreads, SomeThreads
  <2>4. t \in Coming /\ t \notin Coming' => Cardinality(Coming') <= Cardinality(Coming) - 1
    <3>1. ASSUME t \in Coming, t \notin Coming'
          PROVE  Cardinality(Coming') <= Cardinality(Coming) - 1
      <4>1. Cardinality(Coming \ {t}) = Cardinality(Coming) - 1
        BY <2>2, <3>1, SomeThreads, FS_RemoveElement
      <4>2. Coming \ {t} \in SUBSET Threads /\ Coming' \in SUBSET (Coming \ {t})
        BY <2>1, <2>2, <3>1
      <4>3. Cardinality(Coming') <= Cardinality(Coming \ {t})
        BY <4>2, FewerThreads
      <4> QED BY <4>1, <4>3
    <3> QED BY <3>1
  <2>5. extracted' + Cardinality(Coming') + Admitted <= extracted + Cardinality(Coming) + Admitted'
    BY <2>1, <2>2, <2>3, <2>4
  <2>6. Coming = {} => extracted' = extracted /\ Coming' = {}
    BY <2>1
  <2> QED BY <1>5, <2>1, <2>2, <2>5, <2>6, FlightKept
<1> QED BY <1>2, <1>3, <1>4, <1>5

LEMMA InitExtract == Init => ExtractInv
<1> SUFFICES ASSUME Init PROVE ExtractInv
  OBVIOUS
<1>1. \A t \in Threads : calls[t] = <<>> /\ pc[t] = "ready" /\ t \notin marked
  BY DEF Init
<1>2. CallsInv
  BY <1>1 DEF CallsInv, CallOrder, At
<1>3. (tool = "trace_extr" <=> fast_forwarding) /\ ~ closed /\ insn_count = 0
  BY DEF Init
<1>4. RoiInv
  BY <1>1, <1>3 DEF RoiInv
<1>5. extracted = 0 /\ roi_begun = 0 /\ Coming = {}
  BY <1>1 DEF Init, Coming, IsComing
<1>6. FlightInv
  <2>1. PICK m \in Nat : m = Cardinality(Threads)
    BY SomeThreads
  <2>2. Cardinality(Coming) = 0 /\ Admitted = 0 /\ 0 * (m - 1) = 0
    BY <1>3, <1>5, FS_EmptySet DEF Admitted
  <2>3. ~ fast_forwarding => UnderWay = 0
    BY <1>3, <1>5, <2>1, <2>2 DEF UnderWay
  <2>4. ~ fast_forwarding => extracted + Cardinality(Coming) <= Admitted + UnderWay
    BY <1>5, <2>2, <2>3
  <2> QED BY <1>5, <2>4 DEF FlightInv
<1> QED BY <1>2, <1>4, <1>6 DEF ExtractInv

LEMMA NextExtract == IInv /\ IInv' /\ ExtractInv /\ [Next]_vars => ExtractInv'
<1> SUFFICES ASSUME IInv, IInv', ExtractInv, [Next]_vars PROVE ExtractInv'
  OBVIOUS
<1>1. ASSUME NEW t \in Threads, Execute(t) \/ Analysis(t) PROVE ExtractInv'
  BY <1>1, StepCallsInv, StepRoiInv, StepFlightInv DEF ExtractInv
<1>2. CASE UNCHANGED vars
  <2>1. CallsInv' /\ RoiInv'
    BY <1>2 DEF ExtractInv, CallsInv, RoiInv, At, vars, statics, output, history
  <2>2. /\ Coming' = Coming /\ Admitted' = Admitted /\ UnderWay' = UnderWay
        /\ extracted' = extracted /\ fast_forwarding' = fast_forwarding /\ (Watched' <=> Watched)
    BY <1>2 DEF Coming, IsComing, TracingOn, Admitted, UnderWay, Watched, vars, statics, output,
       history
  <2> QED BY <2>1, <2>2 DEF ExtractInv, FlightInv
<1> QED BY <1>1, <1>2 DEF Next, Terminated

LEMMA SpecExtract == Spec => [](IInv /\ ExtractInv)
<1>1. IInv /\ ExtractInv /\ [Next]_vars => (IInv /\ ExtractInv)'
  BY NextIInv, NextExtract
<1> QED BY <1>1, InitIInv, InitExtract, PTL DEF Spec

-----------------------------------------------------------------------------
\* The statics, the trace and the threads have their types in every state.
THEOREM ExtractorType == Spec => []TypeOK
<1>1. IInv => TypeOK
  BY DEF IInv
<1> QED BY <1>1, SpecIInv, PTL

\* At most one thread is inside a critical section of pinLock.
THEOREM LockExcludes ==
  Spec => [](\A t, u \in Threads : pc[t] \in Inside /\ pc[u] \in Inside => t = u)
<1>1. IInv => \A t, u \in Threads : pc[t] \in Inside /\ pc[u] \in Inside => t = u
  BY DEF IInv, LockInv
<1> QED BY <1>1, SpecIInv, PTL

\* No increment is lost, and both phases end at their exact count, whatever the
\* number of threads.
THEOREM ExtractorCounts == Spec => []CountExact
<1>1. IInv => CountExact
  BY DEF IInv
<1> QED BY <1>1, SpecIInv, PTL

\* No thread reaches the printing of a record once the file is closed.
THEOREM ExtractorKeepsRecords == Spec => []NoRecordLost
<1>1. IInv => NoRecordLost
  BY DEF IInv, LockInv, ExitInv, Inside, NoRecordLost
<1> QED BY <1>1, SpecIInv, PTL

\* The file replays what each thread did: the count in a record is that of the
\* instructions of the thread since its last record, however the threads interleave.
THEOREM ExtractorReplays == Spec => []TraceReplays
<1>1. ReplayInv => TraceReplays
  BY DEF ReplayInv, Replays, RecordsTo, TraceReplays
<1> QED BY <1>1, SpecReplay, PTL

\* Beyond the LIMIT - 1 instructions counted, what is extracted is what was in flight when
\* extraction began: at most one instruction of each thread, or, for
\* trace_extr_only_roi.cpp, of each other thread whenever the program enters the ROI.
THEOREM ExtractorBound == Spec => []ExtractionBound
<1>1. IInv /\ ExtractInv => ExtractionBound
  <2> SUFFICES ASSUME IInv, ExtractInv PROVE ExtractionBound
    OBVIOUS
  <2>1. /\ Coming \in SUBSET Threads /\ Cardinality(Coming) \in Nat /\ extracted \in Nat
        /\ Admitted \in Nat /\ UnderWay \in Int /\ insn_count \in Nat
    BY FlightTypes DEF IInv, TypeOK
  <2>2. ~ fast_forwarding => Admitted <= LIMIT - 1
    BY <2>1, ExtractorAssumption DEF IInv, CountExact, Admitted
  <2>3. ~ fast_forwarding /\ Watched => extracted <= LIMIT - 1 + UnderWay
    BY <2>1, <2>2, ExtractorAssumption DEF ExtractInv, FlightInv
  <2>4. CASE tool = "trace_extr"
    <3>1. Cardinality(Threads) \in Nat
      BY SomeThreads
    <3>2. fast_forwarding /\ Watched => extracted = 0
      BY DEF ExtractInv, FlightInv
    <3>3. ~ roi_ended => extracted <= LIMIT - 1 + Cardinality(Threads)
      BY <2>3, <2>4, <3>1, <3>2, ExtractorAssumption DEF UnderWay, Watched
    <3> QED BY <2>4, <3>3 DEF ExtractionBound
  <2>5. CASE tool # "trace_extr"
    BY <2>3, <2>5 DEF IInv, ToolInv, UnderWay, Watched, ExtractionBound
  <2> QED BY <2>4, <2>5
<1> QED BY <1>1, SpecExtract, PTL
=============================================================================
