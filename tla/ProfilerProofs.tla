---------------------------- MODULE ProfilerProofs ----------------------------
(***************************************************************************)
(* Theorems about Profiler for any set of threads, any borders and any     *)
(* number of instructions: the racing count neither starts the trace nor   *)
(* ends the run too early, and does not jump over either border; with one  *)
(* thread the borders are exact and the file replays what it did.          *)
(***************************************************************************)
EXTENDS Profiler, FiniteSetTheorems, TLAPS

\* Each value of the count in memory or in a register stands for that many stores, and
\* a flag set for its border.
CountInv ==
  /\ insn_count <= passed
  /\ \A t \in Threads : pc[t] = "loaded" => reg[t] <= passed
  /\ \A t \in Threads : pc[t] = "stored" => reg[t] + 1 <= passed
  /\ NeverEarly

\* The border is behind a value of the count, in memory or in a register.
Reached(border) ==
  \/ insn_count >= border
  \/ \E t \in Threads : pc[t] = "loaded" /\ reg[t] >= border
  \/ \E t \in Threads : pc[t] = "stored" /\ reg[t] + 1 >= border

\* BordersNoticed for the count in the registers too: a stale one may be stored later.
BorderInv ==
  /\ Reached(SKIP) => start_sim \/ Sees(SKIP)
  /\ Reached(END) => exited \/ Sees(END)

IInv == TypeOK /\ CountInv /\ BorderInv
-----------------------------------------------------------------------------
LEMMA Borders == SKIP \in Nat /\ END \in Nat /\ SKIP > 0 /\ END > SKIP
  BY ProfilerAssumption DEF END

LEMMA InstructionsType == Instructions \subseteq Seq(Calls)
<1> DEFINE Rest == {<<"countExe">>, <<>>, <<"memAccessSim">>, <<"memAccessSim", "memAccessSim">>}
<1>1. Rest \subseteq Seq(Calls)
  BY DEF Calls
<1>2. <<"increCount">> \in Seq(Calls)
  BY DEF Calls
<1>3. \A rest \in Rest : <<"increCount">> \o rest \in Seq(Calls)
  <2> HIDE DEF Rest
  <2> QED BY <1>1, <1>2
<1> QED BY <1>3 DEF Instructions

\* The return from a routine keeps the types, and leaves t without a count.
LEMMA ReturnType ==
  ASSUME TypeOK, NEW t \in Threads, calls[t] # <<>>, Return(t)
  PROVE  /\ calls' \in [Threads -> Seq(Calls)]
         /\ pc' = [pc EXCEPT ![t] = "ready"] /\ pc' \in [Threads -> Places]
         /\ reg' = [reg EXCEPT ![t] = 0] /\ reg' \in [Threads -> Nat]
<1>1. Tail(calls[t]) \in Seq(Calls)
  BY DEF TypeOK
<1> QED BY <1>1 DEF Return, TypeOK, Places

LEMMA ProceedType ==
  ASSUME TypeOK, NEW t \in Threads, NEW place \in Places, NEW count \in Nat,
         Proceed(t, place, count)
  PROVE  /\ calls' \in [Threads -> Seq(Calls)]
         /\ pc' = [pc EXCEPT ![t] = place] /\ pc' \in [Threads -> Places]
         /\ reg' = [reg EXCEPT ![t] = count] /\ reg' \in [Threads -> Nat]
  BY DEF Proceed, TypeOK

LEMMA TracedType ==
  ASSUME TypeOK, NEW t \in Threads, NEW kind \in {"exe", "access"}, Traced(t, kind)
  PROVE  did' \in Seq({"exe", "access"})
<1>1. did \in Seq({"exe", "access"})
  BY DEF TypeOK
<1>2. Append(did, kind) \in Seq({"exe", "access"}) /\ <<>> \in Seq({"exe", "access"})
  BY <1>1
<1> QED BY <1>2 DEF Traced

LEMMA PrintsType ==
  ASSUME TypeOK, NEW item \in Nat, Prints(item)
  PROVE  trace_out' \in Seq(Nat)
<1>1. trace_out \in Seq(Nat)
  BY DEF TypeOK
<1>2. Append(trace_out, item) \in Seq(Nat)
  BY <1>1
<1> QED BY <1>1, <1>2 DEF Prints

\* A step of t outside increCount has nothing to do with the count of instructions.
LEMMA OutsideCount ==
  ASSUME TypeOK, CountInv, BorderInv, NEW t \in Threads,
         pc[t] \notin {"loaded", "stored"}, pc'[t] \notin {"loaded", "stored"},
         \A u \in Threads \ {t} : pc'[u] = pc[u] /\ reg'[u] = reg[u],
         UNCHANGED <<start_sim, insn_count, exited, passed>>
  PROVE  CountInv' /\ BorderInv'
<1>1. CountInv'
  BY DEF CountInv, NeverEarly
<1>2. \A u \in Threads : pc'[u] \in {"loaded", "stored"} \/ pc[u] \in {"loaded", "stored"} =>
                           pc'[u] = pc[u] /\ reg'[u] = reg[u]
  OBVIOUS
<1>3. \A border \in Nat : Reached(border)' => Reached(border)
  BY <1>2 DEF Reached
<1>4. \A border \in Nat : Sees(border) => Sees(border)'
  BY <1>2 DEF Sees
<1>5. BorderInv'
  <2>1. Reached(SKIP)' => Reached(SKIP)
    BY <1>3, Borders
  <2>2. Reached(END)' => Reached(END)
    BY <1>3, Borders
  <2>3. (Sees(SKIP) => Sees(SKIP)') /\ (Sees(END) => Sees(END)')
    BY <1>4, Borders
  <2> QED BY <2>1, <2>2, <2>3 DEF BorderInv
<1> QED BY <1>1, <1>5

\* So it is when t goes on in its call.
LEMMA ProceedOutside ==
  ASSUME IInv, NEW t \in Threads, NEW place \in Places \ {"loaded", "stored"}, NEW count \in Nat,
         pc[t] \notin {"loaded", "stored"}, Proceed(t, place, count),
         UNCHANGED <<start_sim, insn_count, exited, passed>>
  PROVE  CountInv' /\ BorderInv'
<1>1. pc' = [pc EXCEPT ![t] = place] /\ reg' = [reg EXCEPT ![t] = count]
  BY DEF Proceed
<1>2. DOMAIN pc = Threads /\ DOMAIN reg = Threads
  BY DEF IInv, TypeOK
<1>3. pc'[t] = place /\ \A u \in Threads \ {t} : pc'[u] = pc[u] /\ reg'[u] = reg[u]
  BY <1>1, <1>2
<1> QED BY <1>3, OutsideCount DEF IInv

LEMMA InitIInv == Init => IInv
<1> SUFFICES ASSUME Init PROVE IInv
  OBVIOUS
<1>1. TypeOK
  <2>1. /\ trace_out \in Seq(Nat) /\ did \in Seq({"exe", "access"})
        /\ calls \in [Threads -> Seq(Calls)]
    BY DEF Init
  <2>2. pc \in [Threads -> Places] /\ reg \in [Threads -> Nat]
    BY DEF Init, Places
  <2> QED BY <2>1, <2>2 DEF Init, TypeOK
<1>2. CountInv /\ BorderInv
  BY Borders DEF Init, CountInv, NeverEarly, BorderInv, Reached
<1> QED BY <1>1, <1>2 DEF IInv

LEMMA ExecuteIInv == ASSUME IInv, NEW t \in Threads, Execute(t) PROVE IInv'
<1> USE DEF IInv, Execute, statics, process
<1>1. PICK instruction \in Instructions : calls' = [calls EXCEPT ![t] = instruction]
  OBVIOUS
<1>2. calls' \in [Threads -> Seq(Calls)]
  BY <1>1, InstructionsType DEF TypeOK
<1>3. TypeOK'
  BY <1>2 DEF TypeOK
<1>4. CountInv' /\ BorderInv'
  BY DEF CountInv, NeverEarly, BorderInv, Reached, Sees
<1> QED BY <1>3, <1>4

LEMMA SkipIInv == ASSUME IInv, NEW t \in Threads, Skip(t) PROVE IInv'
<1> USE DEF IInv, Skip, At, statics, process, history
<1>1. TypeOK'
  BY ReturnType DEF TypeOK
<1>2. CountInv' /\ BorderInv'
  BY ReturnType, OutsideCount DEF TypeOK
<1> QED BY <1>1, <1>2

\* A register takes over a value of the count, and with it what is known of the value.
LEMMA LoadIInv == ASSUME IInv, NEW t \in Threads, increLoad(t) PROVE IInv'
<1> USE DEF IInv, increLoad, At, statics, process, history
<1>1. /\ pc' = [pc EXCEPT ![t] = "loaded"] /\ pc' \in [Threads -> Places]
      /\ reg' = [reg EXCEPT ![t] = insn_count] /\ reg' \in [Threads -> Nat]
      /\ calls' \in [Threads -> Seq(Calls)]
  <2>1. insn_count \in Nat /\ "loaded" \in Places
    BY DEF TypeOK, Places
  <2> QED BY <2>1, ProceedType
<1>2. TypeOK'
  BY <1>1 DEF TypeOK
<1>3. DOMAIN pc = Threads /\ DOMAIN reg = Threads /\ pc[t] = "ready"
  BY DEF TypeOK
<1>4. CountInv'
  BY <1>1, <1>3 DEF CountInv, NeverEarly
<1>5. \A border \in Nat : Reached(border)' => Reached(border)
  BY <1>1, <1>3 DEF Reached
<1>6. \A border \in Nat : Sees(border) => Sees(border)'
  BY <1>1, <1>3 DEF Sees
<1>7. BorderInv'
  <2>1. Reached(SKIP)' => Reached(SKIP)
    BY <1>5, Borders
  <2>2. Reached(END)' => Reached(END)
    BY <1>5, Borders
  <2>3. (Sees(SKIP) => Sees(SKIP)') /\ (Sees(END) => Sees(END)')
    BY <1>6, Borders
  <2> QED BY <2>1, <2>2, <2>3 DEF BorderInv
<1> QED BY <1>2, <1>4, <1>7

\* The store makes one new value, one above that of the register: either the border
\* was behind the register already, or t now holds the border itself and sees it.
LEMMA StoreIInv == ASSUME IInv, NEW t \in Threads, increStore(t) PROVE IInv'
<1> USE DEF IInv, increStore, At, counted, process
<1>1. /\ pc' = [pc EXCEPT ![t] = "stored"] /\ pc' \in [Threads -> Places]
      /\ reg' = [reg EXCEPT ![t] = reg[t]] /\ reg' \in [Threads -> Nat]
      /\ calls' \in [Threads -> Seq(Calls)]
  <2>1. reg[t] \in Nat /\ "stored" \in Places
    BY DEF TypeOK, Places
  <2> QED BY <2>1, ProceedType
<1>2. /\ DOMAIN pc = Threads /\ pc[t] = "loaded" /\ reg' = reg /\ reg[t] \in Nat
      /\ passed \in Nat /\ passed' = passed + 1
      /\ insn_count' = reg[t] + 1 /\ start_sim' = start_sim /\ exited' = exited
  BY <1>1 DEF TypeOK
<1>3. TypeOK'
  BY <1>1, <1>2 DEF TypeOK
<1>4. CountInv'
  <2>1. reg[t] <= passed
    BY <1>2 DEF CountInv
  <2>2. \A u \in Threads : reg[u] \in Nat
    BY DEF TypeOK
  <2>3. /\ \A u \in Threads : pc'[u] = "loaded" => reg'[u] <= passed'
        /\ \A u \in Threads : pc'[u] = "stored" => reg'[u] + 1 <= passed'
    BY <1>1, <1>2, <2>1, <2>2 DEF CountInv
  <2>4. NeverEarly'
    BY <1>2, Borders DEF CountInv, NeverEarly
  <2> QED BY <1>2, <2>1, <2>3, <2>4 DEF CountInv
<1>5. \A border \in Nat : Sees(border) => Sees(border)'
  BY <1>1, <1>2 DEF Sees
<1>6. \A border \in Nat : Reached(border)' => Reached(border) \/ Sees(border)'
  <2> SUFFICES ASSUME NEW border \in Nat, Reached(border)', ~ Sees(border)'
               PROVE  Reached(border)
    OBVIOUS
  <2>1. reg[t] + 1 # border
    BY <1>1, <1>2 DEF Sees
  <2>2. reg[t] + 1 >= border => Reached(border)
    BY <1>2, <2>1 DEF Reached
  <2>3. CASE insn_count' >= border
    BY <1>2, <2>2, <2>3
  <2>4. CASE \E u \in Threads : pc'[u] = "loaded" /\ reg'[u] >= border
    BY <1>1, <1>2, <2>4 DEF Reached
  <2>5. CASE \E u \in Threads : pc'[u] = "stored" /\ reg'[u] + 1 >= border
    <3>1. PICK u \in Threads : pc'[u] = "stored" /\ reg[u] + 1 >= border
      BY <1>2, <2>5
    <3>2. CASE u = t
      BY <2>2, <3>1, <3>2
    <3>3. CASE u # t
      BY <1>1, <1>2, <3>1, <3>3 DEF Reached
    <3> QED BY <3>2, <3>3
  <2> QED BY <2>3, <2>4, <2>5 DEF Reached
<1>7. BorderInv'
  <2>1. Reached(SKIP)' => Reached(SKIP) \/ Sees(SKIP)'
    BY <1>6, Borders
  <2>2. Reached(END)' => Reached(END) \/ Sees(END)'
    BY <1>6, Borders
  <2>3. (Sees(SKIP) => Sees(SKIP)') /\ (Sees(END) => Sees(END)')
    BY <1>5, Borders
  <2> QED BY <1>2, <2>1, <2>2, <2>3 DEF BorderInv
<1> QED BY <1>3, <1>4, <1>7

\* The test drops a value of the count: if it is a border, the flag takes its place.
LEMMA TestIInv == ASSUME IInv, NEW t \in Threads, increTest(t) PROVE IInv'
<1> USE DEF IInv, increTest, At, process, history
<1>1. /\ pc[t] = "stored" /\ calls[t] # <<>> /\ reg[t] \in Nat
      /\ DOMAIN pc = Threads /\ DOMAIN reg = Threads
      /\ passed' = passed /\ insn_count' = insn_count /\ passed \in Nat
  BY DEF TypeOK
<1>2. (start_sim' <=> start_sim \/ reg[t] + 1 = SKIP) /\ (exited' <=> exited \/ reg[t] + 1 = END)
  BY DEF Starts, Ends, tested, counted
<1>3. /\ calls' \in [Threads -> Seq(Calls)] /\ pc' \in [Threads -> Places]
      /\ reg' \in [Threads -> Nat] /\ pc'[t] \in {"ready", "exiting"}
      /\ \A u \in Threads \ {t} : pc'[u] = pc[u] /\ reg'[u] = reg[u]
  <2>1. CASE Ends(t)
    <3>1. Proceed(t, "exiting", reg[t]) /\ "exiting" \in Places
      BY <2>1 DEF Places
    <3> QED BY <1>1, <3>1, ProceedType
  <2>2. CASE ~ Ends(t)
    <3>1. Return(t)
      BY <2>2
    <3> QED BY <1>1, <3>1, ReturnType
  <2> QED BY <2>1, <2>2
<1>4. TypeOK'
  <2>1. start_sim' \in BOOLEAN /\ exited' \in BOOLEAN
    OBVIOUS
  <2> QED BY <1>3, <2>1 DEF TypeOK
<1>5. CountInv'
  <2>1. reg[t] + 1 <= passed
    BY <1>1 DEF CountInv
  <2>2. NeverEarly'
    BY <1>1, <1>2, <2>1, Borders DEF CountInv, NeverEarly
  <2> QED BY <1>1, <1>3, <2>2 DEF CountInv
<1>6. \A border \in Nat : Reached(border)' => Reached(border)
  BY <1>1, <1>3 DEF Reached
<1>7. \A border \in Nat : Sees(border) => Sees(border)' \/ reg[t] + 1 = border
  BY <1>1, <1>3 DEF Sees
<1>8. BorderInv'
  <2>1. Reached(SKIP)' => Reached(SKIP)
    BY <1>6, Borders
  <2>2. Reached(END)' => Reached(END)
    BY <1>6, Borders
  <2>3. /\ Sees(SKIP) => Sees(SKIP)' \/ reg[t] + 1 = SKIP
        /\ Sees(END) => Sees(END)' \/ reg[t] + 1 = END
    BY <1>7, Borders
  <2> QED BY <1>2, <2>1, <2>2, <2>3 DEF BorderInv
<1> QED BY <1>4, <1>5, <1>8

LEMMA ExeLoadIInv == ASSUME IInv, NEW t \in Threads, exeLoad(t) PROVE IInv'
<1> USE DEF IInv, exeLoad, At, statics, process, history
<1>1. num_exes_before_mem \in Nat /\ "counting" \in Places
  BY DEF TypeOK, Places
<1>2. TypeOK'
  BY <1>1, ProceedType DEF TypeOK
<1>3. CountInv' /\ BorderInv'
  BY <1>1, ProceedOutside
<1> QED BY <1>2, <1>3

LEMMA ExeStoreIInv == ASSUME IInv, NEW t \in Threads, exeStore(t) PROVE IInv'
<1> USE DEF IInv, exeStore, At, process
<1>1. num_exes_before_mem' \in Nat /\ did' \in Seq({"exe", "access"})
  BY TracedType DEF TypeOK, counted
<1>2. TypeOK'
  BY <1>1, ReturnType DEF TypeOK
<1>3. CountInv' /\ BorderInv'
  BY ReturnType, OutsideCount DEF TypeOK
<1> QED BY <1>2, <1>3

LEMMA MemTestIInv == ASSUME IInv, NEW t \in Threads, memTest(t) PROVE IInv'
<1> USE DEF IInv, memTest, At, statics, process, history
<1>1. PICK place \in {"printing", "line"} : Proceed(t, place, num_exes_before_mem)
  OBVIOUS
<1>2. num_exes_before_mem \in Nat /\ place \in Places
  BY DEF TypeOK, Places
<1>3. TypeOK'
  BY <1>1, <1>2, ProceedType DEF TypeOK
<1>4. CountInv' /\ BorderInv'
  BY <1>1, <1>2, ProceedOutside
<1> QED BY <1>3, <1>4

LEMMA MemCountIInv == ASSUME IInv, NEW t \in Threads, memCount(t) PROVE IInv'
<1> USE DEF IInv, memCount, At, statics, process, history
<1>1. reg[t] \in Nat /\ "printed" \in Places
  BY DEF TypeOK, Places
<1>2. trace_out' \in Seq(Nat)
  BY <1>1, PrintsType
<1>3. TypeOK'
  BY <1>1, <1>2, ProceedType DEF TypeOK
<1>4. CountInv' /\ BorderInv'
  BY <1>1, ProceedOutside
<1> QED BY <1>3, <1>4

LEMMA MemResetIInv == ASSUME IInv, NEW t \in Threads, memReset(t) PROVE IInv'
<1> USE DEF IInv, memReset, At, process, history
<1>1. "line" \in Places
  BY DEF Places
<1>2. TypeOK'
  BY <1>1, ProceedType DEF TypeOK
<1>3. CountInv' /\ BorderInv'
  BY <1>1, ProceedOutside
<1> QED BY <1>2, <1>3

LEMMA MemLineIInv == ASSUME IInv, NEW t \in Threads, memLine(t) PROVE IInv'
<1> USE DEF IInv, memLine, At, statics, process
<1>1. trace_out' \in Seq(Nat) /\ did' \in Seq({"exe", "access"})
  BY PrintsType, TracedType
<1>2. TypeOK'
  BY <1>1, ReturnType DEF TypeOK
<1>3. CountInv' /\ BorderInv'
  BY ReturnType, OutsideCount DEF TypeOK
<1> QED BY <1>2, <1>3

LEMMA NextIInv == IInv /\ [Next]_vars => IInv'
<1> SUFFICES ASSUME IInv, [Next]_vars PROVE IInv'
  OBVIOUS
<1>1. ASSUME NEW t \in Threads, Execute(t) PROVE IInv'
  BY <1>1, ExecuteIInv
<1>2. ASSUME NEW t \in Threads, Analysis(t) PROVE IInv'
  BY <1>2, SkipIInv, LoadIInv, StoreIInv, TestIInv, ExeLoadIInv, ExeStoreIInv, MemTestIInv,
     MemCountIInv, MemResetIInv, MemLineIInv DEF Analysis
<1>3. CASE EndProcess
  BY <1>3 DEF EndProcess, IInv, TypeOK, CountInv, NeverEarly, BorderInv, Reached, Sees,
     statics, threads, history
<1>4. CASE UNCHANGED vars
  BY <1>4 DEF IInv, TypeOK, CountInv, NeverEarly, BorderInv, Reached, Sees, vars, statics,
     threads, process, history
<1> QED BY <1>1, <1>2, <1>3, <1>4 DEF Next, Terminated

LEMMA SpecIInv == Spec => []IInv
  BY InitIInv, NextIInv, PTL DEF Spec
-----------------------------------------------------------------------------
\* The positions that Before counts.
Run(seq, p) == {q \in 1 .. (p - 1) : \A r \in q .. (p - 1) : seq[r] = "exe"}

Kinds == {"exe", "access"}

LEMMA RunFinite ==
  ASSUME NEW s, NEW p \in Nat
  PROVE  /\ IsFiniteSet(Run(s, p)) /\ Before(s, p) = Cardinality(Run(s, p))
         /\ Before(s, p) \in Nat
<1>1. IsFiniteSet(1 .. (p - 1))
  BY FS_Interval
<1>2. Run(s, p) \subseteq 1 .. (p - 1)
  BY DEF Run
<1>3. IsFiniteSet(Run(s, p))
  BY <1>1, <1>2, FS_Subset
<1>4. Before(s, p) = Cardinality(Run(s, p))
  BY DEF Before, Run
<1> QED BY <1>3, <1>4, FS_CardinalityType

LEMMA AppendKinds ==
  ASSUME NEW s \in Seq(Kinds), NEW k \in Kinds
  PROVE  /\ Append(s, k) \in Seq(Kinds) /\ Len(s) \in Nat /\ Len(Append(s, k)) = Len(s) + 1
         /\ \A r \in 1 .. Len(s) : Append(s, k)[r] = s[r]
         /\ Append(s, k)[Len(s) + 1] = k
  OBVIOUS

\* What Before counts does not change when more is done ...
LEMMA BeforeKept ==
  ASSUME NEW s \in Seq(Kinds), NEW k \in Kinds, NEW p \in 1 .. (Len(s) + 1)
  PROVE  Before(Append(s, k), p) = Before(s, p)
<1> DEFINE a == Append(s, k)
<1>1. Len(s) \in Nat /\ \A r \in 1 .. Len(s) : a[r] = s[r]
  BY AppendKinds
<1> HIDE DEF a
<1>2. \A q \in 1 .. (p - 1) : \A r \in q .. (p - 1) : a[r] = s[r]
  BY <1>1
<1>3. Run(a, p) = Run(s, p)
  BY <1>2 DEF Run
<1> QED BY <1>3 DEF Before, Run, a

\* ... another instruction makes one more, and an access ends the run.
LEMMA BeforeExe ==
  ASSUME NEW s \in Seq(Kinds)
  PROVE  Before(Append(s, "exe"), Len(s) + 2) = Before(s, Len(s) + 1) + 1
<1> DEFINE a == Append(s, "exe")
           n == Len(s)
<1>1. n \in Nat /\ (\A r \in 1 .. n : a[r] = s[r]) /\ a[n + 1] = "exe"
  BY AppendKinds DEF Kinds
<1> HIDE DEF a, n
<1>2. n + 1 \in Nat /\ n + 2 \in Nat /\ (n + 1) - 1 = n /\ (n + 2) - 1 = n + 1
  BY <1>1
<1>3. ASSUME NEW q \in 1 .. n
      PROVE  q \in Run(a, n + 2) <=> q \in Run(s, n + 1)
  <2>1. q \in 1 .. (n + 1) /\ \A r \in q .. (n + 1) : r = n + 1 \/ (r \in q .. n /\ a[r] = s[r])
    BY <1>1
  <2>2. \A r \in q .. n : r \in q .. (n + 1)
    BY <1>1
  <2> QED BY <1>1, <1>2, <2>1, <2>2 DEF Run
<1>4. n + 1 \in Run(a, n + 2)
  <2>1. n + 1 \in 1 .. (n + 1) /\ \A r \in (n + 1) .. (n + 1) : r = n + 1
    BY <1>1
  <2> QED BY <1>1, <1>2, <2>1 DEF Run
<1>5. Run(a, n + 2) \subseteq 1 .. (n + 1) /\ Run(s, n + 1) \subseteq 1 .. n
  BY <1>2 DEF Run
<1>6. \A q \in 1 .. (n + 1) : q = n + 1 \/ q \in 1 .. n
  BY <1>1
<1>7. n + 1 \notin Run(s, n + 1)
  BY <1>1, <1>5
<1>8. Run(a, n + 2) = Run(s, n + 1) \cup {n + 1}
  BY <1>3, <1>4, <1>5, <1>6
<1>9. IsFiniteSet(Run(s, n + 1))
  BY <1>2, RunFinite
<1>10. Cardinality(Run(a, n + 2)) = Cardinality(Run(s, n + 1)) + 1
  BY <1>7, <1>8, <1>9, FS_AddElement
<1> QED BY <1>2, <1>10, RunFinite DEF a, n

LEMMA BeforeAccess ==
  ASSUME NEW s \in Seq(Kinds)
  PROVE  Before(Append(s, "access"), Len(s) + 2) = 0
<1> DEFINE a == Append(s, "access")
           n == Len(s)
<1>1. n \in Nat /\ a[n + 1] = "access"
  BY AppendKinds DEF Kinds
<1> HIDE DEF a, n
<1>2. n + 2 \in Nat /\ (n + 2) - 1 = n + 1
  BY <1>1
<1>3. \A q \in 1 .. (n + 1) : n + 1 \in q .. (n + 1)
  BY <1>1
<1>4. Run(a, n + 2) = {}
  BY <1>1, <1>2, <1>3 DEF Run
<1>5. Cardinality(Run(a, n + 2)) = 0
  BY <1>4, FS_EmptySet
<1> QED BY <1>2, <1>5, RunFinite DEF a, n

\* The instructions since the last access that t traced.
Since == Before(did, Len(did) + 1)

\* The places of the file.
LEMMA PlaceType ==
  ASSUME NEW p \in Nat
  PROVE  /\ IsFiniteSet(Accesses(p)) /\ IsFiniteSet(Counts(p))
         /\ Cardinality(Accesses(p)) \in Nat /\ Cardinality(Counts(p)) \in Nat
         /\ Place(p) \in Nat
<1>1. IsFiniteSet(1 .. p)
  BY FS_Interval
<1>2. Accesses(p) \subseteq 1 .. p /\ Counts(p) \subseteq 1 .. p
  BY DEF Accesses, Counts
<1>3. IsFiniteSet(Accesses(p)) /\ IsFiniteSet(Counts(p))
  BY <1>1, <1>2, FS_Subset
<1>4. Cardinality(Accesses(p)) \in Nat /\ Cardinality(Counts(p)) \in Nat
  BY <1>3, FS_CardinalityType
<1> QED BY <1>3, <1>4 DEF Place

LEMMA PlaceBounds ==
  ASSUME NEW n \in Nat, NEW p \in Accesses(n)
  PROVE  /\ p \in 1 .. n /\ Place(p) \in 1 .. Place(n)
         /\ Before(did, p) # 0 => Place(p) >= 2
<1>1. p \in 1 .. n /\ p \in Nat /\ p \in Accesses(p)
  BY DEF Accesses
<1>2. Accesses(p) \subseteq Accesses(n) /\ Counts(p) \subseteq Counts(n)
  BY <1>1 DEF Accesses, Counts
<1>3. /\ IsFiniteSet(Accesses(p)) /\ IsFiniteSet(Counts(p))
      /\ IsFiniteSet(Accesses(n)) /\ IsFiniteSet(Counts(n))
      /\ Cardinality(Accesses(p)) \in Nat /\ Cardinality(Counts(p)) \in Nat
      /\ Cardinality(Accesses(n)) \in Nat /\ Cardinality(Counts(n)) \in Nat
  BY <1>1, PlaceType
<1>4. /\ Cardinality(Accesses(p)) <= Cardinality(Accesses(n))
      /\ Cardinality(Counts(p)) <= Cardinality(Counts(n))
  BY <1>2, <1>3, FS_Subset
<1>5. Cardinality(Accesses(p)) # 0
  BY <1>1, <1>3, FS_EmptySet
<1>6. Before(did, p) # 0 => Cardinality(Counts(p)) # 0
  <2>1. Before(did, p) # 0 => p \in Counts(p)
    BY <1>1 DEF Counts
  <2> QED BY <1>3, <2>1, FS_EmptySet
<1> QED BY <1>1, <1>3, <1>4, <1>5, <1>6 DEF Place

\* The accesses traced so far keep their places when t does more.
LEMMA DidMore ==
  ASSUME did \in Seq(Kinds), NEW k \in Kinds, did' = Append(did, k),
         NEW p \in 0 .. Len(did)
  PROVE  Accesses(p)' = Accesses(p) /\ Counts(p)' = Counts(p) /\ Place(p)' = Place(p)
<1>1. Len(did) \in Nat /\ \A q \in 1 .. p : did'[q] = did[q]
  BY AppendKinds
<1>2. Accesses(p)' = Accesses(p)
  BY <1>1 DEF Accesses
<1>3. \A q \in 1 .. p : Before(did', q) = Before(did, q)
  BY <1>1, BeforeKept
<1>4. Accesses(p) \subseteq 1 .. p
  BY DEF Accesses
<1>5. Counts(p)' = Counts(p)
  BY <1>2, <1>3, <1>4 DEF Counts
<1> QED BY <1>2, <1>5 DEF Place

LEMMA DidExe ==
  ASSUME did \in Seq(Kinds), did' = Append(did, "exe")
  PROVE  /\ Accesses(Len(did))' = Accesses(Len(did))
         /\ Place(Len(did))' = Place(Len(did))
<1>1. PICK n \in Nat : n = Len(did)
  BY AppendKinds DEF Kinds
<1>2. n \in Nat /\ Len(did') = n + 1 /\ did'[n + 1] = "exe" /\ "exe" \in Kinds
  BY <1>1, AppendKinds DEF Kinds
<1>3. n \in 0 .. n
  BY <1>2
<1>4. Accesses(n)' = Accesses(n) /\ Counts(n)' = Counts(n)
  BY <1>1, <1>2, <1>3, DidMore
<1>5. \A q \in 1 .. (n + 1) : q = n + 1 \/ q \in 1 .. n
  BY <1>2
<1>6. \A q \in 1 .. n : q \in 1 .. (n + 1)
  BY <1>2
<1>7. Accesses(n + 1)' = Accesses(n)'
  BY <1>2, <1>5, <1>6 DEF Accesses
<1>8. Counts(n + 1)' = Counts(n)'
  BY <1>7 DEF Counts
<1> QED BY <1>1, <1>2, <1>4, <1>7, <1>8 DEF Place

LEMMA DidAccess ==
  ASSUME did \in Seq(Kinds), did' = Append(did, "access")
  PROVE  /\ Accesses(Len(did))' = Accesses(Len(did)) \cup {Len(did) + 1}
         /\ Place(Len(did))' = Place(Len(did)) + IF Since = 0 THEN 1 ELSE 2
<1>1. PICK n \in Nat : n = Len(did)
  BY AppendKinds DEF Kinds
<1>2. n \in Nat /\ Len(did') = n + 1 /\ did'[n + 1] = "access" /\ "access" \in Kinds
  BY <1>1, AppendKinds DEF Kinds
<1>3. n \in 0 .. n /\ n + 1 \in 1 .. (n + 1)
  BY <1>2
<1>4. Accesses(n)' = Accesses(n) /\ Counts(n)' = Counts(n)
  BY <1>1, <1>2, <1>3, DidMore
<1>5. \A q \in 1 .. (n + 1) : q = n + 1 \/ q \in 1 .. n
  BY <1>2
<1>6. \A q \in 1 .. n : q \in 1 .. (n + 1)
  BY <1>2
<1>7. Accesses(n + 1)' = Accesses(n) \cup {n + 1}
  <2>1. Accesses(n + 1)' = Accesses(n)' \cup {n + 1}
    BY <1>2, <1>3, <1>5, <1>6 DEF Accesses
  <2> QED BY <1>4, <2>1
<1>8. Before(did', n + 1) = Since
  BY <1>1, <1>2, <1>3, BeforeKept DEF Since
<1>9. Counts(n + 1)' = IF Since = 0 THEN Counts(n) ELSE Counts(n) \cup {n + 1}
  <2>1. Counts(n + 1)' = {q \in Accesses(n) \cup {n + 1} : Before(did', q) # 0}
    BY <1>7 DEF Counts
  <2>2. Counts(n)' = {q \in Accesses(n) : Before(did', q) # 0}
    BY <1>4 DEF Counts
  <2> QED BY <1>4, <1>8, <2>1, <2>2
<1>10. n + 1 \notin Accesses(n) /\ n + 1 \notin Counts(n)
  BY <1>2 DEF Accesses, Counts
<1>11. /\ IsFiniteSet(Accesses(n)) /\ IsFiniteSet(Counts(n))
       /\ Cardinality(Accesses(n)) \in Nat /\ Cardinality(Counts(n)) \in Nat
  BY <1>2, PlaceType
<1>12. /\ Cardinality(Accesses(n) \cup {n + 1}) = Cardinality(Accesses(n)) + 1
       /\ Cardinality(Counts(n) \cup {n + 1}) = Cardinality(Counts(n)) + 1
  BY <1>10, <1>11, FS_AddElement
<1>13. Place(n) = Cardinality(Accesses(n)) + Cardinality(Counts(n))
  BY DEF Place
<1>14. Place(n + 1)' = Cardinality(Accesses(n) \cup {n + 1}) + Cardinality(Counts(n + 1)')
  BY <1>7 DEF Place
<1>15. Place(n + 1)' = Place(n) + IF Since = 0 THEN 1 ELSE 2
  <2>1. CASE Since = 0
    <3>1. Counts(n + 1)' = Counts(n)
      BY <1>9, <2>1
    <3>2. Place(n + 1)' = Cardinality(Accesses(n)) + 1 + Cardinality(Counts(n))
      BY <1>12, <1>14, <3>1
    <3> QED BY <1>11, <1>13, <2>1, <3>2
  <2>2. CASE Since # 0
    <3>1. Counts(n + 1)' = Counts(n) \cup {n + 1}
      BY <1>9, <2>2
    <3>2. Place(n + 1)' = Cardinality(Accesses(n)) + 1 + (Cardinality(Counts(n)) + 1)
      BY <1>12, <1>14, <3>1
    <3> QED BY <1>11, <1>13, <2>2, <3>2
  <2> QED BY <2>1, <2>2
<1> QED BY <1>1, <1>2, <1>7, <1>15

-----------------------------------------------------------------------------
\* While t is the only thread of the program: t is in increCount ...
Counting(t) == calls[t] # <<>> /\ Head(calls[t]) = "increCount" /\ pc[t] # "exiting"

\* ... which counts each instruction once and compares the count with the borders.
CountAlone(t) ==
  /\ calls[t] # <<>> => callers = {t} /\ \A i \in 2 .. Len(calls[t]) : calls[t][i] # "increCount"
  /\ pc[t] \in {"loaded", "stored", "exiting"} => calls[t] # <<>> /\ Head(calls[t]) = "increCount"
  /\ pc[t] \in {"counting", "printing", "printed", "line"} =>
       calls[t] # <<>> /\ Head(calls[t]) # "increCount"
  /\ insn_count = IF Counting(t) /\ pc[t] # "stored" THEN executed - 1 ELSE executed
  /\ pc[t] = "loaded" => reg[t] = insn_count
  /\ pc[t] = "stored" => reg[t] + 1 = insn_count
  /\ start_sim <=> IF Counting(t) THEN executed - 1 >= SKIP ELSE executed >= SKIP
  /\ exited <=> IF Counting(t) THEN executed - 1 >= END ELSE executed >= END
  /\ exited => pc[t] = "exiting"

\* The items of the accesses that t traced are where they belong.
Written ==
  \A p \in Accesses(Len(did)) :
    /\ trace_out[Place(p)] = 0
    /\ Before(did, p) # 0 => trace_out[Place(p) - 1] = Before(did, p)

\* The last item of the file is the count for an access whose line is still to come.
CountOut ==
  /\ Since # 0 /\ Len(trace_out) = Place(Len(did)) + 1
  /\ trace_out[Len(trace_out)] = Since

FileAlone(t) ==
  /\ Written
  /\ pc[t] \notin {"printed", "line"} =>
       Len(trace_out) = Place(Len(did)) /\ num_exes_before_mem = Since
  /\ pc[t] \in {"counting", "printing"} => reg[t] = Since
  /\ pc[t] = "printing" => Since # 0
  /\ pc[t] = "printed" => CountOut
  /\ pc[t] = "line" =>
       /\ num_exes_before_mem = 0
       /\ CountOut \/ (Since = 0 /\ Len(trace_out) = Place(Len(did)))

AloneInv(t) ==
  callers \subseteq {t} =>
    /\ \A u \in Threads \ {t} : calls[u] = <<>>
    /\ CountAlone(t) /\ FileAlone(t)

LEMMA InstructionCalls ==
  ASSUME NEW c \in Instructions
  PROVE  /\ c \in Seq(Calls) /\ c # <<>> /\ Head(c) = "increCount"
         /\ \A i \in 2 .. Len(c) : c[i] # "increCount"
<1>1. c \in Seq(Calls)
  BY InstructionsType
<1>2. \/ c = <<"increCount", "countExe">> \/ c = <<"increCount">>
      \/ c = <<"increCount", "memAccessSim">> \/ c = <<"increCount", "memAccessSim", "memAccessSim">>
  BY DEF Instructions
<1>3. c # <<>> /\ Head(c) = "increCount"
  BY <1>2
<1>4. \A i \in 2 .. Len(c) : c[i] # "increCount"
  BY <1>2
<1> QED BY <1>1, <1>3, <1>4

\* increCount is the first routine of an instruction, and no other.
LEMMA TailCalls ==
  ASSUME NEW c \in Seq(Calls), c # <<>>, \A i \in 2 .. Len(c) : c[i] # "increCount"
  PROVE  /\ \A i \in 2 .. Len(Tail(c)) : Tail(c)[i] # "increCount"
         /\ Tail(c) # <<>> => Head(Tail(c)) # "increCount"
<1>1. /\ Len(c) \in Nat /\ Len(Tail(c)) = Len(c) - 1 /\ Tail(c) \in Seq(Calls)
      /\ \A i \in 1 .. Len(c) - 1 : Tail(c)[i] = c[i + 1]
  OBVIOUS
<1>2. ASSUME NEW i \in 1 .. Len(c) - 1 PROVE Tail(c)[i] # "increCount"
  <2>1. i + 1 \in 2 .. Len(c)
    BY <1>1
  <2> QED BY <1>1, <2>1
<1>3. \A i \in 2 .. Len(c) - 1 : i \in 1 .. Len(c) - 1
  BY <1>1
<1>4. Tail(c) # <<>> => 1 \in 1 .. Len(c) - 1 /\ Head(Tail(c)) = Tail(c)[1]
  BY <1>1
<1> QED BY <1>1, <1>2, <1>3, <1>4

LEMMA OthersIdle ==
  ASSUME TypeOK, NEW t \in Threads, Execute(t) \/ Analysis(t)
  PROVE  \A u \in Threads \ {t} : calls'[u] = calls[u]
  BY DEF Execute, Analysis, Skip, increLoad, increStore, increTest, exeLoad, exeStore, memTest,
         memCount, memReset, memLine, Return, Proceed, TypeOK

LEMMA DidSame ==
  ASSUME UNCHANGED did
  PROVE  /\ Since' = Since /\ Accesses(Len(did))' = Accesses(Len(did))
         /\ Place(Len(did))' = Place(Len(did))
         /\ \A p : Place(p)' = Place(p) /\ Before(did', p) = Before(did, p)
<1>1. \A p : Before(did', p) = Before(did, p)
  OBVIOUS
<1>2. \A p : Accesses(p)' = Accesses(p)
  BY DEF Accesses
<1>3. \A p : Counts(p)' = Counts(p)
  BY <1>1, <1>2 DEF Counts
<1>4. \A p : Place(p)' = Place(p)
  BY <1>2, <1>3 DEF Place
<1>5. /\ Accesses(Len(did))' = Accesses(Len(did))
      /\ Place(Len(did))' = Place(Len(did)) /\ Since' = Since
  BY <1>2, <1>4 DEF Since, Accesses, Counts, Place
<1> QED BY <1>1, <1>4, <1>5

LEMMA WrittenSame ==
  ASSUME UNCHANGED <<did, trace_out>>
  PROVE  (Written => Written') /\ (CountOut => CountOut')
<1>1. Written => Written'
  BY DidSame DEF Written
<1>2. CountOut => CountOut'
  BY DidSame DEF CountOut
<1> QED BY <1>1, <1>2

\* A step that is not about the file.
LEMMA FileSame ==
  ASSUME NEW t \in Threads, FileAlone(t), UNCHANGED <<did, trace_out, num_exes_before_mem>>,
         pc[t] \in {"ready", "loaded", "stored"}, pc'[t] \in {"ready", "loaded", "stored", "exiting"}
  PROVE  FileAlone(t)'
  BY DidSame, WrittenSame DEF FileAlone

\* A step outside increCount, in a routine or at its end.
LEMMA CountSame ==
  ASSUME NEW t \in Threads, CountAlone(t), calls[t] \in Seq(Calls), calls[t] # <<>>,
         Head(calls[t]) # "increCount",
         UNCHANGED <<start_sim, insn_count, exited, executed, callers>>,
         \/ pc'[t] \in {"counting", "printing", "printed", "line"} /\ calls'[t] = calls[t]
         \/ pc'[t] = "ready" /\ calls'[t] = Tail(calls[t])
  PROVE  CountAlone(t)'
<1> DEFINE c == calls[t]
<1>0. callers = {t} /\ \A i \in 2 .. Len(c) : c[i] # "increCount"
  BY DEF CountAlone
<1>1. /\ \A i \in 2 .. Len(Tail(c)) : Tail(c)[i] # "increCount"
      /\ Tail(c) # <<>> => Head(Tail(c)) # "increCount"
  BY <1>0, TailCalls
<1>2. ~ Counting(t) /\ ~ Counting(t)'
  BY <1>1 DEF Counting
<1>3. calls'[t] # <<>> => callers = {t} /\ \A i \in 2 .. Len(calls'[t]) : calls'[t][i] # "increCount"
  BY <1>0, <1>1
<1>4. pc[t] # "exiting" /\ ~ exited
  BY DEF CountAlone
<1> QED BY <1>1, <1>2, <1>3 DEF CountAlone

\* What is written stays where it is, when t does more or the file grows.
LEMMA WrittenStays ==
  ASSUME Written, did \in Seq(Kinds), did' = Append(did, "exe"), UNCHANGED trace_out
  PROVE  Written'
<1>1. PICK n \in Nat : n = Len(did)
  BY AppendKinds DEF Kinds
<1>2. Accesses(Len(did))' = Accesses(n) /\ "exe" \in Kinds
  BY <1>1, DidExe DEF Kinds
<1>3. \A p \in Accesses(n) : Place(p)' = Place(p) /\ Before(did', p) = Before(did, p)
  <2>1. \A p \in Accesses(n) : p \in 0 .. n /\ p \in 1 .. (n + 1)
    BY DEF Accesses
  <2> QED BY <1>1, <1>2, <2>1, DidMore, BeforeKept
<1>4. \A p \in Accesses(n) : /\ trace_out[Place(p)] = 0
                             /\ Before(did, p) # 0 => trace_out[Place(p) - 1] = Before(did, p)
  BY <1>1 DEF Written
<1> QED BY <1>2, <1>3, <1>4 DEF Written

LEMMA WrittenLonger ==
  ASSUME TypeOK, Written, UNCHANGED did, Len(trace_out) = Place(Len(did)),
         \A q \in 1 .. Len(trace_out) : trace_out'[q] = trace_out[q]
  PROVE  Written'
<1>1. PICK n \in Nat : n = Len(did)
  BY DEF TypeOK
<1>2. Accesses(Len(did))' = Accesses(n) /\ \A p : Place(p)' = Place(p) /\ Before(did', p) = Before(did, p)
  BY <1>1, DidSame
<1>3. ASSUME NEW p \in Accesses(n)
      PROVE  /\ trace_out'[Place(p)] = 0
             /\ Before(did, p) # 0 => trace_out'[Place(p) - 1] = Before(did, p)
  <2>1. /\ Place(p) \in 1 .. Place(n) /\ Place(n) \in Nat
        /\ Before(did, p) # 0 => Place(p) >= 2
    BY PlaceBounds, PlaceType
  <2>2. /\ Place(p) \in 1 .. Len(trace_out)
        /\ Before(did, p) # 0 => Place(p) - 1 \in 1 .. Len(trace_out)
    BY <1>1, <2>1
  <2>3. /\ trace_out[Place(p)] = 0
        /\ Before(did, p) # 0 => trace_out[Place(p) - 1] = Before(did, p)
    BY <1>1 DEF Written
  <2> QED BY <2>2, <2>3
<1> QED BY <1>2, <1>3 DEF Written

LEMMA ExecuteAlone ==
  ASSUME TypeOK, NEW t \in Threads, CountAlone(t), FileAlone(t), Execute(t), callers' \subseteq {t}
  PROVE  CountAlone(t)' /\ FileAlone(t)'
<1>1. PICK instruction \in Instructions : calls' = [calls EXCEPT ![t] = instruction]
  BY DEF Execute
<1>2. /\ calls[t] = <<>> /\ calls'[t] = instruction /\ instruction # <<>>
      /\ Head(instruction) = "increCount" /\ \A i \in 2 .. Len(instruction) : instruction[i] # "increCount"
      /\ executed' = executed + 1 /\ executed \in Nat /\ callers' = {t}
      /\ UNCHANGED <<statics, trace_out, process, pc, reg, did>>
  BY <1>1, InstructionCalls DEF Execute, TypeOK
<1>3. pc[t] = "ready"
  BY <1>2 DEF CountAlone, TypeOK, Places
<1>4. ~ Counting(t) /\ Counting(t)' /\ ~ exited
  BY <1>2, <1>3 DEF Counting, CountAlone
<1>5. CountAlone(t)'
  BY <1>2, <1>3, <1>4 DEF CountAlone, statics, process
<1>6. FileAlone(t)'
  BY <1>2, <1>3, FileSame DEF statics
<1> QED BY <1>5, <1>6

LEMMA SkipAlone ==
  ASSUME TypeOK, NEW t \in Threads, CountAlone(t), FileAlone(t), Skip(t)
  PROVE  CountAlone(t)' /\ FileAlone(t)'
<1>1. /\ pc[t] = "ready" /\ calls[t] # <<>> /\ Head(calls[t]) # "increCount"
      /\ calls[t] \in Seq(Calls) /\ pc'[t] = "ready" /\ calls'[t] = Tail(calls[t])
      /\ UNCHANGED <<statics, trace_out, process, executed, history>>
  BY DEF Skip, At, Return, TypeOK
<1>2. CountAlone(t)'
  BY <1>1, CountSame DEF statics, process, history
<1>3. FileAlone(t)'
  BY <1>1, FileSame DEF statics, history
<1> QED BY <1>2, <1>3

LEMMA LoadAlone ==
  ASSUME TypeOK, NEW t \in Threads, CountAlone(t), FileAlone(t), increLoad(t)
  PROVE  CountAlone(t)' /\ FileAlone(t)'
<1>1. /\ pc[t] = "ready" /\ calls[t] # <<>> /\ Head(calls[t]) = "increCount"
      /\ pc'[t] = "loaded" /\ calls' = calls /\ reg'[t] = insn_count
      /\ UNCHANGED <<statics, trace_out, process, executed, history>>
  BY DEF increLoad, At, Proceed, TypeOK
<1>2. Counting(t) /\ Counting(t)'
  BY <1>1 DEF Counting
<1>3. CountAlone(t)'
  BY <1>1, <1>2 DEF CountAlone, statics, process, history
<1>4. FileAlone(t)'
  BY <1>1, FileSame DEF statics, history
<1> QED BY <1>3, <1>4

LEMMA StoreAlone ==
  ASSUME TypeOK, NEW t \in Threads, CountAlone(t), FileAlone(t), increStore(t)
  PROVE  CountAlone(t)' /\ FileAlone(t)'
<1>1. /\ pc[t] = "loaded" /\ calls[t] # <<>> /\ Head(calls[t]) = "increCount"
      /\ pc'[t] = "stored" /\ calls' = calls /\ reg'[t] = reg[t] /\ insn_count' = reg[t] + 1
      /\ UNCHANGED <<start_sim, num_exes_before_mem, trace_out, process, executed, callers, did>>
  BY DEF increStore, At, Proceed, TypeOK, counted
<1>2. Counting(t) /\ Counting(t)'
  BY <1>1 DEF Counting
<1>3. insn_count = executed - 1 /\ reg[t] = insn_count /\ executed \in Nat /\ insn_count \in Nat
  BY <1>1, <1>2 DEF CountAlone, TypeOK
<1>4. insn_count' = executed
  BY <1>1, <1>3
<1>5. CountAlone(t)'
  BY <1>1, <1>2, <1>4 DEF CountAlone, process
<1>6. FileAlone(t)'
  BY <1>1, FileSame
<1> QED BY <1>5, <1>6

\* The tests set each flag on the instruction.
LEMMA TestAlone ==
  ASSUME TypeOK, NEW t \in Threads, CountAlone(t), FileAlone(t), increTest(t)
  PROVE  CountAlone(t)' /\ FileAlone(t)'
<1>1. /\ pc[t] = "stored" /\ calls[t] # <<>> /\ Head(calls[t]) = "increCount"
      /\ calls[t] \in Seq(Calls)
      /\ UNCHANGED <<insn_count, num_exes_before_mem, trace_out, executed, history>>
  BY DEF increTest, At, TypeOK
<1>2. Counting(t)
  BY <1>1 DEF Counting
<1>3. reg[t] + 1 = executed /\ executed \in Nat /\ insn_count = executed /\ ~ exited
  BY <1>1, <1>2 DEF CountAlone, TypeOK
<1>4. /\ start_sim' <=> start_sim \/ executed = SKIP
      /\ exited' <=> executed = END
  BY <1>3 DEF increTest, Starts, Ends, tested, counted
<1>5. /\ start_sim' <=> executed >= SKIP
      /\ exited' <=> executed >= END
  <2>1. (start_sim <=> executed - 1 >= SKIP) /\ ~ (executed - 1 >= END)
    BY <1>2, <1>3 DEF CountAlone
  <2> QED BY <1>3, <1>4, <2>1, Borders
<1>6. CASE exited'
  <2>1. Ends(t)
    BY <1>3, <1>6 DEF increTest
  <2>2. pc'[t] = "exiting" /\ calls' = calls
    BY <2>1 DEF increTest, Proceed, TypeOK
  <2>3. ~ Counting(t)'
    BY <2>2 DEF Counting
  <2>4. CountAlone(t)'
    BY <1>1, <1>3, <1>5, <2>2, <2>3 DEF CountAlone, history
  <2>5. FileAlone(t)'
    BY <1>1, <2>2, FileSame DEF history
  <2> QED BY <2>4, <2>5
<1>7. CASE ~ exited'
  <2>1. ~ Ends(t)
    BY <1>7 DEF increTest
  <2>2. pc'[t] = "ready" /\ calls'[t] = Tail(calls[t])
    BY <2>1 DEF increTest, Return, TypeOK
  <2>3. /\ \A i \in 2 .. Len(calls'[t]) : calls'[t][i] # "increCount"
        /\ calls'[t] # <<>> => Head(calls'[t]) # "increCount"
    BY <1>1, <2>2, TailCalls DEF CountAlone
  <2>4. ~ Counting(t)'
    BY <2>3 DEF Counting
  <2>5. CountAlone(t)'
    BY <1>1, <1>3, <1>5, <1>7, <2>2, <2>3, <2>4 DEF CountAlone, history
  <2>6. FileAlone(t)'
    BY <1>1, <2>2, FileSame DEF history
  <2> QED BY <2>5, <2>6
<1> QED BY <1>6, <1>7

LEMMA ExeLoadAlone ==
  ASSUME TypeOK, NEW t \in Threads, CountAlone(t), FileAlone(t), exeLoad(t)
  PROVE  CountAlone(t)' /\ FileAlone(t)'
<1>1. /\ pc[t] = "ready" /\ calls[t] # <<>> /\ Head(calls[t]) # "increCount"
      /\ calls[t] \in Seq(Calls) /\ pc'[t] = "counting" /\ calls'[t] = calls[t]
      /\ reg'[t] = num_exes_before_mem
      /\ UNCHANGED <<statics, trace_out, process, executed, history>>
  BY DEF exeLoad, At, Proceed, TypeOK
<1>2. CountAlone(t)'
  BY <1>1, CountSame DEF statics, process, history
<1>3. Since' = Since /\ Place(Len(did))' = Place(Len(did)) /\ (Written => Written')
  BY <1>1, DidSame, WrittenSame DEF history
<1>4. FileAlone(t)'
  BY <1>1, <1>3 DEF FileAlone, statics
<1> QED BY <1>2, <1>4

LEMMA ExeStoreAlone ==
  ASSUME TypeOK, NEW t \in Threads, CountAlone(t), FileAlone(t), exeStore(t)
  PROVE  CountAlone(t)' /\ FileAlone(t)'
<1>1. /\ pc[t] = "counting" /\ calls[t] # <<>> /\ Head(calls[t]) # "increCount"
      /\ calls[t] \in Seq(Calls) /\ pc'[t] = "ready" /\ calls'[t] = Tail(calls[t])
      /\ num_exes_before_mem' = reg[t] + 1
      /\ UNCHANGED <<start_sim, insn_count, trace_out, process, executed, callers>>
  BY DEF exeStore, At, Return, TypeOK, counted
<1>2. CountAlone(t)'
  BY <1>1, CountSame DEF process
<1>3. did' = Append(did, "exe") /\ did \in Seq(Kinds) /\ "exe" \in Kinds
  BY <1>1 DEF CountAlone, exeStore, Traced, TypeOK, Kinds
<1>4. Since' = Since + 1
  <2>1. Len(did') + 1 = Len(did) + 2
    BY <1>3, AppendKinds
  <2>2. Before(did', Len(did) + 2) = Before(did, Len(did) + 1) + 1
    BY <1>3, BeforeExe
  <2> QED BY <2>1, <2>2 DEF Since
<1>5. Accesses(Len(did))' = Accesses(Len(did)) /\ Place(Len(did))' = Place(Len(did))
  BY <1>3, DidExe
<1>6. Written'
  BY <1>1, <1>3, <1>5, WrittenStays DEF FileAlone
<1>7. reg[t] = Since /\ Len(trace_out) = Place(Len(did))
  BY <1>1 DEF FileAlone
<1>8. FileAlone(t)'
  BY <1>1, <1>4, <1>5, <1>6, <1>7 DEF FileAlone
<1> QED BY <1>2, <1>8

LEMMA MemTestAlone ==
  ASSUME TypeOK, NEW t \in Threads, CountAlone(t), FileAlone(t), memTest(t)
  PROVE  CountAlone(t)' /\ FileAlone(t)'
<1>1. /\ pc[t] = "ready" /\ calls[t] # <<>> /\ Head(calls[t]) # "increCount"
      /\ calls[t] \in Seq(Calls) /\ calls'[t] = calls[t]
      /\ pc'[t] = IF num_exes_before_mem # 0 THEN "printing" ELSE "line"
      /\ reg'[t] = num_exes_before_mem
      /\ UNCHANGED <<statics, trace_out, process, executed, history>>
  BY DEF memTest, At, Proceed, TypeOK
<1>2. CountAlone(t)'
  BY <1>1, CountSame DEF statics, process, history
<1>3. Since' = Since /\ Place(Len(did))' = Place(Len(did)) /\ (Written => Written')
  BY <1>1, DidSame, WrittenSame DEF history
<1>4. FileAlone(t)'
  BY <1>1, <1>3 DEF FileAlone, statics
<1> QED BY <1>2, <1>4

LEMMA MemCountAlone ==
  ASSUME TypeOK, NEW t \in Threads, CountAlone(t), FileAlone(t), memCount(t)
  PROVE  CountAlone(t)' /\ FileAlone(t)'
<1>1. /\ pc[t] = "printing" /\ calls[t] # <<>> /\ Head(calls[t]) # "increCount"
      /\ calls[t] \in Seq(Calls) /\ pc'[t] = "printed" /\ calls'[t] = calls[t]
      /\ UNCHANGED <<statics, process, executed, history>>
  BY DEF memCount, At, Proceed, TypeOK
<1>2. CountAlone(t)'
  BY <1>1, CountSame DEF statics, process, history
<1>3. trace_out' = Append(trace_out, reg[t]) /\ trace_out \in Seq(Nat) /\ reg[t] \in Nat
  BY <1>1 DEF CountAlone, memCount, Prints, TypeOK
<1>4. Since' = Since /\ Place(Len(did))' = Place(Len(did))
  BY <1>1, DidSame DEF history
<1>5. /\ Len(trace_out') = Len(trace_out) + 1 /\ trace_out'[Len(trace_out) + 1] = reg[t]
      /\ \A q \in 1 .. Len(trace_out) : trace_out'[q] = trace_out[q]
  BY <1>3
<1>6. reg[t] = Since /\ Since # 0 /\ Len(trace_out) = Place(Len(did)) /\ Written
  BY <1>1 DEF FileAlone
<1>7. Written'
  BY <1>1, <1>3, <1>5, <1>6, WrittenLonger DEF history
<1>8. CountOut'
  BY <1>4, <1>5, <1>6 DEF CountOut
<1>9. FileAlone(t)'
  BY <1>1, <1>7, <1>8 DEF FileAlone
<1> QED BY <1>2, <1>9

LEMMA MemResetAlone ==
  ASSUME TypeOK, NEW t \in Threads, CountAlone(t), FileAlone(t), memReset(t)
  PROVE  CountAlone(t)' /\ FileAlone(t)'
<1>1. /\ pc[t] = "printed" /\ calls[t] # <<>> /\ Head(calls[t]) # "increCount"
      /\ calls[t] \in Seq(Calls) /\ pc'[t] = "line" /\ calls'[t] = calls[t]
      /\ num_exes_before_mem' = 0
      /\ UNCHANGED <<start_sim, insn_count, trace_out, process, executed, history>>
  BY DEF memReset, At, Proceed, TypeOK
<1>2. CountAlone(t)'
  BY <1>1, CountSame DEF process, history
<1>3. (CountOut => CountOut') /\ (Written => Written')
  BY <1>1, WrittenSame DEF history
<1>4. FileAlone(t)'
  BY <1>1, <1>3 DEF FileAlone
<1> QED BY <1>2, <1>4

\* The line takes the next place of the file, after the count if there is one.
LEMMA MemLineAlone ==
  ASSUME TypeOK, NEW t \in Threads, CountAlone(t), FileAlone(t), memLine(t)
  PROVE  CountAlone(t)' /\ FileAlone(t)'
<1>1. /\ pc[t] = "line" /\ calls[t] # <<>> /\ Head(calls[t]) # "increCount"
      /\ calls[t] \in Seq(Calls) /\ pc'[t] = "ready" /\ calls'[t] = Tail(calls[t])
      /\ UNCHANGED <<statics, process, executed, callers>>
  BY DEF memLine, At, Return, TypeOK
<1>2. CountAlone(t)'
  BY <1>1, CountSame DEF statics, process
<1>3. trace_out' = Append(trace_out, 0) /\ trace_out \in Seq(Nat)
  BY <1>1 DEF CountAlone, memLine, Prints, TypeOK
<1>4. did' = Append(did, "access") /\ did \in Seq(Kinds) /\ "access" \in Kinds
  BY <1>1 DEF CountAlone, memLine, Traced, TypeOK, Kinds
<1>5. Since' = 0
  <2>1. Len(did') + 1 = Len(did) + 2
    BY <1>4, AppendKinds
  <2>2. Before(did', Len(did) + 2) = 0
    BY <1>4, BeforeAccess
  <2> QED BY <2>1, <2>2 DEF Since
<1>6. PICK n \in Nat : n = Len(did)
  BY <1>4, AppendKinds
<1>7. /\ Accesses(Len(did))' = Accesses(n) \cup {n + 1}
      /\ Place(Len(did))' = Place(n) + IF Since = 0 THEN 1 ELSE 2
      /\ Len(did') = n + 1
  BY <1>4, <1>6, DidAccess, AppendKinds
<1>8. /\ Len(trace_out') = Len(trace_out) + 1 /\ trace_out'[Len(trace_out) + 1] = 0
      /\ \A q \in 1 .. Len(trace_out) : trace_out'[q] = trace_out[q]
      /\ Len(trace_out) \in Nat
  BY <1>3
<1>9. Place(n) \in Nat
  BY <1>6, PlaceType
<1>10. /\ Len(trace_out) >= Place(n)
       /\ Len(trace_out') = Place(n + 1)'
       /\ Since # 0 => Len(trace_out) = Place(n) + 1 /\ trace_out[Len(trace_out)] = Since
  <2>1. Place(n + 1)' = Place(n) + IF Since = 0 THEN 1 ELSE 2
    BY <1>7
  <2>2. CountOut \/ (Since = 0 /\ Len(trace_out) = Place(n))
    BY <1>1, <1>6 DEF FileAlone
  <2> QED BY <1>6, <1>8, <1>9, <2>1, <2>2 DEF CountOut
<1>11. ASSUME NEW p \in Accesses(n)
       PROVE  /\ trace_out'[Place(p)'] = 0
              /\ Before(did', p) # 0 => trace_out'[Place(p)' - 1] = Before(did', p)
  <2>1. /\ p \in 1 .. n /\ Place(p) \in 1 .. Place(n)
        /\ Before(did, p) # 0 => Place(p) >= 2
    BY PlaceBounds
  <2>2. Place(p)' = Place(p) /\ Before(did', p) = Before(did, p)
    BY <1>4, <1>6, <2>1, DidMore, BeforeKept
  <2>3. /\ trace_out[Place(p)] = 0
        /\ Before(did, p) # 0 => trace_out[Place(p) - 1] = Before(did, p)
    BY <1>6 DEF FileAlone, Written
  <2>4. /\ Place(p) \in 1 .. Len(trace_out)
        /\ Before(did, p) # 0 => Place(p) - 1 \in 1 .. Len(trace_out)
    BY <1>8, <1>9, <1>10, <2>1
  <2> QED BY <1>8, <2>2, <2>3, <2>4
<1>12. /\ trace_out'[Place(n + 1)'] = 0
       /\ Before(did', n + 1) # 0 => trace_out'[Place(n + 1)' - 1] = Before(did', n + 1)
  <2>1. Before(did', n + 1) = Since
    BY <1>4, <1>6, BeforeKept DEF Since
  <2>2. Since # 0 => Len(trace_out) \in 1 .. Len(trace_out) /\ Place(n + 1)' - 1 = Len(trace_out)
    BY <1>8, <1>9, <1>10
  <2> QED BY <1>8, <1>10, <2>1, <2>2
<1>13. Written'
  BY <1>7, <1>11, <1>12 DEF Written
<1>14. num_exes_before_mem' = 0
  BY <1>1 DEF FileAlone, statics
<1>15. FileAlone(t)'
  BY <1>1, <1>5, <1>7, <1>10, <1>13, <1>14 DEF FileAlone
<1> QED BY <1>2, <1>15

LEMMA InitAlone == Init => \A t \in Threads : AloneInv(t)
<1> SUFFICES ASSUME Init, NEW t \in Threads PROVE AloneInv(t)
  OBVIOUS
<1>1. CountAlone(t)
  BY Borders DEF Init, CountAlone, Counting
<1>2. Accesses(0) = {} /\ Counts(0) = {}
  BY DEF Accesses, Counts
<1>3. Place(0) = 0
  BY <1>2, FS_EmptySet DEF Place
<1>4. Before(<<>>, 1) = 0
  <2>1. Run(<<>>, 1) = {}
    BY DEF Run
  <2> QED BY <2>1, RunFinite, FS_EmptySet
<1>5. FileAlone(t)
  BY <1>2, <1>3, <1>4 DEF Init, FileAlone, Written, Since
<1> QED BY <1>1, <1>5 DEF Init, AloneInv

LEMMA NextAlone ==
  IInv /\ (\A t \in Threads : AloneInv(t)) /\ [Next]_vars => (\A t \in Threads : AloneInv(t))'
<1> SUFFICES ASSUME TypeOK, \A u \in Threads : AloneInv(u), [Next]_vars,
                    NEW t \in Threads, callers' \subseteq {t}
             PROVE  AloneInv(t)'
  BY DEF AloneInv, IInv
<1>1. ASSUME NEW u \in Threads, Execute(u) \/ Analysis(u) PROVE AloneInv(t)'
  <2>1. callers \subseteq {t} /\ (Execute(u) => u \in callers')
    BY <1>1 DEF Execute, Analysis, Skip, increLoad, increStore, increTest, exeLoad, exeStore,
       memTest, memCount, memReset, memLine, history
  <2>2. CountAlone(t) /\ FileAlone(t) /\ \A v \in Threads \ {t} : calls[v] = <<>>
    BY <2>1 DEF AloneInv
  <2>3. Analysis(u) => calls[u] # <<>>
    BY DEF Analysis, Skip, increLoad, increStore, increTest, exeLoad, exeStore, memTest,
       memCount, memReset, memLine, At
  <2>4. u = t
    BY <1>1, <2>1, <2>2, <2>3
  <2>5. \A v \in Threads \ {t} : calls'[v] = <<>>
    BY <1>1, <2>2, <2>4, OthersIdle
  <2>6. CASE Execute(t)
    BY <2>2, <2>5, <2>6, ExecuteAlone DEF AloneInv
  <2>7. CASE Analysis(t)
    BY <2>2, <2>5, <2>7, SkipAlone, LoadAlone, StoreAlone, TestAlone, ExeLoadAlone,
       ExeStoreAlone, MemTestAlone, MemCountAlone, MemResetAlone, MemLineAlone
       DEF Analysis, AloneInv
  <2> QED BY <1>1, <2>4, <2>6, <2>7
<1>2. CASE UNCHANGED <<statics, trace_out, exited, threads, executed, history>>
  <2>1. UNCHANGED <<did, trace_out>>
    BY <1>2 DEF history
  <2>2. CountAlone(t) => CountAlone(t)'
    BY <1>2 DEF CountAlone, Counting, statics, threads, history
  <2>3. FileAlone(t) => FileAlone(t)'
    BY <1>2, <2>1, DidSame, WrittenSame DEF FileAlone, statics, threads
  <2> QED BY <1>2, <2>2, <2>3 DEF AloneInv, threads, history
<1>3. EndProcess \/ UNCHANGED vars => UNCHANGED <<statics, trace_out, exited, threads, executed, history>>
  BY DEF EndProcess, vars, process
<1> QED BY <1>1, <1>2, <1>3 DEF Next, Terminated

-----------------------------------------------------------------------------
\* The statics, the trace and the threads have their types in every state.
THEOREM ProfilerType == Spec => []TypeOK
<1>1. IInv => TypeOK
  BY DEF IInv
<1> QED BY <1>1, SpecIInv, PTL

\* Lost increments can only make the trace start late and the run end late, whatever
\* the number of threads.
THEOREM ProfilerNeverEarly == Spec => []NeverEarly
<1>1. IInv => NeverEarly
  BY DEF IInv, CountInv
<1> QED BY <1>1, SpecIInv, PTL

\* And neither border is jumped over: the equality tests of increCount, unlocked as
\* they are, are enough for some thread to start the trace and for some thread to exit.
THEOREM ProfilerNotices == Spec => []BordersNoticed
<1>1. IInv => BordersNoticed
  BY DEF IInv, BorderInv, BordersNoticed, Reached
<1> QED BY <1>1, SpecIInv, PTL

\* With one thread the trace begins and ends on the instruction, and between its routines
\* the file holds before each access the number of other instructions since the last one.
THEOREM ProfilerExactAlone == Spec => []ExactAlone
<1>1. IInv /\ (\A t \in Threads : AloneInv(t)) => ExactAlone
  <2> SUFFICES ASSUME NEW t \in Threads, AloneInv(t), callers \subseteq {t},
                      pc[t] \in {"ready", "exiting"},
                      calls[t] = <<>> \/ Head(calls[t]) # "increCount" \/ pc[t] = "exiting",
                      IInv
               PROVE  /\ insn_count = executed
                      /\ start_sim = (executed >= SKIP) /\ exited = (executed >= END)
                      /\ Len(trace_out) = Place(Len(did))
                      /\ Written /\ num_exes_before_mem = Since
    BY DEF ExactAlone, Written, Since
  <2>1. ~ Counting(t)
    BY DEF Counting
  <2>2. CountAlone(t) /\ FileAlone(t)
    BY DEF AloneInv
  <2>3. /\ insn_count = executed
        /\ start_sim <=> executed >= SKIP
        /\ exited <=> executed >= END
    BY <2>1, <2>2 DEF CountAlone
  <2>4. start_sim \in BOOLEAN /\ exited \in BOOLEAN
    BY DEF IInv, TypeOK
  <2>5. start_sim = (executed >= SKIP) /\ exited = (executed >= END)
    BY <2>3, <2>4
  <2> QED BY <2>2, <2>3, <2>5 DEF FileAlone
<1>2. IInv /\ (\A t \in Threads : AloneInv(t)) /\ [Next]_vars => (\A t \in Threads : AloneInv(t))'
  BY NextAlone
<1> QED BY <1>1, <1>2, InitAlone, SpecIInv, PTL DEF Spec
=============================================================================
