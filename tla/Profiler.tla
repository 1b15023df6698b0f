------------------------------- MODULE Profiler -------------------------------
(***************************************************************************)
(* Workload_Analysis/profiler.cpp: the analysis routines that Pin calls,   *)
(* on the thread of the program that executes the instruction, before each *)
(* instruction.  The tool skips SKIP instructions, traces the LENGTH next  *)
(* ones and calls exit(0).  It has one instruction count and one count of  *)
(* the instructions before a memory access for all threads, and no lock.   *)
(*                                                                         *)
(* A step of a thread makes one access to what the threads share: the load *)
(* of a count, its store, one item printed.  The tool is built with -O3    *)
(* (makefile.unix.config:164), so that a count incremented or tested stays *)
(* in a register for the tests and the print that follow.                  *)
(***************************************************************************)
EXTENDS Integers, Sequences, FiniteSets

CONSTANTS Threads,
          SKIP,      \* instructions to skip before the trace
          LENGTH,    \* 1000000000 in increCount: instructions to trace
          MaxInstrs  \* bound: instructions the program executes in all

ASSUME ProfilerAssumption ==
  /\ SKIP \in Nat \ {0} /\ LENGTH \in Nat \ {0}
  /\ MaxInstrs \in Nat

END == SKIP + LENGTH

\* The analysis routines.  bpSim, as far as its code is live, and nonBranchNorMem are
\* one routine with two names: countExe.
Calls == {"increCount", "memAccessSim", "countExe"}

\* What instructionSim inserts for an instruction: increCount first, then by its
\* kind.  A branch calls countExe once, on the edge it takes; a memory instruction one for
\* each operand it reads or writes, and none when it is predicated off.
Instructions ==
  {<<"increCount">> \o rest : rest \in
     {<<"countExe">>, <<>>, <<"memAccessSim">>, <<"memAccessSim", "memAccessSim">>}}

VARIABLES
  start_sim, insn_count, num_exes_before_mem,  \* the statics of the tool
  trace_out,  \* the items printed: a count, or 0 for the line of an access
  exited,     \* exit(0) is called
  ended,      \* and the process is gone
  calls,      \* calls[t]: the analysis calls left of the instruction of t
  pc,         \* pc[t]: where t is in the first of them
  reg,        \* reg[t]: the count that t loaded
  executed,   \* instructions started, bounded by MaxInstrs
  \* History, for the properties:
  passed,     \* stores of insn_count
  callers,    \* threads that executed an instruction
  did         \* what the thread did in the trace, as long as there is only one

statics == <<start_sim, insn_count, num_exes_before_mem>>
threads == <<calls, pc, reg>>
process == <<exited, ended>>
history == <<passed, callers, did>>
vars == <<statics, trace_out, process, threads, executed, history>>

Places == {"ready", "loaded", "stored", "counting", "printing", "printed", "line", "exiting"}

TypeOK ==
  /\ start_sim \in BOOLEAN /\ insn_count \in Nat /\ num_exes_before_mem \in Nat
  /\ trace_out \in Seq(Nat)
  /\ exited \in BOOLEAN /\ ended \in BOOLEAN
  /\ calls \in [Threads -> Seq(Calls)]
  /\ pc \in [Threads -> Places]
  /\ reg \in [Threads -> Nat]
  /\ executed \in Nat
  /\ passed \in Nat /\ callers \subseteq Threads
  /\ did \in Seq({"exe", "access"})

Init ==
  /\ start_sim = FALSE /\ insn_count = 0 /\ num_exes_before_mem = 0
  /\ trace_out = <<>>
  /\ exited = FALSE /\ ended = FALSE
  /\ calls = [t \in Threads |-> <<>>]
  /\ pc = [t \in Threads |-> "ready"]
  /\ reg = [t \in Threads |-> 0]
  /\ executed = 0
  /\ passed = 0 /\ callers = {} /\ did = <<>>
-----------------------------------------------------------------------------
\* t is the only thread so far, and has traced an instruction of this kind.
Traced(t, kind) == did' = IF callers = {t} THEN Append(did, kind) ELSE <<>>

\* The program executes its next instruction on t.
Execute(t) ==
  /\ calls[t] = <<>> /\ executed < MaxInstrs
  /\ \E instruction \in Instructions : calls' = [calls EXCEPT ![t] = instruction]
  /\ executed' = executed + 1
  /\ callers' = callers \cup {t}
  /\ UNCHANGED <<statics, trace_out, process, pc, reg, passed, did>>

At(t, place, names) == pc[t] = place /\ calls[t] # <<>> /\ Head(calls[t]) \in names

\* t goes on in its call with this count in its register.
Proceed(t, place, count) ==
  /\ pc' = [pc EXCEPT ![t] = place]
  /\ reg' = [reg EXCEPT ![t] = count]
  /\ UNCHANGED calls

Return(t) ==
  /\ pc' = [pc EXCEPT ![t] = "ready"]
  /\ reg' = [reg EXCEPT ![t] = 0]
  /\ calls' = [calls EXCEPT ![t] = Tail(@)]

\* The test of start_sim that the other routines start with fails.
Skip(t) ==
  /\ At(t, "ready", Calls \ {"increCount"}) /\ ~ start_sim
  /\ Return(t)
  /\ UNCHANGED <<statics, trace_out, process, executed, history>>

increLoad(t) ==
  /\ At(t, "ready", {"increCount"})
  /\ Proceed(t, "loaded", insn_count)
  /\ UNCHANGED <<statics, trace_out, process, executed, history>>

\* Mutant of counted: the count runs down.
counted_down(t) == reg[t] - 1

counted(t) == reg[t] + 1

increStore(t) ==
  /\ At(t, "loaded", {"increCount"})
  /\ insn_count' = counted(t)
  /\ passed' = passed + 1
  /\ Proceed(t, "stored", reg[t])
  /\ UNCHANGED <<start_sim, num_exes_before_mem, trace_out, process, executed, callers, did>>

\* Mutant of tested: the count is read again after ++insn_count.
tested_reread(t) == insn_count

\* The count the tests see: what t stored.
tested(t) == counted(t)

\* Mutant of Starts: one instruction too early.
Starts_early(t) == tested(t) = SKIP - 1

Starts(t) == tested(t) = SKIP

Ends(t) == tested(t) = END

\* The tests of increCount, and its end.
increTest(t) ==
  /\ At(t, "stored", {"increCount"})
  /\ start_sim' = (start_sim \/ Starts(t))
  /\ exited' = (exited \/ Ends(t))
  /\ IF Ends(t) THEN Proceed(t, "exiting", reg[t]) ELSE Return(t)
  /\ UNCHANGED <<insn_count, num_exes_before_mem, trace_out, ended, executed, history>>

\* bpSim and nonBranchNorMem: num_exes_before_mem++ and nothing else.
exeLoad(t) ==
  /\ At(t, "ready", {"countExe"}) /\ start_sim
  /\ Proceed(t, "counting", num_exes_before_mem)
  /\ UNCHANGED <<statics, trace_out, process, executed, history>>

exeStore(t) ==
  /\ At(t, "counting", {"countExe"})
  /\ num_exes_before_mem' = counted(t)
  /\ Traced(t, "exe")
  /\ Return(t)
  /\ UNCHANGED <<start_sim, insn_count, trace_out, process, executed, passed, callers>>

\* An item goes to the file, which the exit of another thread may have closed.
Prints(item) ==
  \/ trace_out' = Append(trace_out, item)
  \/ exited /\ UNCHANGED trace_out

\* memAccessSim: the count, if there is one, and its reset; then the line of the access.
memTest(t) ==
  /\ At(t, "ready", {"memAccessSim"}) /\ start_sim
  /\ Proceed(t, IF num_exes_before_mem # 0 THEN "printing" ELSE "line", num_exes_before_mem)
  /\ UNCHANGED <<statics, trace_out, process, executed, history>>

memCount(t) ==
  /\ At(t, "printing", {"memAccessSim"})
  /\ Prints(reg[t])
  /\ Proceed(t, "printed", 0)
  /\ UNCHANGED <<statics, process, executed, history>>

\* Mutant of memReset: the count is printed and kept.
memReset_kept(t) ==
  /\ At(t, "printed", {"memAccessSim"})
  /\ Proceed(t, "line", 0)
  /\ UNCHANGED <<statics, trace_out, process, executed, history>>

memReset(t) ==
  /\ At(t, "printed", {"memAccessSim"})
  /\ num_exes_before_mem' = 0
  /\ Proceed(t, "line", 0)
  /\ UNCHANGED <<start_sim, insn_count, trace_out, process, executed, history>>

memLine(t) ==
  /\ At(t, "line", {"memAccessSim"})
  /\ Prints(0)
  /\ Traced(t, "access")
  /\ Return(t)
  /\ UNCHANGED <<statics, process, executed, passed, callers>>

\* exit(0) has run its handlers.  Until then the other threads go on.
EndProcess ==
  /\ exited /\ ~ ended /\ ended' = TRUE
  /\ UNCHANGED <<statics, trace_out, exited, threads, executed, history>>
-----------------------------------------------------------------------------
\* A step of a thread inside the analysis routines.
Analysis(t) ==
  \/ Skip(t) \/ increLoad(t) \/ increStore(t) \/ increTest(t) \/ exeLoad(t) \/ exeStore(t)
  \/ memTest(t) \/ memCount(t) \/ memReset(t) \/ memLine(t)

\* The process has ended, or the program has: nothing else may block.
Terminated ==
  /\ ended \/ (executed = MaxInstrs /\ \A t \in Threads : calls[t] = <<>>)
  /\ UNCHANGED vars

Next ==
  \/ ~ ended /\ \E t \in Threads : Execute(t) \/ Analysis(t)
  \/ EndProcess
  \/ Terminated

Spec == Init /\ [][Next]_vars

\* No routine ever waits: a thread inside one is runnable until the process ends.
FairSpec == Spec /\ \A t \in Threads : WF_vars(~ ended /\ Analysis(t))
-----------------------------------------------------------------------------
\* However many increments the threads lose to each other, the trace does not start
\* before SKIP instructions and the tool does not exit before SKIP + LENGTH
\* (profiler.cpp:63-65).
NeverEarly ==
  /\ start_sim => passed >= SKIP
  /\ exited => passed >= END

\* insn_count does not jump over the two values that increCount compares it with for
\* equality, though stale stores set it back and two threads store the same value: by
\* the time it is past one, some thread has seen it, or holds it and has yet to test.
Sees(border) == \E t \in Threads : pc[t] = "stored" /\ reg[t] + 1 = border

BordersNoticed ==
  /\ insn_count >= SKIP => start_sim \/ Sees(SKIP)
  /\ insn_count >= END => exited \/ Sees(END)

\* With one thread, the only case the tool is right for, the trace begins and ends on
\* the instruction, and the file replays what the thread did: before each access the
\* number of other instructions since the one before, unless that is 0.
Before(seq, p) ==   \* the unbroken run of "exe" that ends before position p
  Cardinality({q \in 1 .. (p - 1) : \A r \in q .. (p - 1) : seq[r] = "exe"})

Accesses(p) == {q \in 1 .. p : did[q] = "access"}
\* How many of these accesses print a count, and so take two places of the file.
Counts(p) == {q \in Accesses(p) : Before(did, q) # 0}
Place(p) == Cardinality(Accesses(p)) + Cardinality(Counts(p))

ExactAlone ==
  (\E t \in Threads : callers \subseteq {t}) /\ (\A t \in Threads : pc[t] \in {"ready", "exiting"})
    /\ (\A t \in Threads : calls[t] = <<>> \/ Head(calls[t]) # "increCount" \/ pc[t] = "exiting")
  => /\ insn_count = executed
     /\ start_sim = (executed >= SKIP) /\ exited = (executed >= END)
     /\ Len(trace_out) = Place(Len(did))
     /\ \A p \in Accesses(Len(did)) :
          /\ trace_out[Place(p)] = 0
          /\ Before(did, p) # 0 => trace_out[Place(p) - 1] = Before(did, p)
     /\ num_exes_before_mem = Before(did, Len(did) + 1)

\* Once the count is past the end the tool exits: no interleaving lets the program run
\* on with a trace that never ends (profiler.cpp:65-69).
LimitEndsRun == (insn_count >= END) ~> exited
=============================================================================
