------------------------------ MODULE HeapTrace ------------------------------
(***************************************************************************)
(* The malloc/free tracer of Garbage_Collection/trace_extr.cpp: Pin calls  *)
(* MallocBefore and MallocAfter around each malloc of the program and      *)
(* FreeBefore at each free, on the thread that makes the call.  They take  *)
(* no lock: heap, last_malloc_size and the trace file are shared by all    *)
(* threads, and a thread may run its routine, or the program, between two  *)
(* accesses of another to them.  The test of entering_roi and the look-up  *)
(* of the entry to free go with the first access they decide: the entry    *)
(* belongs to the thread that frees the block.                             *)
(*                                                                         *)
(* The instructions of the ROI are counted under pinLock, as in TraceExtr, *)
(* and the LIMIT-th one closes the file and calls exit(0) with the lock    *)
(* held.  Which instruction that is does not depend on the calls of        *)
(* malloc, so that here it may be any.  From then on every other thread    *)
(* stops in increCount of its next instruction; but the routines below ask *)
(* nobody, and the one due at its present instruction still runs.          *)
(*                                                                         *)
(* malloc and free themselves, and the program that calls them, are not    *)
(* code of the tool: blocks is what they do.  The program is correct, it   *)
(* frees only blocks whose malloc has returned and that nobody is freeing, *)
(* and calls nothing else that gives or takes memory: the tool instruments *)
(* malloc and free alone, and sees no block that realloc moves.            *)
(***************************************************************************)
EXTENDS Integers, Sequences

CONSTANTS Threads, Pointers,
          Sizes,     \* sizes the program asks for
          NULL,      \* a failed malloc
          NoSize,    \* in heap and blocks: nothing at this pointer
          MaxCalls   \* bound: calls of malloc, of free and magic ops in all

ASSUME HeapAssumption ==
  /\ NULL \notin Pointers
  /\ 0 \in Sizes /\ NoSize \notin Sizes
  /\ MaxCalls \in Nat

VARIABLES
  entering_roi, last_malloc_size, heap, trace_out, \* the globals of the tool
  blocks,    \* blocks[p]: size of the program's block at p
  pc,        \* pc[t]: where t is in a call of malloc or free
  closed,    \* the file is closed and exit(0) called
  halted,    \* threads that run no further routine: the one in exit(0), the stopped
  size,      \* size[t]: the argument of its malloc
  ptr,       \* ptr[t]: the pointer its malloc returned or its free frees
  issued,    \* calls so far, bounded by MaxCalls
  \* History, for the properties:
  roi_ended, \* the program left the ROI
  stored,    \* stored[t]: the last MallocBefore of t was in the ROI
  callers,   \* the threads that made one of the calls
  lost       \* lost[t]: lines that t wrote to the closed file

file == <<trace_out, closed, lost>>
globals == <<entering_roi, last_malloc_size, heap, file>>
vars == <<globals, halted, blocks, pc, size, ptr, issued, roi_ended, stored, callers>>

\* A line of the trace; asked and stored are history, the size that malloc was
\* called with and whether MallocBefore stored it.
Records ==
  [op : {"MALLOC", "FREE"}, ptr : Pointers, size : Sizes, asked : Sizes, stored : BOOLEAN]

TypeOK ==
  /\ entering_roi \in BOOLEAN /\ last_malloc_size \in Sizes
  /\ heap \in [Pointers -> Sizes \cup {NoSize}]
  /\ trace_out \in Seq(Records)
  /\ blocks \in [Pointers -> Sizes \cup {NoSize}]
  /\ pc \in [Threads -> {"program", "malloc", "returned", "inserted", "printed", "free"}]
  /\ size \in [Threads -> Sizes] /\ ptr \in [Threads -> Pointers \cup {NULL}]
  /\ issued \in Nat /\ roi_ended \in BOOLEAN /\ stored \in [Threads -> BOOLEAN]
  /\ callers \subseteq Threads
  /\ closed \in BOOLEAN /\ halted \subseteq Threads /\ lost \in [Threads -> Nat]

Init ==
  /\ entering_roi = FALSE /\ last_malloc_size = 0
  /\ heap = [p \in Pointers |-> NoSize] /\ trace_out = <<>>
  /\ blocks = [p \in Pointers |-> NoSize]
  /\ pc = [t \in Threads |-> "program"]
  /\ size = [t \in Threads |-> 0] /\ ptr = [t \in Threads |-> NULL]
  /\ issued = 0 /\ roi_ended = FALSE /\ stored = [t \in Threads |-> FALSE]
  /\ callers = {}
  /\ closed = FALSE /\ halted = {} /\ lost = [t \in Threads |-> 0]

\* Mutant of PassesIncreCount: the lock is released before exit(0).
PassesIncreCount_released == TRUE

\* A thread gets through increCount of an instruction of the ROI: pinLock is not kept
\* by a thread in exit(0).
PassesIncreCount == ~ closed

\* t runs the routine due at its present instruction, and stops at the next one if
\* increCount does not let it through.
Due(t) ==
  /\ t \notin halted
  /\ halted' = IF PassesIncreCount THEN halted ELSE halted \cup {t}

Goto(t, place) == pc' = [pc EXCEPT ![t] = place]

\* t makes its next call: of malloc, of free or of a magic op.
Call(t) ==
  /\ pc[t] = "program" /\ issued < MaxCalls
  /\ issued' = issued + 1
  /\ callers' = callers \cup {t}

writeLine(t, op, p, s, asked) ==
  /\ trace_out' = IF closed THEN trace_out
                  ELSE Append(trace_out, [op |-> op, ptr |-> p, size |-> s, asked |-> asked,
                                          stored |-> stored[t]])
  /\ lost' = IF closed THEN [lost EXCEPT ![t] = @ + 1] ELSE lost
  /\ UNCHANGED closed
-----------------------------------------------------------------------------
\* Mutant of lastSize: the test is inverted.
lastSize_inverted(s) == IF entering_roi THEN last_malloc_size ELSE s

lastSize(s) == IF entering_roi THEN s ELSE last_malloc_size

\* t calls malloc(s).
MallocBefore(t, s) ==
  /\ Call(t) /\ Due(t)
  /\ last_malloc_size' = lastSize(s)
  /\ size' = [size EXCEPT ![t] = s]
  /\ stored' = [stored EXCEPT ![t] = entering_roi]
  /\ Goto(t, "malloc")
  /\ UNCHANGED <<entering_roi, heap, file, blocks, ptr, roi_ended>>

\* malloc finds a free place, or fails.
malloc(t) ==
  /\ pc[t] = "malloc" /\ PassesIncreCount
  /\ \/ \E p \in Pointers :
          /\ blocks[p] = NoSize
          /\ blocks' = [blocks EXCEPT ![p] = size[t]]
          /\ ptr' = [ptr EXCEPT ![t] = p]
     \/ /\ ptr' = [ptr EXCEPT ![t] = NULL]
        /\ UNCHANGED blocks
  /\ Goto(t, "returned")
  /\ UNCHANGED <<globals, halted, size, issued, roi_ended, stored, callers>>

\* Mutants of Traced: a failed malloc is traced; one outside the ROI is.
Traced_failed(t) == entering_roi
Traced_outside(t) == ptr[t] # NULL

Traced(t) == entering_roi /\ ptr[t] # NULL

\* MallocAfter: heap[ret] = last_malloc_size ...
MallocAfter(t) ==
  /\ pc[t] = "returned" /\ Due(t)
  /\ IF Traced(t)
     THEN /\ heap' = [heap EXCEPT ![ptr[t]] = last_malloc_size]
          /\ Goto(t, "inserted")
     ELSE /\ Goto(t, "program")
          /\ UNCHANGED heap
  /\ UNCHANGED <<entering_roi, last_malloc_size, file, blocks, size, ptr, issued,
                 roi_ended, stored, callers>>

\* ... and the line for it, which reads last_malloc_size again.
MallocPrint(t) ==
  /\ pc[t] = "inserted"
  /\ halted' = IF PassesIncreCount THEN halted ELSE halted \cup {t}
  /\ writeLine(t, "MALLOC", ptr[t], last_malloc_size, size[t])
  /\ Goto(t, "program")
  /\ UNCHANGED <<entering_roi, last_malloc_size, heap, blocks, size, ptr, issued,
                 roi_ended, stored, callers>>

\* No call of malloc or free on block p is under way.
Owned(p) ==
  /\ blocks[p] # NoSize
  /\ \A t \in Threads : pc[t] \in {"returned", "inserted", "printed", "free"} => ptr[t] # p

\* t calls free(p): FreeBefore prints the line of its entry ...  A block whose malloc was
\* not traced is not traced either.
FreeBefore(t, p) ==
  /\ Call(t) /\ Due(t) /\ Owned(p)
  /\ ptr' = [ptr EXCEPT ![t] = p]
  /\ IF entering_roi /\ heap[p] # NoSize
     THEN writeLine(t, "FREE", p, heap[p], blocks[p]) /\ Goto(t, "printed")
     ELSE UNCHANGED file /\ Goto(t, "free")
  /\ UNCHANGED <<entering_roi, last_malloc_size, heap, blocks, size, roi_ended, stored>>

\* Mutant of erased: the entry stays in heap.
erased_kept(t) == heap

erased(t) == [heap EXCEPT ![ptr[t]] = NoSize]

\* ... and erases it.
FreeErase(t) ==
  /\ pc[t] = "printed"
  /\ halted' = IF PassesIncreCount THEN halted ELSE halted \cup {t}
  /\ heap' = erased(t)
  /\ Goto(t, "free")
  /\ UNCHANGED <<entering_roi, last_malloc_size, file, blocks, size, ptr, issued, roi_ended,
                 stored, callers>>

free(t) ==
  /\ pc[t] = "free" /\ PassesIncreCount
  /\ blocks' = [blocks EXCEPT ![ptr[t]] = NoSize]
  /\ Goto(t, "program")
  /\ UNCHANGED <<globals, halted, size, ptr, issued, roi_ended, stored, callers>>

\* The magic ops set the flag under pinLock, which no routine above takes.
HandleMagicOp(t) ==
  /\ Call(t) /\ PassesIncreCount
  /\ entering_roi' \in BOOLEAN
  /\ roi_ended' = (roi_ended \/ ~ entering_roi')
  /\ UNCHANGED <<last_malloc_size, heap, file, halted, blocks, pc, size, ptr, stored>>

\* increCount of the LIMIT-th instruction of the ROI, one of the program, of malloc or
\* of free: between its routines, t closes the file and calls exit(0).
increCount(t) ==
  /\ entering_roi /\ PassesIncreCount /\ pc[t] \notin {"inserted", "printed"}
  /\ closed' = TRUE
  /\ halted' = halted \cup {t}
  /\ UNCHANGED <<entering_roi, last_malloc_size, heap, trace_out, lost, blocks, pc, size, ptr,
                 issued, roi_ended, stored, callers>>
-----------------------------------------------------------------------------
ThreadStep(t) ==
  \/ \E s \in Sizes : MallocBefore(t, s)
  \/ malloc(t) \/ MallocAfter(t) \/ MallocPrint(t)
  \/ \E p \in Pointers : FreeBefore(t, p)
  \/ FreeErase(t) \/ free(t) \/ HandleMagicOp(t) \/ increCount(t)

Next == \E t \in Threads : ThreadStep(t)

Spec == Init /\ [][Next]_vars
-----------------------------------------------------------------------------
\* Where the records of a given kind about p are.
Lines(op, p) == {i \in DOMAIN trace_out : trace_out[i].op = op /\ trace_out[i].ptr = p}

\* A collector that replays the trace never frees a block twice, nor one it has
\* not seen allocated, although other threads free and reuse p at any moment
\* and the ROI is entered and left: each FREE of p has a MALLOC of p of its own.
FreesArePaired ==
  \A p \in Pointers : \A i \in Lines("FREE", p) :
    \E j \in Lines("MALLOC", p) :
      j < i /\ \A k \in Lines("FREE", p) : ~ (j < k /\ k < i)

\* A MALLOC line of p that no FREE line of p follows.
Open(p) == \E j \in Lines("MALLOC", p) : \A k \in Lines("FREE", p) : k < j

\* heap holds p, and no thread that has printed the FREE of p is about to erase it.
InTable(p) == heap[p] # NoSize /\ \A t \in Threads : pc[t] = "printed" => ptr[t] # p

\* Until the tool exits the file and the table agree: heap holds p exactly if the last
\* line about p is its allocation, or the thread that inserted p is about to write it.
\* So the lines replay the table, whoever wrote them and however the ROI was entered.
TableReplays ==
  ~ closed => \A p \in Pointers :
    InTable(p) <=> Open(p) \/ \E t \in Threads : pc[t] = "inserted" /\ ptr[t] = p

\* The exit loses no more than one line of each thread, and there is one thread stopped, as
\* the one that exits is, that lost none (Garbage_Collection/trace_extr.cpp:67-69): pinLock, which
\* the routines do not take, stops the threads all the same, in increCount.
OneLineLost ==
  /\ \A t \in Threads : lost[t] <= 1
  /\ closed => \E t \in halted : lost[t] = 0

\* While a program of malloc and free stays in the ROI heap holds no pointer that was
\* freed: the entry goes before free gives the place to another thread and comes after
\* malloc.
NoStaleEntry ==
  ~ roi_ended => \A p \in Pointers : heap[p] # NoSize => blocks[p] # NoSize

\* heap is what the comment of its declaration says, <pointer, size>
\* (Garbage_Collection/trace_extr.cpp:242), for the blocks it holds.
HeapSizes ==
  \A p \in Pointers : heap[p] # NoSize /\ blocks[p] # NoSize => heap[p] = blocks[p]

\* "Print the input argument of each malloc()" (Garbage_Collection/trace_extr.cpp:274),
\* of those at least that begin in the ROI.
SizesAsAsked ==
  \A i \in DOMAIN trace_out :
    trace_out[i].op = "MALLOC" /\ trace_out[i].stored => trace_out[i].size = trace_out[i].asked

\* As long as only one thread of the program calls malloc, free and the magic ops, the
\* lines are exact, and while it stays in the ROI so is heap.
ExactAlone ==
  \A t \in Threads : callers \subseteq {t} => SizesAsAsked /\ (~ roi_ended => HeapSizes)
=============================================================================
