--------------------------- MODULE HeapTraceProofs ---------------------------
(***************************************************************************)
(* Theorems about HeapTrace for any threads, pointers and sizes: the types,*)
(* no stale entry inside the ROI, lines that replay the table, a MALLOC    *)
(* line for every FREE line, at most one line a thread lost at exit, and   *)
(* exact lines and sizes when one thread makes all the calls.              *)
(***************************************************************************)
EXTENDS HeapTrace, TLAPS

Busy == {"returned", "inserted", "printed", "free"}   \* t is between the tool and malloc or free

\* The block of a call under way is live, and no other call is about it.
CallsInv ==
  /\ \A t \in Threads : pc[t] \in Busy /\ ptr[t] # NULL => blocks[ptr[t]] # NoSize
  /\ \A t \in Threads : pc[t] \in {"inserted", "printed", "free"} => ptr[t] # NULL
  /\ \A t, u \in Threads :
       t # u /\ pc[t] \in Busy /\ pc[u] \in Busy => ptr[t] # ptr[u] \/ ptr[t] = NULL

\* In a program that stays in the ROI, nothing is remembered before it begins, and
\* a block being freed is forgotten.
EntryInv ==
  ~ roi_ended =>
    /\ ~ entering_roi => \A p \in Pointers : heap[p] = NoSize
    /\ \A t \in Threads : pc[t] = "free" => heap[ptr[t]] = NoSize

\* A line can only be lost by a thread that has stopped since, and the one in exit(0)
\* is between its routines for ever.
LostInv ==
  /\ ~ closed => halted = {}
  /\ \A t \in Threads : lost[t] # 0 => closed /\ t \in halted /\ pc[t] # "inserted"
  /\ closed => \E t \in halted : lost[t] = 0 /\ pc[t] # "inserted"
  /\ \A t \in Threads : lost[t] <= 1

IInv ==
  /\ TypeOK /\ CallsInv /\ EntryInv /\ LostInv
  /\ NoStaleEntry /\ TableReplays /\ FreesArePaired

-----------------------------------------------------------------------------
\* A new line for a MALLOC of p.
LEMMA MallocLine ==
  ASSUME TypeOK, NEW t \in Threads, NEW p \in Pointers, NEW s \in Sizes, NEW a \in Sizes,
         ~ closed, writeLine(t, "MALLOC", p, s, a)
  PROVE  /\ trace_out' \in Seq(Records)
         /\ \A q \in Pointers : Lines("FREE", q)' = Lines("FREE", q)
         /\ \A q \in Pointers \ {p} : Lines("MALLOC", q)' = Lines("MALLOC", q)
         /\ Lines("MALLOC", p)' = Lines("MALLOC", p) \cup {Len(trace_out) + 1}
<1> DEFINE line == [op |-> "MALLOC", ptr |-> p, size |-> s, asked |-> a, stored |-> stored[t]]
<1>1. line \in Records /\ trace_out \in Seq(Records) /\ trace_out' = Append(trace_out, line)
  BY DEF TypeOK, Records, writeLine
<1>2. line.op = "MALLOC" /\ line.ptr = p
  OBVIOUS
<1> HIDE DEF line
<1>3. /\ trace_out' \in Seq(Records)
      /\ DOMAIN trace_out' = DOMAIN trace_out \cup {Len(trace_out) + 1}
      /\ Len(trace_out) + 1 \notin DOMAIN trace_out
      /\ trace_out'[Len(trace_out) + 1] = line
      /\ \A i \in DOMAIN trace_out : trace_out'[i] = trace_out[i]
  BY <1>1
<1> QED BY <1>2, <1>3 DEF Lines

\* A new line for a FREE of p.
LEMMA FreeLine ==
  ASSUME TypeOK, NEW t \in Threads, NEW p \in Pointers, NEW s \in Sizes, NEW a \in Sizes,
         ~ closed, writeLine(t, "FREE", p, s, a)
  PROVE  /\ trace_out' \in Seq(Records)
         /\ \A q \in Pointers : Lines("MALLOC", q)' = Lines("MALLOC", q)
         /\ \A q \in Pointers \ {p} : Lines("FREE", q)' = Lines("FREE", q)
         /\ Lines("FREE", p)' = Lines("FREE", p) \cup {Len(trace_out) + 1}
<1> DEFINE line == [op |-> "FREE", ptr |-> p, size |-> s, asked |-> a, stored |-> stored[t]]
<1>1. line \in Records /\ trace_out \in Seq(Records) /\ trace_out' = Append(trace_out, line)
  BY DEF TypeOK, Records, writeLine
<1>2. line.op = "FREE" /\ line.ptr = p
  OBVIOUS
<1> HIDE DEF line
<1>3. /\ trace_out' \in Seq(Records)
      /\ DOMAIN trace_out' = DOMAIN trace_out \cup {Len(trace_out) + 1}
      /\ Len(trace_out) + 1 \notin DOMAIN trace_out
      /\ trace_out'[Len(trace_out) + 1] = line
      /\ \A i \in DOMAIN trace_out : trace_out'[i] = trace_out[i]
  BY <1>1
<1> QED BY <1>2, <1>3 DEF Lines

LEMMA LineNumbers ==
  ASSUME TypeOK, NEW op, NEW p
  PROVE  \A i \in Lines(op, p) : i \in Nat /\ i < Len(trace_out) + 1
<1>1. trace_out \in Seq(Records)
  BY DEF TypeOK
<1> QED BY <1>1 DEF Lines

\* A line for the closed file.
LEMMA LostLine ==
  ASSUME TypeOK, NEW t \in Threads, NEW op, NEW p, NEW s, NEW a, closed, writeLine(t, op, p, s, a)
  PROVE  /\ trace_out' = trace_out /\ closed'
         /\ lost' = [lost EXCEPT ![t] = @ + 1] /\ lost' \in [Threads -> Nat]
  BY DEF writeLine, TypeOK

\* Nothing about the lines changes in a step that prints none.
LEMMA SameLines ==
  ASSUME UNCHANGED trace_out
  PROVE  /\ \A op, p : Lines(op, p)' = Lines(op, p)
         /\ \A p : Open(p)' = Open(p)
         /\ FreesArePaired => FreesArePaired'
  BY DEF Lines, Open, FreesArePaired

\* Nor does the agreement of table and file, if the lines that are due stay the same.
LEMMA SameTable ==
  ASSUME TableReplays, UNCHANGED <<heap, trace_out, closed>>,
         \A t \in Threads, q \in {"inserted", "printed"} :
           (pc'[t] = q <=> pc[t] = q) /\ (pc[t] = q => ptr'[t] = ptr[t])
  PROVE  TableReplays'
  BY SameLines DEF TableReplays, InTable

\* A routine that writes no line, or a step of the program, loses none.
LEMMA NoneLost ==
  ASSUME LostInv, halted \subseteq Threads, NEW t \in Threads, UNCHANGED <<closed, lost>>,
         t \notin halted, halted' = halted \/ (closed /\ halted' = halted \cup {t}),
         \A u \in Threads \ {t} : pc'[u] = pc[u]
  PROVE  LostInv'
  BY DEF LostInv

LEMMA InitIInv == Init => IInv
<1> SUFFICES ASSUME Init PROVE IInv
  OBVIOUS
<1>1. TypeOK
  <2>1. trace_out \in Seq(Records) /\ last_malloc_size \in Sizes
    BY HeapAssumption DEF Init
  <2>2. /\ pc \in [Threads -> {"program", "malloc", "returned", "inserted", "printed", "free"}]
        /\ size \in [Threads -> Sizes] /\ ptr \in [Threads -> Pointers \cup {NULL}]
        /\ lost \in [Threads -> Nat]
    BY HeapAssumption DEF Init
  <2>3. /\ heap \in [Pointers -> Sizes \cup {NoSize}]
        /\ blocks \in [Pointers -> Sizes \cup {NoSize}]
        /\ stored \in [Threads -> BOOLEAN]
    BY DEF Init
  <2> QED BY <2>1, <2>2, <2>3 DEF Init, TypeOK
<1>2. CallsInv /\ EntryInv /\ LostInv /\ NoStaleEntry
  BY DEF Init, CallsInv, EntryInv, LostInv, NoStaleEntry, Busy
<1>3. TableReplays /\ FreesArePaired
  BY DEF Init, TableReplays, InTable, Open, FreesArePaired, Lines
<1> QED BY <1>1, <1>2, <1>3 DEF IInv

LEMMA MallocBeforeIInv ==
  ASSUME IInv, NEW t \in Threads, NEW s \in Sizes, MallocBefore(t, s) PROVE IInv'
<1> USE DEF IInv, MallocBefore, Call, Due, PassesIncreCount, Goto, file
<1>1. /\ pc' = [pc EXCEPT ![t] = "malloc"] /\ pc[t] = "program" /\ DOMAIN pc = Threads
  BY DEF TypeOK
<1>2. TypeOK'
  BY DEF TypeOK, lastSize
<1>3. CallsInv' /\ EntryInv' /\ NoStaleEntry'
  BY <1>1 DEF CallsInv, EntryInv, NoStaleEntry, Busy
<1>4. TableReplays' /\ FreesArePaired'
  BY <1>1, SameLines, SameTable
<1>5. LostInv'
  BY <1>1, NoneLost DEF TypeOK
<1> QED BY <1>2, <1>3, <1>4, <1>5

LEMMA MallocIInv == ASSUME IInv, NEW t \in Threads, malloc(t) PROVE IInv'
<1> USE DEF IInv, malloc, PassesIncreCount, Goto, globals, file
<1>1. /\ pc' = [pc EXCEPT ![t] = "returned"] /\ pc[t] = "malloc" /\ DOMAIN pc = Threads
      /\ DOMAIN ptr = Threads /\ DOMAIN blocks = Pointers
      /\ size[t] \in Sizes
  BY DEF TypeOK
<1>2. TableReplays' /\ FreesArePaired'
  BY <1>1, SameLines, SameTable
<1>3. LostInv'
  BY <1>1, NoneLost DEF LostInv, TypeOK
<1>4. CASE ptr' = [ptr EXCEPT ![t] = NULL] /\ UNCHANGED blocks
  <2>1. TypeOK'
    BY <1>4 DEF TypeOK
  <2>2. CallsInv' /\ EntryInv' /\ NoStaleEntry'
    BY <1>1, <1>4 DEF CallsInv, EntryInv, NoStaleEntry, Busy
  <2> QED BY <1>2, <1>3, <2>1, <2>2
<1>5. ASSUME NEW p \in Pointers, blocks[p] = NoSize,
             blocks' = [blocks EXCEPT ![p] = size[t]], ptr' = [ptr EXCEPT ![t] = p]
      PROVE  IInv'
  <2>1. TypeOK'
    BY <1>1, <1>5 DEF TypeOK
  <2>2. size[t] # NoSize /\ p # NULL
    BY <1>1, HeapAssumption
  <2>3. CallsInv'
    BY <1>1, <1>5, <2>2 DEF CallsInv, Busy, TypeOK
  <2>4. EntryInv' /\ NoStaleEntry'
    BY <1>1, <1>5, <2>2 DEF EntryInv, NoStaleEntry
  <2> QED BY <1>2, <1>3, <2>1, <2>3, <2>4
<1> QED BY <1>4, <1>5

LEMMA MallocAfterIInv == ASSUME IInv, NEW t \in Threads, MallocAfter(t) PROVE IInv'
<1> USE DEF IInv, MallocAfter, Due, PassesIncreCount, Goto, file
<1>1. /\ pc[t] = "returned" /\ DOMAIN pc = Threads /\ DOMAIN heap = Pointers
      /\ last_malloc_size \in Sizes /\ last_malloc_size # NoSize
      /\ ptr[t] \in Pointers \cup {NULL}
      /\ ptr' = ptr /\ trace_out' = trace_out /\ closed' = closed
  BY HeapAssumption DEF TypeOK
<1>2. LostInv'
  <2>1. \A u \in Threads \ {t} : pc'[u] = pc[u]
    BY <1>1
  <2> QED BY <2>1, NoneLost DEF TypeOK
<1>3. CASE Traced(t)
  <2>1. /\ ptr[t] \in Pointers /\ ptr[t] # NULL /\ entering_roi
        /\ pc' = [pc EXCEPT ![t] = "inserted"]
        /\ heap' = [heap EXCEPT ![ptr[t]] = last_malloc_size]
    BY <1>1, <1>3 DEF Traced
  <2>2. TypeOK'
    BY <1>1, <2>1 DEF TypeOK
  <2>3. CallsInv'
    BY <1>1, <2>1 DEF CallsInv, Busy
  <2>4. EntryInv' /\ NoStaleEntry'
    BY <1>1, <2>1 DEF EntryInv, NoStaleEntry, CallsInv, Busy
  <2>5. FreesArePaired' /\ \A p \in Pointers : Open(p)' = Open(p)
    BY <1>1, SameLines
  <2>6. TableReplays'
    BY <1>1, <2>1, <2>5 DEF TableReplays, InTable, CallsInv, Busy
  <2> QED BY <1>2, <2>2, <2>3, <2>4, <2>5, <2>6
<1>4. CASE ~ Traced(t)
  <2>1. heap' = heap /\ pc' = [pc EXCEPT ![t] = "program"]
    BY <1>4
  <2>2. TypeOK'
    BY <2>1 DEF TypeOK
  <2>3. CallsInv' /\ EntryInv' /\ NoStaleEntry'
    BY <1>1, <2>1 DEF CallsInv, EntryInv, NoStaleEntry, Busy
  <2>4. TableReplays' /\ FreesArePaired'
    BY <1>1, <2>1, SameLines, SameTable
  <2> QED BY <1>2, <2>2, <2>3, <2>4
<1> QED BY <1>3, <1>4

\* The line that was due is the open one from now on, unless it is lost.
LEMMA MallocPrintIInv == ASSUME IInv, NEW t \in Threads, MallocPrint(t) PROVE IInv'
<1> USE DEF IInv, MallocPrint, PassesIncreCount, Goto
<1> DEFINE n == Len(trace_out) + 1
<1>1. PICK p \in Pointers : p = ptr[t]
  BY DEF TypeOK, CallsInv
<1>2. /\ pc[t] = "inserted" /\ DOMAIN pc = Threads
      /\ pc' = [pc EXCEPT ![t] = "program"]
      /\ last_malloc_size \in Sizes /\ size[t] \in Sizes
      /\ closed' = closed /\ DOMAIN lost = Threads
  BY DEF TypeOK, writeLine
<1>3. CallsInv' /\ EntryInv' /\ NoStaleEntry'
  BY <1>2 DEF CallsInv, EntryInv, NoStaleEntry, Busy
<1>4. CASE closed
  <2>1. /\ trace_out' = trace_out
        /\ lost' = [lost EXCEPT ![t] = @ + 1] /\ lost' \in [Threads -> Nat]
        /\ halted' = halted \cup {t}
    BY <1>4, LostLine
  <2>2. TypeOK'
    BY <1>2, <2>1 DEF TypeOK
  <2>3. TableReplays' /\ FreesArePaired'
    BY <1>2, <1>4, <2>1, SameLines DEF TableReplays
  <2>4. lost[t] = 0
    BY <1>2 DEF LostInv
  <2>5. LostInv'
    BY <1>2, <1>4, <2>1, <2>4 DEF LostInv
  <2> QED BY <1>3, <2>2, <2>3, <2>5
<1>5. CASE ~ closed
  <2>1. /\ trace_out' \in Seq(Records)
        /\ \A q \in Pointers : Lines("FREE", q)' = Lines("FREE", q)
        /\ \A q \in Pointers \ {p} : Lines("MALLOC", q)' = Lines("MALLOC", q)
        /\ Lines("MALLOC", p)' = Lines("MALLOC", p) \cup {n}
    BY <1>1, <1>2, <1>5, MallocLine
  <2>2. lost' = lost /\ halted' = halted
    BY <1>5 DEF writeLine
  <2>3. TypeOK'
    BY <1>2, <2>1, <2>2 DEF TypeOK
  <2>4. \A k \in Lines("FREE", p) : k < n
    BY LineNumbers
  <2> HIDE DEF n
  <2>5. Open(p)'
    BY <2>1, <2>4 DEF Open
  <2>6. \A q \in Pointers \ {p} : Open(q)' <=> Open(q)
    BY <2>1 DEF Open
  <2>7. InTable(p)
    BY <1>1, <1>2, <1>5 DEF TableReplays
  <2>8. TableReplays'
    BY <1>1, <1>2, <1>5, <2>5, <2>6, <2>7 DEF TableReplays, InTable
  <2>9. \A q \in Pointers : Lines("MALLOC", q) \subseteq Lines("MALLOC", q)'
    BY <2>1
  <2>10. FreesArePaired'
    BY <2>1, <2>9 DEF FreesArePaired
  <2>11. LostInv'
    BY <1>2, <1>5, <2>2 DEF LostInv
  <2> QED BY <1>3, <2>3, <2>8, <2>10, <2>11
<1> QED BY <1>4, <1>5

\* The open line is the one that pairs with the new FREE line.
LEMMA FreeBeforeIInv ==
  ASSUME IInv, NEW t \in Threads, NEW p \in Pointers, FreeBefore(t, p) PROVE IInv'
<1> USE DEF IInv, FreeBefore, Goto, Call, Due, PassesIncreCount, file
<1> DEFINE n == Len(trace_out) + 1
<1>1. /\ pc[t] = "program" /\ DOMAIN pc = Threads /\ DOMAIN ptr = Threads
      /\ DOMAIN heap = Pointers /\ DOMAIN lost = Threads
      /\ \E q \in {"printed", "free"} : pc' = [pc EXCEPT ![t] = q]
      /\ heap' = heap /\ ptr' = [ptr EXCEPT ![t] = p]
      /\ blocks[p] \in Sizes /\ blocks[p] # NoSize /\ p # NULL
      /\ \A u \in Threads : pc[u] \in Busy => ptr[u] # p
      /\ trace_out \in Seq(Records)
      /\ t \notin halted /\ halted' = IF ~ closed THEN halted ELSE halted \cup {t}
  BY HeapAssumption DEF TypeOK, Owned, Busy
<1>2. CallsInv'
  BY <1>1 DEF CallsInv, Busy
<1>3. CASE entering_roi /\ heap[p] # NoSize
  <2>1. /\ writeLine(t, "FREE", p, heap[p], blocks[p])
        /\ pc' = [pc EXCEPT ![t] = "printed"]
        /\ heap[p] \in Sizes /\ closed' = closed
    BY <1>3 DEF TypeOK, writeLine
  <2>2. EntryInv' /\ NoStaleEntry'
    BY <1>1, <2>1 DEF EntryInv, NoStaleEntry, TypeOK
  <2>3. CASE closed
    <3>1. /\ trace_out' = trace_out
          /\ lost' = [lost EXCEPT ![t] = @ + 1] /\ lost' \in [Threads -> Nat]
          /\ halted' = halted \cup {t}
      BY <1>1, <2>1, <2>3, LostLine
    <3>2. TypeOK'
      BY <1>1, <2>1, <3>1 DEF TypeOK
    <3>3. TableReplays' /\ FreesArePaired'
      BY <2>1, <2>3, <3>1, SameLines DEF TableReplays
    <3>4. lost[t] = 0
      BY <1>1 DEF LostInv
    <3>5. LostInv'
      BY <1>1, <2>1, <2>3, <3>1, <3>4 DEF LostInv
    <3> QED BY <1>2, <2>2, <3>2, <3>3, <3>5
  <2>4. CASE ~ closed
    <3>1. /\ trace_out' \in Seq(Records)
          /\ \A q \in Pointers : Lines("MALLOC", q)' = Lines("MALLOC", q)
          /\ \A q \in Pointers \ {p} : Lines("FREE", q)' = Lines("FREE", q)
          /\ Lines("FREE", p)' = Lines("FREE", p) \cup {n}
      BY <1>1, <2>1, <2>4, FreeLine
    <3>2. lost' = lost /\ halted' = halted
      BY <1>1, <2>1, <2>4 DEF writeLine
    <3>3. TypeOK'
      BY <1>1, <2>1, <3>1, <3>2 DEF TypeOK
    <3>4. Open(p)
      BY <1>1, <1>3, <2>4 DEF TableReplays, InTable, Busy
    <3>5. /\ n \in Nat
          /\ \A i \in Lines("FREE", p) \cup Lines("MALLOC", p) : i \in Nat /\ i < n
      BY <1>1, LineNumbers
    <3> HIDE DEF n
    <3>6. \A q \in Pointers \ {p} : Open(q)' <=> Open(q)
      BY <3>1 DEF Open
    <3>7. ~ Open(p)'
      <4>1. ASSUME NEW j \in Lines("MALLOC", p)' PROVE \E k \in Lines("FREE", p)' : ~ (k < j)
        <5>1. j \in Nat /\ j < n
          BY <3>1, <3>5
        <5> QED BY <3>1, <3>5, <5>1
      <4> QED BY <4>1 DEF Open
    <3>8. TableReplays'
      <4>1. ASSUME NEW q \in Pointers \ {p}
            PROVE  InTable(q)' <=>
                     Open(q)' \/ \E u \in Threads : pc'[u] = "inserted" /\ ptr'[u] = q
        <5>1. InTable(q)' <=> InTable(q)
          BY <1>1, <2>1 DEF InTable
        <5>2. \A u \in Threads :
                pc'[u] = "inserted" /\ ptr'[u] = q <=> pc[u] = "inserted" /\ ptr[u] = q
          BY <1>1, <2>1
        <5> QED BY <2>4, <3>6, <5>1, <5>2 DEF TableReplays
      <4>2. ~ InTable(p)' /\ ~ \E u \in Threads : pc'[u] = "inserted" /\ ptr'[u] = p
        BY <1>1, <2>1 DEF Busy, InTable
      <4> QED BY <3>7, <4>1, <4>2 DEF TableReplays
    <3>9. ASSUME NEW i \in Lines("FREE", p)'
          PROVE  \E j \in Lines("MALLOC", p) :
                   j < i /\ \A k \in Lines("FREE", p)' : ~ (j < k /\ k < i)
      <4>1. CASE i = n
        <5>1. PICK j \in Lines("MALLOC", p) : \A k \in Lines("FREE", p) : k < j
          BY <3>4 DEF Open
        <5> QED BY <3>1, <3>5, <4>1, <5>1
      <4>2. CASE i \in Lines("FREE", p)
        <5>1. PICK j \in Lines("MALLOC", p) :
                j < i /\ \A k \in Lines("FREE", p) : ~ (j < k /\ k < i)
          BY <4>2 DEF FreesArePaired
        <5> QED BY <3>1, <3>5, <4>2, <5>1
      <4> QED BY <3>1, <3>9, <4>1, <4>2
    <3>10. FreesArePaired'
      BY <3>1, <3>9 DEF FreesArePaired
    <3>11. LostInv'
      BY <1>1, <2>1, <2>4, <3>2 DEF LostInv
    <3> QED BY <1>2, <2>2, <3>3, <3>8, <3>10, <3>11
  <2> QED BY <2>3, <2>4
<1>4. CASE ~ (entering_roi /\ heap[p] # NoSize)
  <2>1. /\ UNCHANGED <<trace_out, heap, closed, lost>>
        /\ pc' = [pc EXCEPT ![t] = "free"]
    BY <1>4
  <2>2. TypeOK'
    BY <1>1, <2>1 DEF TypeOK
  <2>3. EntryInv' /\ NoStaleEntry'
    BY <1>1, <1>4, <2>1 DEF EntryInv, NoStaleEntry, TypeOK
  <2>4. TableReplays' /\ FreesArePaired'
    BY <1>1, <2>1, SameLines, SameTable
  <2>5. LostInv'
    BY <1>1, <2>1, NoneLost DEF TypeOK
  <2> QED BY <1>2, <2>2, <2>3, <2>4, <2>5
<1> QED BY <1>3, <1>4

\* Until it is erased, the entry belongs to the thread that wrote its FREE line.
LEMMA FreeEraseIInv == ASSUME IInv, NEW t \in Threads, FreeErase(t) PROVE IInv'
<1> USE DEF IInv, FreeErase, erased, PassesIncreCount, Goto, file
<1>1. PICK p \in Pointers : p = ptr[t]
  BY DEF TypeOK, CallsInv
<1>2. /\ pc[t] = "printed" /\ DOMAIN pc = Threads /\ DOMAIN heap = Pointers
      /\ pc' = [pc EXCEPT ![t] = "free"] /\ heap' = [heap EXCEPT ![p] = NoSize]
      /\ UNCHANGED <<trace_out, closed, lost, ptr, blocks>>
      /\ halted' = IF ~ closed THEN halted ELSE halted \cup {t}
  BY <1>1 DEF TypeOK
<1>3. TypeOK'
  BY <1>2 DEF TypeOK
<1>4. CallsInv'
  BY <1>2 DEF CallsInv, Busy
<1>5. EntryInv' /\ NoStaleEntry'
  BY <1>1, <1>2 DEF EntryInv, NoStaleEntry
<1>6. FreesArePaired'
  BY <1>2, SameLines
<1>7. LostInv'
  BY <1>2 DEF LostInv, TypeOK
<1>8. TableReplays'
  <2>1. ASSUME NEW q \in Pointers
        PROVE  /\ InTable(q)' <=> InTable(q)
               /\ Open(q)' <=> Open(q)
               /\ \A u \in Threads :
                    pc'[u] = "inserted" /\ ptr'[u] = q <=> pc[u] = "inserted" /\ ptr[u] = q
    BY <1>1, <1>2, SameLines DEF InTable, CallsInv, Busy
  <2> QED BY <1>2, <2>1 DEF TableReplays
<1> QED BY <1>3, <1>4, <1>5, <1>6, <1>7, <1>8

LEMMA FreeIInv == ASSUME IInv, NEW t \in Threads, free(t) PROVE IInv'
<1> USE DEF IInv, free, PassesIncreCount, Goto, globals, file
<1>1. /\ pc[t] = "free" /\ DOMAIN pc = Threads /\ DOMAIN blocks = Pointers
      /\ pc' = [pc EXCEPT ![t] = "program"]
      /\ ptr[t] \in Pointers /\ ptr[t] # NULL
      /\ blocks' = [blocks EXCEPT ![ptr[t]] = NoSize]
  BY DEF TypeOK, CallsInv
<1>2. TypeOK'
  BY <1>1 DEF TypeOK
<1>3. CallsInv'
  BY <1>1 DEF CallsInv, Busy, TypeOK
<1>4. EntryInv' /\ NoStaleEntry'
  BY <1>1 DEF EntryInv, NoStaleEntry
<1>5. TableReplays' /\ FreesArePaired'
  BY <1>1, SameLines, SameTable
<1>6. LostInv'
  BY <1>1, NoneLost DEF LostInv, TypeOK
<1> QED BY <1>2, <1>3, <1>4, <1>5, <1>6

LEMMA MagicIInv == ASSUME IInv, NEW t \in Threads, HandleMagicOp(t) PROVE IInv'
<1> USE DEF IInv, HandleMagicOp, Call, file
<1>1. roi_ended' = (roi_ended \/ ~ entering_roi') /\ entering_roi' \in BOOLEAN
  OBVIOUS
<1>2. TypeOK'
  BY DEF TypeOK
<1>3. CallsInv' /\ EntryInv' /\ NoStaleEntry'
  BY <1>1 DEF CallsInv, EntryInv, NoStaleEntry
<1>4. TableReplays' /\ FreesArePaired'
  BY SameLines, SameTable
<1>5. LostInv'
  BY DEF LostInv
<1> QED BY <1>2, <1>3, <1>4, <1>5

LEMMA ExitIInv == ASSUME IInv, NEW t \in Threads, increCount(t) PROVE IInv'
<1> USE DEF IInv, increCount, PassesIncreCount
<1>1. TypeOK'
  BY DEF TypeOK
<1>2. CallsInv' /\ EntryInv' /\ NoStaleEntry'
  BY DEF CallsInv, EntryInv, NoStaleEntry
<1>3. TableReplays' /\ FreesArePaired'
  BY SameLines DEF TableReplays
<1>4. LostInv'
  BY DEF LostInv
<1> QED BY <1>1, <1>2, <1>3, <1>4

LEMMA NextIInv == IInv /\ [Next]_vars => IInv'
<1> SUFFICES ASSUME IInv, [Next]_vars PROVE IInv'
  OBVIOUS
<1>1. ASSUME NEW t \in Threads, ThreadStep(t) PROVE IInv'
  BY <1>1, MallocBeforeIInv, MallocIInv, MallocAfterIInv, MallocPrintIInv, FreeBeforeIInv,
     FreeEraseIInv, FreeIInv, MagicIInv, ExitIInv DEF ThreadStep
<1>2. CASE UNCHANGED vars
  <2>1. TypeOK' /\ CallsInv' /\ EntryInv' /\ LostInv' /\ NoStaleEntry'
    BY <1>2 DEF IInv, vars, globals, file, TypeOK, CallsInv, EntryInv, LostInv, NoStaleEntry
  <2>2. TableReplays' /\ FreesArePaired'
    BY <1>2, SameLines, SameTable DEF IInv, vars, globals, file
  <2> QED BY <2>1, <2>2 DEF IInv
<1> QED BY <1>1, <1>2 DEF Next

LEMMA SpecIInv == Spec => []IInv
  BY InitIInv, NextIInv, PTL DEF Spec

-----------------------------------------------------------------------------
\* While t is the only thread to call anything, its malloc runs from MallocBefore to
\* MallocPrint with the flag and the size that it found and stored.
AloneInv(t) ==
  callers \subseteq {t} =>
    /\ \A u \in Threads \ {t} : pc[u] = "program"
    /\ pc[t] \in {"malloc", "returned", "inserted"} =>
         stored[t] = entering_roi /\ (stored[t] => last_malloc_size = size[t])
    /\ pc[t] \in {"returned", "inserted"} /\ ptr[t] # NULL => blocks[ptr[t]] = size[t]
    /\ SizesAsAsked
    /\ ~ roi_ended => HeapSizes

\* A thread that has called nothing is in no routine.
LEMMA OnlyCaller ==
  ASSUME NEW t \in Threads, NEW u \in Threads, AloneInv(t), callers' \subseteq {t},
         ThreadStep(u), ~ increCount(u)
  PROVE  u = t /\ callers \subseteq {t}
<1>1. CASE Call(u)
  BY <1>1 DEF Call
<1>2. CASE malloc(u) \/ MallocAfter(u) \/ MallocPrint(u) \/ FreeErase(u) \/ free(u)
  <2>1. UNCHANGED callers /\ pc[u] # "program"
    BY <1>2 DEF malloc, MallocAfter, MallocPrint, FreeErase, free
  <2> QED BY <2>1 DEF AloneInv
<1> QED BY <1>1, <1>2 DEF ThreadStep, MallocBefore, FreeBefore, HandleMagicOp

\* A line keeps the trace exact if it has the size asked for, or is no MALLOC line.
LEMMA ExactLine ==
  ASSUME TypeOK, SizesAsAsked, NEW t \in Threads, NEW op \in {"MALLOC", "FREE"},
         NEW p \in Pointers, NEW s \in Sizes, NEW a \in Sizes, writeLine(t, op, p, s, a),
         op = "MALLOC" /\ stored[t] => s = a
  PROVE  SizesAsAsked'
<1> DEFINE line == [op |-> op, ptr |-> p, size |-> s, asked |-> a, stored |-> stored[t]]
<1>1. CASE closed
  BY <1>1 DEF writeLine, SizesAsAsked
<1>2. CASE ~ closed
  <2>1. line \in Records /\ trace_out \in Seq(Records) /\ trace_out' = Append(trace_out, line)
    BY <1>2 DEF TypeOK, Records, writeLine
  <2>2. line.op = "MALLOC" /\ line.stored => line.size = line.asked
    OBVIOUS
  <2> HIDE DEF line
  <2>3. \A i \in DOMAIN trace_out' : trace_out'[i] = line \/ (i \in DOMAIN trace_out /\ trace_out'[i] = trace_out[i])
    BY <2>1
  <2> QED BY <2>2, <2>3 DEF SizesAsAsked
<1> QED BY <1>1, <1>2

LEMMA InitAlone == Init => \A t \in Threads : AloneInv(t)
  BY DEF Init, AloneInv, SizesAsAsked, HeapSizes

LEMMA MallocBeforeAlone ==
  ASSUME IInv, NEW t \in Threads, AloneInv(t), callers \subseteq {t},
         NEW s \in Sizes, MallocBefore(t, s)
  PROVE  AloneInv(t)'
<1>1. /\ UNCHANGED <<entering_roi, heap, trace_out, blocks, ptr, roi_ended>>
      /\ pc'[t] = "malloc" /\ \A u \in Threads \ {t} : pc'[u] = pc[u]
      /\ size'[t] = s /\ stored'[t] = entering_roi
      /\ entering_roi => last_malloc_size' = s
  BY DEF MallocBefore, lastSize, Goto, file, IInv, TypeOK
<1>2. SizesAsAsked => SizesAsAsked'
  BY <1>1 DEF SizesAsAsked
<1>3. HeapSizes => HeapSizes'
  BY <1>1 DEF HeapSizes
<1> QED BY <1>1, <1>2, <1>3 DEF AloneInv

\* malloc returns a place that heap has forgotten.
LEMMA MallocAlone ==
  ASSUME IInv, NEW t \in Threads, AloneInv(t), callers \subseteq {t}, malloc(t)
  PROVE  AloneInv(t)'
<1>1. /\ UNCHANGED <<entering_roi, last_malloc_size, heap, trace_out, size, stored, roi_ended>>
      /\ pc[t] = "malloc" /\ pc'[t] = "returned"
      /\ \A u \in Threads \ {t} : pc'[u] = pc[u]
  BY DEF malloc, Goto, globals, file, IInv, TypeOK
<1>2. SizesAsAsked => SizesAsAsked'
  BY <1>1 DEF SizesAsAsked
<1>3. ptr'[t] # NULL => blocks'[ptr'[t]] = size[t]
  BY DEF malloc, IInv, TypeOK
<1>4. ASSUME ~ roi_ended, HeapSizes PROVE HeapSizes'
  <2>1. CASE UNCHANGED blocks
    BY <1>1, <1>4, <2>1 DEF HeapSizes
  <2>2. ASSUME NEW p \in Pointers, blocks[p] = NoSize, blocks' = [blocks EXCEPT ![p] = size[t]]
        PROVE  HeapSizes'
    <3>1. heap[p] = NoSize
      BY <1>4, <2>2 DEF IInv, NoStaleEntry
    <3> QED BY <1>1, <1>4, <2>2, <3>1 DEF HeapSizes, IInv, TypeOK
  <2> QED BY <2>1, <2>2 DEF malloc
<1> QED BY <1>1, <1>2, <1>3, <1>4 DEF AloneInv

LEMMA MallocAfterAlone ==
  ASSUME IInv, NEW t \in Threads, AloneInv(t), callers \subseteq {t}, MallocAfter(t)
  PROVE  AloneInv(t)'
<1>1. /\ UNCHANGED <<entering_roi, last_malloc_size, trace_out, blocks, size, ptr, stored, roi_ended>>
      /\ pc[t] = "returned" /\ pc'[t] \in {"inserted", "program"}
      /\ \A u \in Threads \ {t} : pc'[u] = pc[u]
  BY DEF MallocAfter, Goto, file, IInv, TypeOK
<1>2. SizesAsAsked => SizesAsAsked'
  BY <1>1 DEF SizesAsAsked
<1>3. ASSUME HeapSizes PROVE HeapSizes'
  <2>1. CASE Traced(t)
    <3>1. last_malloc_size = size[t] /\ blocks[ptr[t]] = size[t]
      BY <1>1, <2>1 DEF AloneInv, Traced
    <3>2. heap' = [heap EXCEPT ![ptr[t]] = last_malloc_size]
      BY <2>1 DEF MallocAfter
    <3> QED BY <1>1, <1>3, <3>1, <3>2 DEF HeapSizes, IInv, TypeOK
  <2>2. CASE ~ Traced(t)
    BY <1>1, <1>3, <2>2 DEF HeapSizes, MallocAfter
  <2> QED BY <2>1, <2>2
<1> QED BY <1>1, <1>2, <1>3 DEF AloneInv

\* The line printed has the size that MallocBefore stored.
LEMMA MallocPrintAlone ==
  ASSUME IInv, NEW t \in Threads, AloneInv(t), callers \subseteq {t}, MallocPrint(t)
  PROVE  AloneInv(t)'
<1>1. /\ UNCHANGED <<entering_roi, last_malloc_size, heap, blocks, size, ptr, stored, roi_ended>>
      /\ pc[t] = "inserted" /\ pc'[t] = "program"
      /\ \A u \in Threads \ {t} : pc'[u] = pc[u]
  BY DEF MallocPrint, Goto, IInv, TypeOK
<1>2. SizesAsAsked'
  <2>1. writeLine(t, "MALLOC", ptr[t], last_malloc_size, size[t])
    BY DEF MallocPrint
  <2>2. ptr[t] \in Pointers /\ last_malloc_size \in Sizes /\ size[t] \in Sizes
    BY <1>1 DEF IInv, TypeOK, CallsInv
  <2>3. SizesAsAsked /\ (stored[t] => last_malloc_size = size[t])
    BY <1>1 DEF AloneInv
  <2> QED BY <2>1, <2>2, <2>3, ExactLine DEF IInv
<1>3. HeapSizes => HeapSizes'
  BY <1>1 DEF HeapSizes
<1> QED BY <1>1, <1>2, <1>3 DEF AloneInv

LEMMA FreeBeforeAlone ==
  ASSUME IInv, NEW t \in Threads, AloneInv(t), callers \subseteq {t},
         NEW p \in Pointers, FreeBefore(t, p)
  PROVE  AloneInv(t)'
<1>1. /\ UNCHANGED <<entering_roi, last_malloc_size, heap, blocks, size, stored, roi_ended>>
      /\ pc'[t] \in {"printed", "free"} /\ \A u \in Threads \ {t} : pc'[u] = pc[u]
      /\ SizesAsAsked
  BY DEF FreeBefore, Goto, IInv, TypeOK, AloneInv
<1>2. HeapSizes => HeapSizes'
  BY <1>1 DEF HeapSizes
<1>3. CASE entering_roi /\ heap[p] # NoSize
  <2>1. /\ writeLine(t, "FREE", p, heap[p], blocks[p])
        /\ heap[p] \in Sizes /\ blocks[p] \in Sizes
    BY <1>3 DEF FreeBefore, Owned, IInv, TypeOK
  <2>2. SizesAsAsked'
    BY <1>1, <2>1, ExactLine DEF IInv
  <2> QED BY <1>1, <1>2, <2>2 DEF AloneInv
<1>4. CASE UNCHANGED file
  <2>1. SizesAsAsked'
    BY <1>1, <1>4 DEF SizesAsAsked, file
  <2> QED BY <1>1, <1>2, <2>1 DEF AloneInv
<1> QED BY <1>3, <1>4 DEF FreeBefore

LEMMA FreeEraseAlone ==
  ASSUME IInv, NEW t \in Threads, AloneInv(t), callers \subseteq {t}, FreeErase(t)
  PROVE  AloneInv(t)'
<1>1. /\ UNCHANGED <<entering_roi, last_malloc_size, trace_out, blocks, size, ptr, stored,
                     roi_ended>>
      /\ pc'[t] = "free" /\ \A u \in Threads \ {t} : pc'[u] = pc[u]
      /\ heap' = [heap EXCEPT ![ptr[t]] = NoSize]
  BY DEF FreeErase, erased, Goto, file, IInv, TypeOK
<1>2. SizesAsAsked => SizesAsAsked'
  BY <1>1 DEF SizesAsAsked
<1>3. HeapSizes => HeapSizes'
  BY <1>1 DEF HeapSizes, IInv, TypeOK
<1> QED BY <1>1, <1>2, <1>3 DEF AloneInv

LEMMA FreeAlone ==
  ASSUME IInv, NEW t \in Threads, AloneInv(t), callers \subseteq {t}, free(t)
  PROVE  AloneInv(t)'
<1>1. /\ UNCHANGED <<entering_roi, last_malloc_size, heap, trace_out, size, ptr, stored, roi_ended>>
      /\ pc'[t] = "program" /\ \A u \in Threads \ {t} : pc'[u] = pc[u]
      /\ blocks' = [blocks EXCEPT ![ptr[t]] = NoSize]
  BY DEF free, Goto, globals, file, IInv, TypeOK
<1>2. SizesAsAsked => SizesAsAsked'
  BY <1>1 DEF SizesAsAsked
<1>3. HeapSizes => HeapSizes'
  BY <1>1 DEF HeapSizes, IInv, TypeOK
<1> QED BY <1>1, <1>2, <1>3 DEF AloneInv

\* A magic op is no step of a malloc under way: t is in its program.
LEMMA MagicAlone ==
  ASSUME NEW t \in Threads, AloneInv(t), callers \subseteq {t}, HandleMagicOp(t)
  PROVE  AloneInv(t)'
<1>1. /\ UNCHANGED <<last_malloc_size, heap, trace_out, blocks, pc, size, ptr, stored>>
      /\ pc[t] = "program" /\ (~ roi_ended' => ~ roi_ended)
  BY DEF HandleMagicOp, Call, file
<1>2. SizesAsAsked => SizesAsAsked'
  BY <1>1 DEF SizesAsAsked
<1>3. HeapSizes => HeapSizes'
  BY <1>1 DEF HeapSizes
<1> QED BY <1>1, <1>2, <1>3 DEF AloneInv

LEMMA NextAlone ==
  IInv /\ (\A t \in Threads : AloneInv(t)) /\ [Next]_vars => (\A t \in Threads : AloneInv(t))'
<1> SUFFICES ASSUME IInv, \A u \in Threads : AloneInv(u), [Next]_vars,
                    NEW t \in Threads, callers' \subseteq {t}
             PROVE  AloneInv(t)'
  BY DEF AloneInv
<1>1. ASSUME NEW u \in Threads, ThreadStep(u), ~ increCount(u) PROVE AloneInv(t)'
  <2>1. u = t /\ callers \subseteq {t} /\ ThreadStep(t) /\ ~ increCount(t)
    BY <1>1, OnlyCaller
  <2> QED BY <2>1, MallocBeforeAlone, MallocAlone, MallocAfterAlone, MallocPrintAlone,
             FreeBeforeAlone, FreeEraseAlone, FreeAlone, MagicAlone DEF ThreadStep
<1>2. ASSUME UNCHANGED <<entering_roi, last_malloc_size, heap, trace_out, blocks, pc, size, ptr,
                         roi_ended, stored, callers>>
      PROVE  AloneInv(t)'
  BY <1>2 DEF AloneInv, SizesAsAsked, HeapSizes
<1>3. ASSUME NEW u \in Threads, increCount(u) PROVE AloneInv(t)'
  BY <1>2, <1>3 DEF increCount
<1>4. CASE UNCHANGED vars
  BY <1>2, <1>4 DEF vars, globals, file
<1> QED BY <1>1, <1>3, <1>4 DEF Next

-----------------------------------------------------------------------------
\* The tracer's globals and the calls under way have their types.
THEOREM HeapTraceType == Spec => []TypeOK
<1>1. IInv => TypeOK
  BY DEF IInv
<1> QED BY <1>1, SpecIInv, PTL

\* As long as the program stays in the ROI, heap holds live blocks only.
THEOREM HeapNotStale == Spec => []NoStaleEntry
<1>1. IInv => NoStaleEntry
  BY DEF IInv
<1> QED BY <1>1, SpecIInv, PTL

\* Every FREE line of the trace has a MALLOC line of its own before it, however
\* the threads and the ROI interleave.
THEOREM HeapFreesPaired == Spec => []FreesArePaired
<1>1. IInv => FreesArePaired
  BY DEF IInv
<1> QED BY <1>1, SpecIInv, PTL

\* Until the exit the lines replay the table, for any number of threads.
THEOREM HeapLinesReplay == Spec => []TableReplays
<1>1. IInv => TableReplays
  BY DEF IInv
<1> QED BY <1>1, SpecIInv, PTL

\* The exit loses at most one line of each thread, none of the thread that exits.
THEOREM HeapOneLineLost == Spec => []OneLineLost
<1>1. IInv => OneLineLost
  BY DEF IInv, LostInv, OneLineLost
<1> QED BY <1>1, SpecIInv, PTL

\* The lines have the sizes asked for, and in the ROI heap those of the blocks, as long as
\* only one thread of the program calls malloc, free and the magic ops.
THEOREM HeapExactAlone == Spec => []ExactAlone
<1>1. (\A t \in Threads : AloneInv(t)) => ExactAlone
  BY DEF AloneInv, ExactAlone
<1>2. IInv /\ (\A t \in Threads : AloneInv(t)) /\ [Next]_vars => (\A t \in Threads : AloneInv(t))'
  BY NextAlone
<1> QED BY <1>1, <1>2, InitAlone, SpecIInv, PTL DEF Spec
=============================================================================
