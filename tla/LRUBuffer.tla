----------------------------- MODULE LRUBuffer -----------------------------
(***************************************************************************)
(* What a write-only fully associative cache promises: a buffer of the     *)
(* written blocks in LRU order, no larger than its capacity.  Writes enter *)
(* it, reads find what is there and leave no trace when they miss, and the *)
(* block used longest ago goes to the next level when a new one needs its  *)
(* place.  It has neither pointers, nor a hash, nor blocks.                *)
(***************************************************************************)
EXTENDS Sequences, Integers

CONSTANTS Addr,      \* block addresses
          Capacity   \* blocks the buffer holds, at least one

VARIABLES order, \* addresses held, the most recently used first
          sent   \* what the last request sent to the next level, in order

Held == {order[i] : i \in DOMAIN order}

Init == order = <<>> /\ sent = <<>>

\* The address moves to the front.
Hit(addr) ==
  /\ \E i \in DOMAIN order :
       /\ order[i] = addr
       /\ order' = <<addr>> \o SubSeq(order, 1, i - 1) \o SubSeq(order, i + 1, Len(order))
  /\ sent' = <<>>

ReadMiss(addr) ==
  /\ addr \notin Held
  /\ sent' = <<>>
  /\ UNCHANGED order

\* A written block that is not held enters; a program's write loads it first.
WriteMiss(addr, load) ==
  /\ addr \notin Held
  /\ order' = <<addr>> \o SubSeq(order, 1, IF Len(order) = Capacity THEN Capacity - 1
                                           ELSE Len(order))
  /\ sent' = load \o (IF Len(order) = Capacity
                      THEN <<[type |-> "WRITE_BACK", addr |-> order[Capacity]]>>
                      ELSE <<>>)

Next ==
  \E addr \in Addr :
    \/ Hit(addr)
    \/ ReadMiss(addr)
    \/ WriteMiss(addr, <<[type |-> "READ", addr |-> addr]>>)
    \/ WriteMiss(addr, <<>>)

Spec == Init /\ [][Next]_<<order, sent>>
=============================================================================
