------------------------------- MODULE FALRU -------------------------------
(***************************************************************************)
(* The LRU list of a fully associative cache:                              *)
(* Workload_Analysis/src/CacheSim/tags/replacement_policies/fa_lru.hh and  *)
(* tagsInit of tags/fa_tags.hh.  The list is doubly linked through the     *)
(* blocks themselves and threads all of them, valid or not: head is the    *)
(* most recently used block, tail the next victim.                         *)
(*                                                                         *)
(* A list is the value of its pointers, and upgrade and downgrade are      *)
(* operators from the pointers before the call to the pointers after it.   *)
(***************************************************************************)
EXTENDS Integers

CONSTANT num_blocks   \* blocks of the cache: its size over the block size

\* tagsInit links blks[0] to blks[1] before anything else.
ASSUME FALRUAssumption == num_blocks \in Nat /\ num_blocks >= 2

Blks == 0 .. (num_blocks - 1)
nullptr == -1
Pointers == Blks \cup {nullptr}

Lists == [prev : [Blks -> Pointers], next : [Blks -> Pointers], head : Blks, tail : Blks]

\* The blocks in the order of the array.
InitList ==
  [prev |-> [b \in Blks |-> IF b = 0 THEN nullptr ELSE b - 1],
   next |-> [b \in Blks |-> IF b = num_blocks - 1 THEN nullptr ELSE b + 1],
   head |-> 0,
   tail |-> num_blocks - 1]

\* Mutant of unlinkTail: the tail becomes the next block, not the previous one.
unlinkTail_next(l, blk) ==
  [l EXCEPT !.tail = l.next[blk], !.next = [l.next EXCEPT ![l.prev[blk]] = nullptr]]

\* The last block leaves the list: the one before it becomes the tail.
unlinkTail(l, blk) ==
  [l EXCEPT !.tail = l.prev[blk], !.next = [l.next EXCEPT ![l.prev[blk]] = nullptr]]

\* The first block leaves the list: the one after it becomes the head.
unlinkHead(l, blk) ==
  [l EXCEPT !.head = l.next[blk], !.prev = [l.prev EXCEPT ![l.next[blk]] = nullptr]]

\* Mutant of unlinkMiddle: only the next pointers are told.
unlinkMiddle_oneway(l, blk) ==
  [l EXCEPT !.next = [l.next EXCEPT ![l.prev[blk]] = l.next[blk]]]

\* A block with two neighbours leaves the list: they become each other's.
unlinkMiddle(l, blk) ==
  [l EXCEPT !.next = [l.next EXCEPT ![l.prev[blk]] = l.next[blk]],
            !.prev = [l.prev EXCEPT ![l.next[blk]] = l.prev[blk]]]

\* An unlinked block goes back in front of the head, or behind the tail.
pushFront(l, blk) ==
  [l EXCEPT !.next = [l.next EXCEPT ![blk] = l.head],
            !.prev = [l.prev EXCEPT ![blk] = nullptr, ![l.head] = blk],
            !.head = blk]

pushBack(l, blk) ==
  [l EXCEPT !.prev = [l.prev EXCEPT ![blk] = l.tail],
            !.next = [l.next EXCEPT ![blk] = nullptr, ![l.tail] = blk],
            !.tail = blk]

\* Mutant of upgrade: a block that is used again keeps its place.
upgrade_lazy(l, blk) == l

\* The block has just been used.
upgrade(l, blk) ==
  IF blk = l.head THEN l
  ELSE pushFront(IF blk = l.tail THEN unlinkTail(l, blk) ELSE unlinkMiddle(l, blk), blk)

\* The block has just been freed.
downgrade(l, blk) ==
  IF blk = l.tail THEN l
  ELSE pushBack(IF blk = l.head THEN unlinkHead(l, blk) ELSE unlinkMiddle(l, blk), blk)
-----------------------------------------------------------------------------
\* pos numbers the blocks 1 .. num_blocks from head to tail as the pointers say, in
\* both directions.
Numbers(pos, l) ==
  /\ \A b, c \in Blks : pos[b] = pos[c] => b = c
  /\ pos[l.head] = 1
  /\ pos[l.tail] = num_blocks
  /\ \A b \in Blks :
       /\ IF pos[b] = 1 THEN l.prev[b] = nullptr
          ELSE l.prev[b] \in Blks /\ pos[l.prev[b]] = pos[b] - 1
       /\ IF pos[b] = num_blocks THEN l.next[b] = nullptr
          ELSE l.next[b] \in Blks /\ pos[l.next[b]] = pos[b] + 1

Numberings == [Blks -> 1 .. num_blocks]

\* The pointers thread every block exactly once.
Threaded(l) == \E pos \in Numberings : Numbers(pos, l)

\* The blocks from head to tail, following next.
Walk(l) ==
  LET at[i \in 1 .. num_blocks] ==
        IF i = 1 THEN l.head
        ELSE IF at[i - 1] = nullptr THEN nullptr ELSE l.next[at[i - 1]]
  IN  at
=============================================================================
