----------------------------- MODULE WOFACache -----------------------------
(***************************************************************************)
(* The write-only fully associative cache that profiler.cpp:432 builds for *)
(* a shared eDRAM: WOFACache of Workload_Analysis/src/CacheSim/cache.hh    *)
(* over the FATags of tags/fa_tags.hh.  Its blocks are found through a     *)
(* hash, tagHash, and ordered by the list of FALRU; every call has to      *)
(* change the block, the hash and the list together.                       *)
(*                                                                         *)
(* The profiler of this commit returns from memAccessSim before it sends a *)
(* request to any cache, so the module takes the requests of the class     *)
(* (Request_Type) from any caller, one at a time.  An address is a block   *)
(* number: blkAlign has nothing left to clear.                             *)
(***************************************************************************)
EXTENDS FALRU, FiniteSets, Sequences

CONSTANTS Addr,       \* block addresses the callers use
          MaxAddr,    \* (Addr) -1, no address
          MaxAccesses \* bound: requests between two reInitialize

ASSUME WOFACacheAssumption == MaxAddr \notin Addr /\ MaxAccesses \in Nat

VARIABLES list,    \* the pointers of the LRU list
          blks,    \* blks[b]: the rest of block b
          tagHash, \* tagHash[a]: the block that holds a, nullptr if it is not a key
          stats,   \* the counters of Cache<T>
          sent,    \* the requests of the last call to the next level
          kept     \* history: blocks the cache held at the last reInitialize

vars == <<list, blks, tagHash, stats, sent, kept>>

Request_Type == {"READ", "WRITE", "WRITE_BACK"}
Counters == {"accesses", "num_hits", "num_misses", "num_loads", "num_evicts"}

FABlk == [valid : BOOLEAN, dirty : BOOLEAN, tag : Addr \cup {MaxAddr}]

TypeOK ==
  /\ list \in Lists
  /\ blks \in [Blks -> FABlk]
  /\ tagHash \in [Addr -> Pointers]
  /\ stats \in [Counters -> Nat]
  /\ sent \in Seq([type : Request_Type, addr : Addr])
  /\ kept \in Nat

Zero == [k \in Counters |-> 0]

\* The constructor leaves tag uninitialised; it is not read before it is set.
Init ==
  /\ list = InitList
  /\ blks = [b \in Blks |-> [valid |-> FALSE, dirty |-> FALSE, tag |-> MaxAddr]]
  /\ tagHash = [a \in Addr |-> nullptr]
  /\ stats = Zero /\ sent = <<>> /\ kept = 0
-----------------------------------------------------------------------------
\* Mutant of Bump: the requests themselves are not counted.
Bump_uncounted(moved) == [k \in Counters |-> IF k \in moved THEN stats[k] + 1 ELSE stats[k]]

\* stats after a request that moves the counters moved.
Bump(moved) ==
  [k \in Counters |-> IF k \in moved \cup {"accesses"} THEN stats[k] + 1 ELSE stats[k]]

\* findBlock(addr), nullptr on a miss.
findBlock(addr) == tagHash[addr]

\* Mutant of accessedBlk: a hit takes the type of the request for the dirty bit.
accessedBlk_overwritten(blk, modify) == [blk EXCEPT !.dirty = modify]

\* A hit remembers a modification.
accessedBlk(blk, modify) == IF modify THEN [blk EXCEPT !.dirty = TRUE] ELSE blk

\* Mutant of victim: the most recently used block.
victim_mru == list.head

\* FALRU::findVictim, the block that is going to be freed, and whether it is dirty.
victim == list.tail
wb_required == blks[victim].valid /\ blks[victim].dirty

\* Mutant of invalidatedHash: the erase inside the assert is compiled out.
invalidatedHash_kept == tagHash

\* invalidate(victim), if it is valid: its key leaves the hash, and the block goes
\* to the tail of the list.
invalidatedHash ==
  IF blks[victim].valid THEN [tagHash EXCEPT ![blks[victim].tag] = nullptr] ELSE tagHash

invalidatedList == IF blks[victim].valid THEN downgrade(list, victim) ELSE list

\* The victim after setDirty and insert.
insertedBlk(addr) == [valid |-> TRUE, dirty |-> TRUE, tag |-> addr]

\* insertBlock(addr, TRUE): the victim takes the block and becomes the head.
insertBlock(addr) ==
  /\ blks' = [blks EXCEPT ![victim] = insertedBlk(addr)]
  /\ list' = upgrade(invalidatedList, victim)
  /\ tagHash' = [invalidatedHash EXCEPT ![addr] = victim]

\* WOFACache::send, the request hits.
Hit(type, addr) ==
  /\ findBlock(addr) # nullptr
  /\ list' = upgrade(list, findBlock(addr))
  /\ blks' = [blks EXCEPT ![findBlock(addr)] = accessedBlk(@, type # "READ")]
  /\ stats' = Bump({"num_hits"})
  /\ sent' = <<>>
  /\ UNCHANGED <<tagHash, kept>>

\* "We won't insert any read miss blocks."
ReadMiss(addr) ==
  /\ findBlock(addr) = nullptr
  /\ stats' = Bump({"num_misses"})
  /\ sent' = <<>>
  /\ UNCHANGED <<list, blks, tagHash, kept>>

\* A write that misses loads the block, a write-back does not (nor is it counted as a
\* miss); both insert it, and a dirty victim goes to the next level.
WriteMiss(type, addr) ==
  /\ type # "READ"
  /\ findBlock(addr) = nullptr
  /\ insertBlock(addr)
  /\ stats' = Bump((IF type = "WRITE" THEN {"num_misses", "num_loads"} ELSE {})
                     \cup (IF wb_required THEN {"num_evicts"} ELSE {}))
  /\ sent' = (IF type = "WRITE" THEN <<[type |-> "READ", addr |-> addr]>> ELSE <<>>)
             \o (IF wb_required THEN <<[type |-> "WRITE_BACK", addr |-> blks[victim].tag]>>
                 ELSE <<>>)
  /\ UNCHANGED kept

send(type, addr) ==
  /\ stats.accesses < MaxAccesses
  /\ \/ Hit(type, addr)
     \/ type = "READ" /\ ReadMiss(addr)
     \/ WriteMiss(type, addr)

Resident == {b \in Blks : blks[b].valid}

\* Cache::reInitialize: the counters only, the call on the tags is commented out.
reInitialize ==
  /\ stats' = Zero
  /\ kept' = Cardinality(Resident)
  /\ UNCHANGED <<list, blks, tagHash, sent>>

Next == reInitialize \/ \E type \in Request_Type, addr \in Addr : send(type, addr)

Spec == Init /\ [][Next]_vars
-----------------------------------------------------------------------------
\* The list of fa_lru.hh is well formed: its next pointers lead from head to tail
\* through every block exactly once and its prev pointers back, so that the asserts of
\* upgrade and downgrade hold and neither dereferences a null pointer.
ListThreaded == Threaded(list)

\* tagHash finds a block exactly if a valid block holds it, and finds that block, so
\* that no block is held twice: the asserts of findBlock (fa_tags.hh:136-138) and the
\* one of invalidate (fa_tags.hh:170), which does the erase.
HashAgrees ==
  /\ \A a \in Addr : tagHash[a] # nullptr =>
       blks[tagHash[a]].valid /\ blks[tagHash[a]].tag = a
  /\ \A b \in Resident : blks[b].tag \in Addr /\ tagHash[blks[b].tag] = b

\* In LRU order, no free block comes before a valid one, so that findVictim, which only
\* looks at the tail, never evicts while a block is free.
FreeBlocksLast ==
  \E pos \in Numberings :
    /\ Numbers(pos, list)
    /\ \A b, c \in Blks : blks[c].valid /\ pos[b] < pos[c] => blks[b].valid

\* Every block the cache holds has been written, whatever hits it has had since: all
\* evictions are write-backs, and none of them drops a modification.
ResidentIsDirty == \A b \in Blks : blks[b].valid <=> blks[b].dirty

\* The statistics balance: since the last reInitialize, the blocks that came in
\* (the loads, and the write-backs that missed, which only accesses counts) are those
\* that were evicted and the growth of the cache.
TrafficBalanced ==
  kept + stats.num_loads + (stats.accesses - stats.num_hits - stats.num_misses)
    = stats.num_evicts + Cardinality(Resident)

\* The addresses held, in the order of the list: the free blocks come last.
lruOrder == [i \in 1 .. Cardinality(Resident) |-> blks[Walk(list)[i]].tag]

\* The blocks, the hash and the list together are a buffer in LRU order.
Buffer == INSTANCE LRUBuffer WITH Capacity <- num_blocks, order <- lruOrder

\* What the next level receives, and in what order, is what an LRU buffer of written
\* blocks sends.
LRUBufferSpec == Buffer!Spec
=============================================================================
