-------------------------- MODULE InclusiveHierarchy --------------------------
(***************************************************************************)
(* The cache hierarchy that wl_char_roi builds for one core (its           *)
(* "cortex a-76 setup"): an instruction cache L1I and a data cache L1D     *)
(* over a shared last level L2, each a Cache object of                     *)
(* Workload_Char/include/CacheSim/cache.hh.  Cache::send calls the next    *)
(* level and is called back through inval while it still holds its own     *)
(* results, so one request of the program is a chain of calls up and down  *)
(* the hierarchy; the tool makes it under pinLock, so here it is one step. *)
(***************************************************************************)
EXTENDS SetAssocTags, FiniteSets

CONSTANT Blocks   \* block numbers the program touches

ASSUME HierarchyAssumption == Caches = {"L1I", "L1D", "L2"} /\ Blocks \subseteq Nat

L1s == {"L1I", "L1D"}   \* prev_levels of L2; L2 is the next_level of each

VARIABLES tags,     \* tags[c]: the tag array of cache c
          accesses, \* accesses[c]: requests c has received, the clock of its LRU
          stats,    \* stats[c]: its other counters
          modified  \* history: blocks the program wrote since L2 last loaded them

vars == <<tags, accesses, stats, modified>>

Counters == {"read_accesses", "write_accesses", "num_hits", "num_misses",
             "num_data_loads", "num_instr_loads", "num_evicts"}

TypeOK ==
  /\ tags = [c \in Caches |-> tags[c]]
  /\ \A c \in Caches : tags[c] \in TagArrays(c)
  /\ accesses \in [Caches -> Nat]
  /\ stats \in [Caches -> [Counters -> Nat]]
  /\ modified \subseteq Blocks

Init ==
  /\ tags = [c \in Caches |-> EmptyTags(c)]
  /\ accesses = [c \in Caches |-> 0]
  /\ stats = [c \in Caches |-> [k \in Counters |-> 0]]
  /\ modified = {}
-----------------------------------------------------------------------------
\* The counters a call of send moves.  A write-back that misses loads nothing.
Tally(type, hit, instr_loading, wb) ==
  {IF type = "READ" THEN "read_accesses" ELSE "write_accesses"}
    \cup {IF hit THEN "num_hits" ELSE "num_misses"}
    \cup (IF hit \/ type = "WRITE_BACK" THEN {}
          ELSE {IF instr_loading THEN "num_instr_loads" ELSE "num_data_loads"})
    \cup (IF ~ hit /\ wb THEN {"num_evicts"} ELSE {})

Bump(counters, moved) ==
  [k \in Counters |-> IF k \in moved THEN counters[k] + 1 ELSE counters[k]]

\* The hierarchy h after cache c has left its array as t, its clock at clk and
\* moved these counters.
Update(h, c, t, clk, moved) ==
  [tags |-> [h.tags EXCEPT ![c] = t],
   accesses |-> [h.accesses EXCEPT ![c] = clk],
   stats |-> [h.stats EXCEPT ![c] = Bump(@, moved)]]

\* Mutant of BackInval: the previous levels are not told.
BackInval_forgotten(h, victim) == h

\* prev_level->inval(victim_addr) on each previous level of L2, unless the block
\* replaced there was invalid.
BackInval(h, victim) ==
  [tags |-> [c \in Caches |-> IF c \in L1s /\ victim # MaxAddr
                              THEN inval(c, h.tags[c], victim) ELSE h.tags[c]],
   accesses |-> h.accesses,
   stats |-> h.stats]

\* Cache::send on the last level: a miss inserts the block and invalidates the
\* victim, dirty or clean, in all the previous levels.
sendLLC(h, addr, type, instr_loading) ==
  LET t      == h.tags["L2"]
      clk    == h.accesses["L2"] + 1
      modify == type # "READ"
      hit    == isCached("L2", t, addr)
      tally  == Tally(type, hit, instr_loading, wb_required("L2", t, addr))
  IN  IF hit
      THEN Update(h, "L2", accessBlock("L2", t, addr, modify, clk), clk, tally)
      ELSE Update(BackInval(h, victim_addr("L2", t, addr)),
                  "L2", insertBlock("L2", t, addr, modify, clk), clk, tally)

\* Cache::send on a first level: a miss loads the block from L2, then inserts
\* it here - in the array the back-invalidation may just have changed - and
\* writes a dirty victim back to L2.
sendL1(h, c, addr, type, instr_loading) ==
  LET clk      == h.accesses[c] + 1
      modify   == type # "READ"
      hit      == isCached(c, h.tags[c], addr)
      loaded   == sendLLC(h, addr, "READ", instr_loading)
      t        == loaded.tags[c]
      wb       == wb_required(c, t, addr)
      tally    == Tally(type, hit, instr_loading, wb)
      inserted == Update(loaded, c, insertBlock(c, t, addr, modify, clk), clk, tally)
  IN  IF hit
      THEN Update(h, c, accessBlock(c, h.tags[c], addr, modify, clk), clk, tally)
      ELSE IF wb
      THEN sendLLC(inserted, victim_addr(c, t, addr), "WRITE_BACK", FALSE)
      ELSE inserted
-----------------------------------------------------------------------------
\* One request of the program to first level c.
Request(c, addr, type, instr_loading) ==
  LET h == sendL1([tags |-> tags, accesses |-> accesses, stats |-> stats],
                  c, addr, type, instr_loading)
  IN  /\ tags' = h.tags
      /\ accesses' = h.accesses
      /\ stats' = h.stats
      /\ modified' = {b \in modified \cup (IF type = "WRITE" THEN {addr} ELSE {}) :
                        isCached("L2", h.tags["L2"], b)}

InstrFetch(addr) == Request("L1I", addr, "READ", TRUE)   \* simInstrCache
Load(addr)       == Request("L1D", addr, "READ", FALSE)  \* simMemOpr
Store(addr)      == Request("L1D", addr, "WRITE", FALSE) \* simMemOpr

Next == \E addr \in Blocks : InstrFetch(addr) \/ Load(addr) \/ Store(addr)

Spec == Init /\ [][Next]_vars
-----------------------------------------------------------------------------
Cached(c) == CachedBlocks(c, tags[c])
Dirty(c) == DirtyBlocks(c, tags[c])

\* No set ever holds two valid copies of a block, so that findBlock and inval,
\* which stop at the first match, see the only one.
NoDuplicates == \A c \in Caches : UniqueTags(c, tags[c])

\* "Let's consider an inclusive cache" (cache.hh:13): whatever either first
\* level holds, L2 holds too, although L2 evicts without asking them.
Inclusion == \A c \in L1s : Cached(c) \subseteq Cached("L2")

\* The clock of each cache orders the blocks of every set strictly, so that
\* the block findVictim calls oldest is unique.
LRUOrder == \A c \in Caches : StrictLRU(c, tags[c], accesses[c])

\* The counters of the three caches agree: every miss of any cache is a load (a
\* write-back always finds its block, cache.hh:60), and the requests L2 has
\* received are exactly the loads and the write-backs of the first levels.
TrafficAgrees ==
  LET Sum(k) == stats["L1I"][k] + stats["L1D"][k]
  IN  /\ \A c \in Caches :
           /\ stats[c].num_hits + stats[c].num_misses = accesses[c]
           /\ stats[c].num_misses = stats[c].num_data_loads + stats[c].num_instr_loads
      /\ stats["L2"].read_accesses = Sum("num_misses")
      /\ stats["L2"].write_accesses = Sum("num_evicts")

\* A copy is dirty only if the program wrote the block since it was last
\* loaded from memory: no write-back is invented when a way is reused.
DirtyIsModified == \A c \in Caches : Dirty(c) \subseteq modified

\* The loads of L2, which wl_char_roi.cpp:11 charges as off-chip reads, are one for
\* each block that enters L2, and its evictions, charged as off-chip writes, one
\* for each block that was dirty in L2 and leaves it.
OffChipTraffic ==
  [][/\ Cardinality(Cached("L2")' \ Cached("L2"))
          = stats["L2"].num_data_loads' + stats["L2"].num_instr_loads'
            - stats["L2"].num_data_loads - stats["L2"].num_instr_loads
     /\ Cardinality(Dirty("L2") \ Cached("L2")')
          = stats["L2"].num_evicts' - stats["L2"].num_evicts]_vars

\* What cache.hh:105 asks of an eviction: a block some cache holds dirty leaves the
\* hierarchy only with a write-back to memory.
NoLostModification ==
  [][\A b \in UNION {Dirty(c) : c \in Caches} :
       b \notin UNION {Cached(c)' : c \in Caches} =>
         stats["L2"].num_evicts' > stats["L2"].num_evicts]_vars
=============================================================================
