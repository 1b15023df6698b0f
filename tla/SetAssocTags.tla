---------------------------- MODULE SetAssocTags ----------------------------
(***************************************************************************)
(* The tag array of one set-associative cache with its LRU replacement     *)
(* policy: Workload_Char/include/CacheSim/tags/set_assoc_tags.hh,          *)
(* tags/cache_tags.hh, tags/replacement_policies/set_way_lru.hh and        *)
(* cache_blk.hh.  The module has no state of its own: a tag array is a     *)
(* value, and each method of the C++ class is an operator from the array   *)
(* before the call to the array after it.                                  *)
(*                                                                         *)
(* An address is a block number, the byte address shifted right by         *)
(* log2(block_size) (blkAlign clears just those bits), so the set index is *)
(* the low part of the number and the tag the high part.  c is the cache   *)
(* the array belongs to; its geometry is num_sets[c] and assoc[c].         *)
(***************************************************************************)
EXTENDS Integers

CONSTANTS Caches,    \* the caches of the hierarchy
          num_sets,  \* num_sets[c]: number of sets, a power of two in every configs/*.cfg
          assoc      \* assoc[c]: number of ways of a set

\* The code indexes with masks and shifts, which needs a power of two; every
\* fact below holds for any positive number of sets.
ASSUME GeometryAssumption ==
  /\ num_sets \in [Caches -> Nat \ {0}]
  /\ assoc \in [Caches -> Nat \ {0}]

\* (Addr) -1, the "no address" of Tags<T>: no block number equals it.
MaxAddr == -1

Sets(c) == 0 .. (num_sets[c] - 1)
Ways(c) == 0 .. (assoc[c] - 1)

Blk == [valid : BOOLEAN, dirty : BOOLEAN, tag : Nat, when_touched : Nat]

TagArrays(c) == [Sets(c) -> [Ways(c) -> Blk]]

\* The constructor leaves tag uninitialised; findBlock decides nothing on the
\* tag of an invalid block, so any value does.
EmptyTags(c) ==
  [s \in Sets(c) |-> [w \in Ways(c) |->
    [valid |-> FALSE, dirty |-> FALSE, tag |-> 0, when_touched |-> 0]]]

extractSet(c, addr) == addr % num_sets[c]
extractTag(c, addr) == addr \div num_sets[c]
regenerateAddr(c, tag, set) == tag * num_sets[c] + set

\* The loops over a set stop at the first way that satisfies their condition.
FirstWay(W) == CHOOSE w \in W : \A v \in W : w <= v

\* Mutant of HitWays: the search starts at the second way.
HitWays_from_second(c, t, addr) ==
  {w \in Ways(c) \ {0} : /\ t[extractSet(c, addr)][w].tag = extractTag(c, addr)
                         /\ t[extractSet(c, addr)][w].valid}

HitWays(c, t, addr) ==
  {w \in Ways(c) : /\ t[extractSet(c, addr)][w].tag = extractTag(c, addr)
                   /\ t[extractSet(c, addr)][w].valid}

\* findBlock(addr) != nullptr, and the way findBlock returns.
isCached(c, t, addr) == HitWays(c, t, addr) # {}
findBlock(c, t, addr) == FirstWay(HitWays(c, t, addr))

\* Mutant of touch: the LRU timestamp is not refreshed.
touch_untimed(blk, modify, cur_clk) == [blk EXCEPT !.dirty = @ \/ modify]

\* policy.upgrade(blk, cur_clk), with setDirty for a modification.
touch(blk, modify, cur_clk) ==
  [blk EXCEPT !.dirty = @ \/ modify, !.when_touched = cur_clk]

\* accessBlock: a hit refreshes the LRU timestamp and remembers a modification.
accessBlock(c, t, addr, modify, cur_clk) ==
  IF isCached(c, t, addr)
  THEN [t EXCEPT ![extractSet(c, addr)][findBlock(c, t, addr)] = touch(@, modify, cur_clk)]
  ELSE t

\* SetWayAssocLRU::findVictim: an invalid way if there is one, else the way
\* touched longest ago.
victimWay(c, ways) ==
  LET Invalid == {w \in Ways(c) : ~ ways[w].valid}
      Oldest  == {w \in Ways(c) : \A v \in Ways(c) :
                                    ways[w].when_touched <= ways[v].when_touched}
  IN  FirstWay(IF Invalid # {} THEN Invalid ELSE Oldest)

\* The block that insertBlock(addr) is going to replace.
victimBlk(c, t, addr) ==
  LET ways == t[extractSet(c, addr)] IN ways[victimWay(c, ways)]

\* Mutants of wb_required: clean victims are written back too; any victim is.
wb_required_clean(c, t, addr) == victimBlk(c, t, addr).valid
wb_required_always(c, t, addr) == TRUE

\* Mutant of victim_addr: only a dirty victim reports its address.
victim_addr_dirty(c, t, addr) ==
  LET victim == victimBlk(c, t, addr)
  IN  IF victim.valid /\ victim.dirty
      THEN regenerateAddr(c, victim.tag, extractSet(c, addr))
      ELSE MaxAddr

\* The two results of insertBlock: is a write-back required, and the address
\* that leaves the cache (MaxAddr if the victim held none).
wb_required(c, t, addr) ==
  LET victim == victimBlk(c, t, addr) IN victim.valid /\ victim.dirty

victim_addr(c, t, addr) ==
  LET victim == victimBlk(c, t, addr)
  IN  IF victim.valid
      THEN regenerateAddr(c, victim.tag, extractSet(c, addr))
      ELSE MaxAddr

\* Mutant of invalidate: the dirty bit survives.
invalidate_dirty(blk) == [blk EXCEPT !.valid = FALSE, !.when_touched = 0]

\* SetWayAssocTags::invalidate: the tag stays behind, the rest is reset.
invalidate(blk) == [blk EXCEPT !.valid = FALSE, !.dirty = FALSE, !.when_touched = 0]

\* insertBlock: the victim is invalidated, then takes the new tag.
insertBlock(c, t, addr, modify, cur_clk) ==
  LET set    == extractSet(c, addr)
      way    == victimWay(c, t[set])
      victim == t[set][way]
      freed  == IF victim.valid THEN invalidate(victim) ELSE victim
      filled == [freed EXCEPT !.valid = TRUE, !.tag = extractTag(c, addr)]
  IN  [t EXCEPT ![set][way] = touch(filled, modify, cur_clk)]

inval(c, t, addr) ==
  IF isCached(c, t, addr)
  THEN [t EXCEPT ![extractSet(c, addr)][findBlock(c, t, addr)] = invalidate(@)]
  ELSE t

-----------------------------------------------------------------------------
\* Observers used by the properties of the modules that keep such an array.

\* The addresses of the valid blocks, and of those that are dirty.
CachedBlocks(c, t) ==
  UNION {{regenerateAddr(c, t[s][w].tag, s) : w \in {v \in Ways(c) : t[s][v].valid}} :
           s \in Sets(c)}

DirtyBlocks(c, t) ==
  {addr \in CachedBlocks(c, t) : t[extractSet(c, addr)][findBlock(c, t, addr)].dirty}

\* At most one valid block of a set holds a given tag.
UniqueTags(c, t) ==
  \A s \in Sets(c) : \A v, w \in Ways(c) :
    t[s][v].valid /\ t[s][w].valid /\ t[s][v].tag = t[s][w].tag => v = w

\* The LRU order of a set is strict and no timestamp is ahead of the clock.
StrictLRU(c, t, clk) ==
  \A s \in Sets(c) : \A v, w \in Ways(c) : t[s][v].valid =>
    /\ t[s][v].when_touched <= clk
    /\ t[s][w].valid /\ v # w => t[s][v].when_touched # t[s][w].when_touched
=============================================================================
