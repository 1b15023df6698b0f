------------------------- MODULE SetAssocTagsProofs -------------------------
(***************************************************************************)
(* Facts about one tag array, for every geometry: what the methods of      *)
(* SetWayAssocTags return and which blocks are cached after them.  They    *)
(* are what the proofs about hierarchies of caches rest on.                *)
(***************************************************************************)
EXTENDS SetAssocTags, FiniteSetTheorems, WellFoundedInduction, TLAPS

\* A non-empty set of naturals has a least element.
LEMMA NatMinimum ==
  ASSUME NEW W, W \subseteq Nat, W # {}
  PROVE  \E w \in W : \A v \in W : w <= v
<1> DEFINE T == {0 .. w : w \in W}
<1>1. T \subseteq FiniteSubsetsOf(Nat) /\ T # {}
  <2>1. ASSUME NEW w \in W
        PROVE  0 .. w \in FiniteSubsetsOf(Nat)
    <3>1. IsFiniteSet(0 .. w)
      BY FS_Interval
    <3> QED BY <3>1 DEF FiniteSubsetsOf
  <2> QED BY <2>1
<1>2. \E x \in T : \A y \in T : <<y, x>> \notin StrictSubsetOrdering(Nat)
  <2> HIDE DEF T
  <2> QED BY <1>1, WFMin, FS_StrictSubsetOrderingWellFounded
<1>3. PICK w \in W : \A v \in W : <<0 .. v, 0 .. w>> \notin StrictSubsetOrdering(Nat)
  BY <1>2
<1>4. ASSUME NEW v \in W, ~ (w <= v)
      PROVE  FALSE
  <2>1. 0 .. v \subseteq 0 .. w /\ w \in 0 .. w /\ w \notin 0 .. v
    BY <1>4
  <2>2. 0 .. v \in SUBSET Nat /\ 0 .. w \in SUBSET Nat
    OBVIOUS
  <2>3. <<0 .. v, 0 .. w>> \in StrictSubsetOrdering(Nat)
    BY <2>1, <2>2 DEF StrictSubsetOrdering
  <2> QED BY <2>3, <1>3
<1> QED BY <1>3, <1>4

\* The scan of a set finds a way whenever one qualifies.
LEMMA FirstWayIn ==
  ASSUME NEW c \in Caches, NEW W, W \subseteq Ways(c), W # {}
  PROVE  FirstWay(W) \in W
<1>1. W \subseteq Nat
  BY GeometryAssumption DEF Ways
<1>2. \E w \in W : \A v \in W : w <= v
  BY <1>1, NatMinimum
<1> QED BY <1>2 DEF FirstWay

-----------------------------------------------------------------------------
\* Slicing an address into set and tag, and putting it together again.
LEMMA Slices ==
  ASSUME NEW c \in Caches, NEW addr \in Nat
  PROVE  /\ extractSet(c, addr) \in Sets(c)
         /\ extractTag(c, addr) \in Nat
         /\ regenerateAddr(c, extractTag(c, addr), extractSet(c, addr)) = addr
<1> DEFINE n == num_sets[c]
<1>1. n \in Nat \ {0}
  BY GeometryAssumption
<1>2. /\ addr % n \in 0 .. (n - 1)
      /\ addr \div n \in Nat
      /\ (addr \div n) * n + (addr % n) = addr
  <2> HIDE DEF n
  <2> QED BY <1>1
<1> QED BY <1>2 DEF extractSet, extractTag, regenerateAddr, Sets

LEMMA Regenerated ==
  ASSUME NEW c \in Caches, NEW tag \in Nat, NEW s \in Sets(c)
  PROVE  /\ regenerateAddr(c, tag, s) \in Nat
         /\ extractSet(c, regenerateAddr(c, tag, s)) = s
         /\ extractTag(c, regenerateAddr(c, tag, s)) = tag
<1> DEFINE n == num_sets[c]
<1>1. n \in Nat \ {0} /\ s \in 0 .. (n - 1)
  BY GeometryAssumption DEF Sets
<1>2. /\ (tag * n + s) % n = s
      /\ (tag * n + s) \div n = tag
      /\ tag * n + s \in Nat
  <2> HIDE DEF n
  <2> QED BY <1>1
<1> QED BY <1>2 DEF extractSet, extractTag, regenerateAddr

-----------------------------------------------------------------------------
\* findBlock returns a valid way of the right set that holds the right tag.
LEMMA FoundBlock ==
  ASSUME NEW c \in Caches, NEW t \in TagArrays(c), NEW addr \in Nat,
         isCached(c, t, addr)
  PROVE  /\ findBlock(c, t, addr) \in Ways(c)
         /\ t[extractSet(c, addr)][findBlock(c, t, addr)].valid
         /\ t[extractSet(c, addr)][findBlock(c, t, addr)].tag = extractTag(c, addr)
<1>1. findBlock(c, t, addr) \in HitWays(c, t, addr)
  BY FirstWayIn DEF findBlock, isCached, HitWays
<1> QED BY <1>1 DEF HitWays

\* A set always has a victim; it is invalid, or every way of the set is valid.
LEMMA VictimWay ==
  ASSUME NEW c \in Caches, NEW t \in TagArrays(c), NEW s \in Sets(c)
  PROVE  victimWay(c, t[s]) \in Ways(c)
<1> DEFINE ways    == t[s]
           Invalid == {w \in Ways(c) : ~ ways[w].valid}
           Oldest  == {w \in Ways(c) : \A v \in Ways(c) :
                                         ways[w].when_touched <= ways[v].when_touched}
           Times   == {ways[w].when_touched : w \in Ways(c)}
<1>1. ways \in [Ways(c) -> Blk] /\ 0 \in Ways(c)
  BY GeometryAssumption DEF TagArrays, Ways
<1>2. Times \subseteq Nat /\ Times # {}
  BY <1>1 DEF Blk
<1>3. \E m \in Times : \A n \in Times : m <= n
  <2> HIDE DEF Times
  <2> QED BY <1>2, NatMinimum
<1>4. Oldest # {}
  BY <1>3
<1>5. (IF Invalid # {} THEN Invalid ELSE Oldest) \subseteq Ways(c)
  OBVIOUS
<1>6. (IF Invalid # {} THEN Invalid ELSE Oldest) # {}
  BY <1>4
<1>7. FirstWay(IF Invalid # {} THEN Invalid ELSE Oldest) \in Ways(c)
  <2> HIDE DEF Invalid, Oldest
  <2> QED BY <1>5, <1>6, FirstWayIn
<1> QED BY <1>7 DEF victimWay

\* Every method of the class rewrites at most one way of one set.
LEMMA UpdateWay ==
  ASSUME NEW c \in Caches, NEW t \in TagArrays(c), NEW s \in Sets(c), NEW w \in Ways(c),
         NEW b \in Blk
  PROVE  LET u == [t EXCEPT ![s][w] = b]
         IN  /\ u \in TagArrays(c)
             /\ u[s][w] = b
             /\ \A r \in Sets(c) : \A v \in Ways(c) :
                  r # s \/ v # w => u[r][v] = t[r][v]
  BY DEF TagArrays

\* CachedBlocks is the set of the addresses that findBlock finds.
LEMMA CachedBlock ==
  ASSUME NEW c \in Caches, NEW t \in TagArrays(c)
  PROVE  /\ CachedBlocks(c, t) \subseteq Nat
         /\ \A addr \in Nat :
              /\ isCached(c, t, addr) <=> addr \in CachedBlocks(c, t)
              /\ isCached(c, t, addr) <=>
                   \E w \in Ways(c) : /\ t[extractSet(c, addr)][w].valid
                                      /\ t[extractSet(c, addr)][w].tag = extractTag(c, addr)
<1>1. \A s \in Sets(c) : \A w \in Ways(c) : t[s][w] \in Blk
  BY DEF TagArrays
<1>2. ASSUME NEW addr \in CachedBlocks(c, t)
      PROVE  addr \in Nat /\ isCached(c, t, addr)
  <2>1. PICK s \in Sets(c), w \in Ways(c) :
          t[s][w].valid /\ addr = regenerateAddr(c, t[s][w].tag, s)
    BY <1>2 DEF CachedBlocks
  <2>2. t[s][w].tag \in Nat
    BY <1>1 DEF Blk
  <2>3. addr \in Nat /\ extractSet(c, addr) = s /\ extractTag(c, addr) = t[s][w].tag
    BY <2>1, <2>2, Regenerated
  <2> QED BY <2>1, <2>3 DEF isCached, HitWays
<1>3. ASSUME NEW addr \in Nat
      PROVE  isCached(c, t, addr) <=>
               \E w \in Ways(c) : /\ t[extractSet(c, addr)][w].valid
                                  /\ t[extractSet(c, addr)][w].tag = extractTag(c, addr)
  BY DEF isCached, HitWays
<1>4. ASSUME NEW addr \in Nat, isCached(c, t, addr)
      PROVE  addr \in CachedBlocks(c, t)
  <2>1. PICK w \in Ways(c) : /\ t[extractSet(c, addr)][w].valid
                             /\ t[extractSet(c, addr)][w].tag = extractTag(c, addr)
    BY <1>3, <1>4
  <2>2. extractSet(c, addr) \in Sets(c)
    BY Slices
  <2>3. addr = regenerateAddr(c, t[extractSet(c, addr)][w].tag, extractSet(c, addr))
    BY <2>1, Slices
  <2> QED BY <2>1, <2>2, <2>3 DEF CachedBlocks
<1> QED BY <1>2, <1>3, <1>4

-----------------------------------------------------------------------------
\* The array u is t with block b in way w of set s, which is all that a method does.
Rewritten(c, t, u, s, w, b) ==
  /\ u \in TagArrays(c)
  /\ u[s][w] = b
  /\ \A r \in Sets(c) : \A v \in Ways(c) : r # s \/ v # w => u[r][v] = t[r][v]

\* Way w of the set of addr holds addr.
Holds(c, t, w, addr) ==
  /\ t[extractSet(c, addr)][w].valid
  /\ t[extractSet(c, addr)][w].tag = extractTag(c, addr)

\* An invalid way is clean: insertBlock keeps the dirty bit of a way it need not
\* invalidate, so this is what makes the block it fills clean.
InvalidClean(c, t) ==
  \A s \in Sets(c) : \A w \in Ways(c) : ~ t[s][w].valid => ~ t[s][w].dirty

\* A hit of accessBlock touches the way that was found.
LEMMA AccessShape ==
  ASSUME NEW c \in Caches, NEW t \in TagArrays(c), NEW addr \in Nat,
         isCached(c, t, addr), NEW modify \in BOOLEAN, NEW clk \in Nat
  PROVE  \E s \in Sets(c), w \in Ways(c), b \in Blk :
           /\ s = extractSet(c, addr) /\ Holds(c, t, w, addr)
           /\ b.valid /\ b.tag = t[s][w].tag /\ b.when_touched = clk
           /\ b.dirty <=> t[s][w].dirty \/ modify
           /\ Rewritten(c, t, accessBlock(c, t, addr, modify, clk), s, w, b)
<1> DEFINE s == extractSet(c, addr)
           w == findBlock(c, t, addr)
           b == touch(t[s][w], modify, clk)
           u == [t EXCEPT ![s][w] = b]
<1>1. s \in Sets(c) /\ w \in Ways(c) /\ Holds(c, t, w, addr)
  BY FoundBlock, Slices DEF Holds
<1>2. t[s][w] \in Blk /\ t[s][w].valid
  BY <1>1 DEF TagArrays, Holds
<1>3. /\ b \in Blk /\ b.valid /\ b.tag = t[s][w].tag /\ b.when_touched = clk
      /\ b.dirty <=> t[s][w].dirty \/ modify
  BY <1>2 DEF Blk, touch
<1>4. accessBlock(c, t, addr, modify, clk) = u
  BY <1>1, <1>2 DEF accessBlock, TagArrays
<1>5. s = extractSet(c, addr)
  OBVIOUS
<1> HIDE DEF s, w, b
<1>6. Rewritten(c, t, u, s, w, b)
  BY <1>1, <1>3, UpdateWay DEF Rewritten
<1> QED BY <1>1, <1>3, <1>4, <1>5, <1>6

\* inval of a cached block invalidates the way that was found.
LEMMA InvalShape ==
  ASSUME NEW c \in Caches, NEW t \in TagArrays(c), NEW addr \in Nat,
         isCached(c, t, addr)
  PROVE  \E s \in Sets(c), w \in Ways(c), b \in Blk :
           /\ s = extractSet(c, addr) /\ Holds(c, t, w, addr)
           /\ ~ b.valid /\ ~ b.dirty
           /\ Rewritten(c, t, inval(c, t, addr), s, w, b)
<1> DEFINE s == extractSet(c, addr)
           w == findBlock(c, t, addr)
           b == invalidate(t[s][w])
           u == [t EXCEPT ![s][w] = b]
<1>1. s \in Sets(c) /\ w \in Ways(c) /\ Holds(c, t, w, addr)
  BY FoundBlock, Slices DEF Holds
<1>2. t[s][w] \in Blk
  BY <1>1 DEF TagArrays
<1>3. b \in Blk /\ ~ b.valid /\ ~ b.dirty
  BY <1>2 DEF Blk, invalidate
<1>4. inval(c, t, addr) = u
  BY <1>1, <1>2 DEF inval, TagArrays
<1>5. s = extractSet(c, addr)
  OBVIOUS
<1> HIDE DEF s, w, b
<1>6. Rewritten(c, t, u, s, w, b)
  BY <1>1, <1>3, UpdateWay DEF Rewritten
<1> QED BY <1>1, <1>3, <1>4, <1>5, <1>6

-----------------------------------------------------------------------------
\* An empty array is well formed, and nothing is cached in it.
LEMMA EmptyTagsFacts ==
  ASSUME NEW c \in Caches
  PROVE  /\ EmptyTags(c) \in TagArrays(c)
         /\ UniqueTags(c, EmptyTags(c))
         /\ CachedBlocks(c, EmptyTags(c)) = {}
  BY DEF EmptyTags, TagArrays, Blk, UniqueTags, CachedBlocks

\* accessBlock touches timestamps and dirty bits only.
LEMMA AccessFacts ==
  ASSUME NEW c \in Caches, NEW t \in TagArrays(c), UniqueTags(c, t),
         NEW addr \in Nat, NEW modify \in BOOLEAN, NEW clk \in Nat
  PROVE  LET u == accessBlock(c, t, addr, modify, clk)
         IN  /\ u \in TagArrays(c)
             /\ UniqueTags(c, u)
             /\ CachedBlocks(c, u) = CachedBlocks(c, t)
<1>1. CASE ~ isCached(c, t, addr)
  BY <1>1 DEF accessBlock
<1>2. CASE isCached(c, t, addr)
  <2> DEFINE u == accessBlock(c, t, addr, modify, clk)
  <2>1. PICK s \in Sets(c), w \in Ways(c), b \in Blk :
          /\ Holds(c, t, w, addr) /\ s = extractSet(c, addr)
          /\ b.valid /\ b.tag = t[s][w].tag
          /\ Rewritten(c, t, u, s, w, b)
    BY <1>2, AccessShape
  <2>2. /\ u \in TagArrays(c)
        /\ \A r \in Sets(c) : \A v \in Ways(c) :
             u[r][v].valid = t[r][v].valid /\ u[r][v].tag = t[r][v].tag
    BY <2>1 DEF Rewritten, Holds, TagArrays, Blk
  <2> HIDE DEF u
  <2>3. UniqueTags(c, u)
    BY <2>2 DEF UniqueTags
  <2>4. CachedBlocks(c, u) = CachedBlocks(c, t)
    BY <2>2 DEF CachedBlocks
  <2> QED BY <2>2, <2>3, <2>4 DEF u
<1> QED BY <1>1, <1>2

\* inval removes its address and nothing else.
LEMMA InvalFacts ==
  ASSUME NEW c \in Caches, NEW t \in TagArrays(c), UniqueTags(c, t), NEW addr \in Nat
  PROVE  LET u == inval(c, t, addr)
         IN  /\ u \in TagArrays(c)
             /\ UniqueTags(c, u)
             /\ CachedBlocks(c, u) = CachedBlocks(c, t) \ {addr}
<1>1. CASE ~ isCached(c, t, addr)
  BY <1>1, CachedBlock DEF inval
<1>2. CASE isCached(c, t, addr)
  <2> DEFINE u == inval(c, t, addr)
  <2>1. PICK s \in Sets(c), w \in Ways(c), b \in Blk :
          /\ s = extractSet(c, addr) /\ Holds(c, t, w, addr)
          /\ ~ b.valid /\ ~ b.dirty
          /\ Rewritten(c, t, u, s, w, b)
    BY <1>2, InvalShape
  <2> HIDE DEF u
  <2>2. t[s][w].valid /\ t[s][w].tag = extractTag(c, addr)
    BY <2>1 DEF Holds
  <2>6. /\ u \in TagArrays(c)
        /\ u[s][w] = b
        /\ \A r \in Sets(c) : \A v \in Ways(c) : r # s \/ v # w => u[r][v] = t[r][v]
    BY <2>1 DEF Rewritten
  <2>7. UniqueTags(c, u)
    BY <2>1, <2>6 DEF UniqueTags
  <2>8. ASSUME NEW x \in Nat
        PROVE  isCached(c, u, x) <=> isCached(c, t, x) /\ x # addr
    <3>1. extractSet(c, x) \in Sets(c)
      BY Slices
    <3>2. x # addr => extractSet(c, x) # s \/ extractTag(c, x) # t[s][w].tag
      BY <2>1, <2>2, Slices
    <3>3. ASSUME isCached(c, u, x)
          PROVE  isCached(c, t, x) /\ x # addr
      <4>1. PICK v \in Ways(c) : /\ u[extractSet(c, x)][v].valid
                                 /\ u[extractSet(c, x)][v].tag = extractTag(c, x)
        BY <3>3, <2>6, CachedBlock
      <4>2. extractSet(c, x) # s \/ v # w
        BY <4>1, <2>1, <2>6
      <4>3. /\ t[extractSet(c, x)][v].valid
            /\ t[extractSet(c, x)][v].tag = extractTag(c, x)
        BY <4>1, <4>2, <3>1, <2>6
      <4>4. x # addr
        BY <4>2, <4>3, <2>1, <2>2 DEF UniqueTags
      <4> QED BY <4>3, <4>4, CachedBlock
    <3>4. ASSUME isCached(c, t, x), x # addr
          PROVE  isCached(c, u, x)
      <4>1. PICK v \in Ways(c) : /\ t[extractSet(c, x)][v].valid
                                 /\ t[extractSet(c, x)][v].tag = extractTag(c, x)
        BY <3>4, CachedBlock
      <4>2. extractSet(c, x) # s \/ v # w
        BY <4>1, <3>2, <3>4
      <4>3. u[extractSet(c, x)][v] = t[extractSet(c, x)][v]
        BY <4>2, <3>1, <2>6
      <4> QED BY <4>1, <4>3, <2>6, CachedBlock
    <3> QED BY <3>3, <3>4
  <2>9. CachedBlocks(c, u) = CachedBlocks(c, t) \ {addr}
    BY <2>6, <2>8, CachedBlock
  <2> QED BY <2>6, <2>7, <2>9 DEF u
<1> QED BY <1>1, <1>2

-----------------------------------------------------------------------------
\* What insertBlock evicts: nothing, or a block that was cached in the set; a
\* write-back is asked for only if there is such a block.
LEMMA VictimFacts ==
  ASSUME NEW c \in Caches, NEW t \in TagArrays(c), NEW addr \in Nat
  PROVE  LET s == extractSet(c, addr)
             w == victimWay(c, t[s])
         IN  /\ s \in Sets(c) /\ w \in Ways(c) /\ t[s][w] \in Blk
             /\ victimBlk(c, t, addr) = t[s][w]
             /\ wb_required(c, t, addr) \in BOOLEAN
             /\ wb_required(c, t, addr) => t[s][w].valid
             /\ ~ t[s][w].valid => victim_addr(c, t, addr) = MaxAddr
             /\ t[s][w].valid => /\ victim_addr(c, t, addr) \in CachedBlocks(c, t)
                                 /\ extractSet(c, victim_addr(c, t, addr)) = s
                                 /\ extractTag(c, victim_addr(c, t, addr)) = t[s][w].tag
<1> DEFINE s == extractSet(c, addr)
           w == victimWay(c, t[s])
<1>1. s \in Sets(c)
  BY Slices
<1>2. w \in Ways(c)
  BY <1>1, VictimWay
<1>3. t[s][w] \in Blk
  BY <1>1, <1>2 DEF TagArrays
<1>4. victimBlk(c, t, addr) = t[s][w]
  BY DEF victimBlk
<1>5. t[s][w].tag \in Nat /\ t[s][w].valid \in BOOLEAN /\ t[s][w].dirty \in BOOLEAN
  BY <1>3 DEF Blk
<1>6. /\ wb_required(c, t, addr) = (t[s][w].valid /\ t[s][w].dirty)
      /\ ~ t[s][w].valid => victim_addr(c, t, addr) = MaxAddr
      /\ t[s][w].valid => victim_addr(c, t, addr) = regenerateAddr(c, t[s][w].tag, s)
  BY <1>4 DEF wb_required, victim_addr
<1>7. t[s][w].valid => /\ regenerateAddr(c, t[s][w].tag, s) \in CachedBlocks(c, t)
                       /\ extractSet(c, regenerateAddr(c, t[s][w].tag, s)) = s
                       /\ extractTag(c, regenerateAddr(c, t[s][w].tag, s)) = t[s][w].tag
  <2> HIDE DEF s, w
  <2> QED BY <1>1, <1>2, <1>5, Regenerated DEF CachedBlocks
<1> HIDE DEF s, w
<1>8. /\ wb_required(c, t, addr) \in BOOLEAN
      /\ wb_required(c, t, addr) => t[s][w].valid
  BY <1>5, <1>6
<1>9. t[s][w].valid => /\ victim_addr(c, t, addr) \in CachedBlocks(c, t)
                       /\ extractSet(c, victim_addr(c, t, addr)) = s
                       /\ extractTag(c, victim_addr(c, t, addr)) = t[s][w].tag
  BY <1>6, <1>7
<1> QED BY <1>1, <1>2, <1>3, <1>4, <1>6, <1>8, <1>9 DEF s, w

\* insertBlock fills the way of its victim; a block it had to invalidate, and any
\* that was clean, comes back clean unless the request modifies it.
LEMMA InsertShape ==
  ASSUME NEW c \in Caches, NEW t \in TagArrays(c), NEW addr \in Nat,
         NEW modify \in BOOLEAN, NEW clk \in Nat
  PROVE  \E s \in Sets(c), w \in Ways(c), b \in Blk :
           /\ s = extractSet(c, addr) /\ w = victimWay(c, t[s])
           /\ b.valid /\ b.tag = extractTag(c, addr) /\ b.when_touched = clk
           /\ t[s][w].valid \/ ~ t[s][w].dirty => (b.dirty <=> modify)
           /\ Rewritten(c, t, insertBlock(c, t, addr, modify, clk), s, w, b)
<1> DEFINE s      == extractSet(c, addr)
           w      == victimWay(c, t[s])
           freed  == IF t[s][w].valid THEN invalidate(t[s][w]) ELSE t[s][w]
           filled == [freed EXCEPT !.valid = TRUE, !.tag = extractTag(c, addr)]
           b      == touch(filled, modify, clk)
           u      == [t EXCEPT ![s][w] = b]
<1>1. s \in Sets(c) /\ w \in Ways(c) /\ t[s][w] \in Blk
  BY VictimFacts
<1>2. insertBlock(c, t, addr, modify, clk) = u
  BY DEF insertBlock
<1>3. extractTag(c, addr) \in Nat
  BY Slices
<1>4. freed \in Blk /\ (t[s][w].valid \/ ~ t[s][w].dirty => ~ freed.dirty)
  <2> HIDE DEF s, w
  <2> QED BY <1>1 DEF invalidate, Blk
<1>5. /\ filled \in Blk /\ filled.valid /\ filled.tag = extractTag(c, addr)
      /\ filled.dirty <=> freed.dirty
  <2> HIDE DEF freed
  <2> QED BY <1>3, <1>4 DEF Blk
<1>6. /\ b \in Blk /\ b.valid /\ b.tag = extractTag(c, addr) /\ b.when_touched = clk
      /\ b.dirty <=> filled.dirty \/ modify
  <2> HIDE DEF filled
  <2> QED BY <1>5 DEF touch, Blk
<1>7. s = extractSet(c, addr) /\ w = victimWay(c, t[s])
  OBVIOUS
<1> HIDE DEF s, w, freed, filled, b
<1>8. t[s][w].valid \/ ~ t[s][w].dirty => (b.dirty <=> modify)
  BY <1>4, <1>5, <1>6
<1>9. Rewritten(c, t, u, s, w, b)
  BY <1>1, <1>6, UpdateWay DEF Rewritten
<1> QED BY <1>1, <1>2, <1>6, <1>7, <1>8, <1>9

\* insertBlock of a block that is not there replaces its victim by it.
LEMMA InsertFacts ==
  ASSUME NEW c \in Caches, NEW t \in TagArrays(c), UniqueTags(c, t),
         NEW addr \in Nat, ~ isCached(c, t, addr), NEW modify \in BOOLEAN, NEW clk \in Nat
  PROVE  LET u == insertBlock(c, t, addr, modify, clk)
         IN  /\ u \in TagArrays(c)
             /\ UniqueTags(c, u)
             /\ CachedBlocks(c, u) =
                  (CachedBlocks(c, t) \ {victim_addr(c, t, addr)}) \cup {addr}
<1> DEFINE gone == victim_addr(c, t, addr)
           u    == insertBlock(c, t, addr, modify, clk)
<1>1. PICK s \in Sets(c), w \in Ways(c), b \in Blk :
        /\ s = extractSet(c, addr) /\ w = victimWay(c, t[s])
        /\ b.valid /\ b.tag = extractTag(c, addr)
        /\ Rewritten(c, t, u, s, w, b)
  BY InsertShape
<1>6. b.valid /\ b.tag = extractTag(c, addr)
  BY <1>1
<1>7. /\ ~ t[s][w].valid => gone = MaxAddr
      /\ t[s][w].valid => /\ gone \in CachedBlocks(c, t)
                          /\ extractSet(c, gone) = s
                          /\ extractTag(c, gone) = t[s][w].tag
  BY <1>1, VictimFacts
<1>8. s = extractSet(c, addr)
  BY <1>1
<1> HIDE DEF gone, u
<1>9. /\ u \in TagArrays(c)
      /\ u[s][w] = b
      /\ \A r \in Sets(c) : \A v \in Ways(c) : r # s \/ v # w => u[r][v] = t[r][v]
  BY <1>1 DEF Rewritten
<1>10. \A v \in Ways(c) : ~ (t[s][v].valid /\ t[s][v].tag = extractTag(c, addr))
  BY <1>8, CachedBlock
<1>11. UniqueTags(c, u)
  BY <1>6, <1>9, <1>10 DEF UniqueTags
<1>12. isCached(c, u, addr)
  BY <1>1, <1>6, <1>8, <1>9, CachedBlock
<1>13. ASSUME NEW x \in Nat, x # addr
       PROVE  isCached(c, u, x) <=> isCached(c, t, x) /\ x # gone
  <2>1. extractSet(c, x) \in Sets(c)
    BY Slices
  <2>2. extractSet(c, x) # s \/ extractTag(c, x) # extractTag(c, addr)
    BY <1>13, <1>8, Slices
  <2>3. ASSUME isCached(c, u, x)
        PROVE  isCached(c, t, x) /\ x # gone
    <3>1. PICK v \in Ways(c) : /\ u[extractSet(c, x)][v].valid
                               /\ u[extractSet(c, x)][v].tag = extractTag(c, x)
      BY <2>3, <1>9, CachedBlock
    <3>2. extractSet(c, x) # s \/ v # w
      BY <3>1, <2>2, <1>6, <1>9
    <3>3. /\ t[extractSet(c, x)][v].valid
          /\ t[extractSet(c, x)][v].tag = extractTag(c, x)
      BY <3>1, <3>2, <2>1, <1>9
    <3>4. x # gone
      <4>1. CASE ~ t[s][w].valid
        BY <4>1, <1>7 DEF MaxAddr
      <4>2. CASE t[s][w].valid
        BY <4>2, <1>1, <1>7, <3>2, <3>3 DEF UniqueTags
      <4> QED BY <4>1, <4>2
    <3> QED BY <3>3, <3>4, CachedBlock
  <2>4. ASSUME isCached(c, t, x), x # gone
        PROVE  isCached(c, u, x)
    <3>1. PICK v \in Ways(c) : /\ t[extractSet(c, x)][v].valid
                               /\ t[extractSet(c, x)][v].tag = extractTag(c, x)
      BY <2>4, CachedBlock
    <3>2. extractSet(c, x) # s \/ v # w
      <4>1. SUFFICES ASSUME extractSet(c, x) = s, v = w
                     PROVE  FALSE
        OBVIOUS
      <4>2. gone \in Nat /\ extractSet(c, gone) = s /\ extractTag(c, gone) = extractTag(c, x)
        BY <4>1, <3>1, <1>7, CachedBlock
      <4>3. gone = x
        BY <4>1, <4>2, Slices
      <4> QED BY <4>3, <2>4
    <3>3. u[extractSet(c, x)][v] = t[extractSet(c, x)][v]
      BY <3>2, <2>1, <1>9
    <3> QED BY <3>1, <3>3, <1>9, CachedBlock
  <2> QED BY <2>3, <2>4
<1>14. addr # gone
  BY <1>7, CachedBlock DEF MaxAddr
<1>15. CachedBlocks(c, u) = (CachedBlocks(c, t) \ {gone}) \cup {addr}
  BY <1>9, <1>12, <1>13, <1>14, CachedBlock
<1> QED BY <1>9, <1>11, <1>15 DEF gone, u

-----------------------------------------------------------------------------
\* The LRU order.  A way that takes a time ahead of every other, or loses its
\* block, leaves the order of its set strict.
LEMMA RewrittenOrder ==
  ASSUME NEW c \in Caches, NEW t \in TagArrays(c), NEW u,
         NEW s \in Sets(c), NEW w \in Ways(c), NEW b \in Blk,
         Rewritten(c, t, u, s, w, b),
         NEW old \in Nat, NEW clk \in Nat, StrictLRU(c, t, old), old <= clk,
         b.valid => b.when_touched = clk /\ old < clk
  PROVE  StrictLRU(c, u, clk)
<1> SUFFICES ASSUME NEW r \in Sets(c), NEW v \in Ways(c), NEW x \in Ways(c), u[r][v].valid
             PROVE  /\ u[r][v].when_touched <= clk
                    /\ u[r][x].valid /\ v # x => u[r][v].when_touched # u[r][x].when_touched
  BY DEF StrictLRU
<1>1. /\ u[s][w] = b
      /\ \A q \in Sets(c) : \A y \in Ways(c) : q # s \/ y # w => u[q][y] = t[q][y]
  BY DEF Rewritten
<1>2. ASSUME NEW q \in Sets(c), NEW y \in Ways(c)
      PROVE  t[q][y].when_touched \in Nat
  BY DEF TagArrays, Blk
<1>3. ASSUME NEW q \in Sets(c), NEW y \in Ways(c), t[q][y].valid
      PROVE  t[q][y].when_touched <= old
  BY <1>3 DEF StrictLRU
<1>4. CASE r = s /\ v = w
  <2>1. b.valid /\ u[r][v].when_touched = clk /\ old < clk
    BY <1>1, <1>4
  <2>2. v # x => u[r][x] = t[r][x]
    BY <1>1, <1>4
  <2> QED BY <2>1, <2>2, <1>2, <1>3
<1>5. CASE r # s \/ v # w
  <2>1. u[r][v] = t[r][v]
    BY <1>1, <1>5
  <2>2. u[r][v].when_touched <= old /\ u[r][v].when_touched \in Nat
    BY <2>1, <1>2, <1>3
  <2>3. CASE r = s /\ x = w
    <3>1. u[r][x].valid => u[r][x].when_touched = clk /\ old < clk
      BY <2>3, <1>1
    <3> QED BY <2>2, <3>1
  <2>4. CASE r # s \/ x # w
    <3>1. u[r][x] = t[r][x]
      BY <2>4, <1>1
    <3>2. u[r][x].valid /\ v # x => u[r][v].when_touched # u[r][x].when_touched
      BY <2>1, <3>1 DEF StrictLRU
    <3> QED BY <2>2, <3>2
  <2> QED BY <2>3, <2>4
<1> QED BY <1>4, <1>5

\* An array whose LRU order is strict at its clock and whose invalid ways are clean:
\* with UniqueTags, what every method keeps, given a clock that has moved on.
Ordered(c, t, clk) == StrictLRU(c, t, clk) /\ InvalidClean(c, t)

LEMMA EmptyTagsOrdered ==
  ASSUME NEW c \in Caches
  PROVE  Ordered(c, EmptyTags(c), 0) /\ DirtyBlocks(c, EmptyTags(c)) = {}
  BY EmptyTagsFacts DEF EmptyTags, Ordered, StrictLRU, InvalidClean, DirtyBlocks

LEMMA AccessOrdered ==
  ASSUME NEW c \in Caches, NEW t \in TagArrays(c), NEW old \in Nat, Ordered(c, t, old),
         NEW addr \in Nat, NEW modify \in BOOLEAN
  PROVE  isCached(c, t, addr) =>
           Ordered(c, accessBlock(c, t, addr, modify, old + 1), old + 1)
<1> DEFINE u == accessBlock(c, t, addr, modify, old + 1)
<1> SUFFICES ASSUME isCached(c, t, addr) PROVE Ordered(c, u, old + 1)
  OBVIOUS
<1>1. old + 1 \in Nat /\ old < old + 1 /\ old <= old + 1
  OBVIOUS
<1>2. PICK s \in Sets(c), w \in Ways(c), b \in Blk :
        b.valid /\ b.when_touched = old + 1 /\ Rewritten(c, t, u, s, w, b)
  BY <1>1, AccessShape
<1> HIDE DEF u
<1>3. StrictLRU(c, u, old + 1)
  BY <1>1, <1>2, RewrittenOrder DEF Ordered
<1>4. InvalidClean(c, u)
  BY <1>2 DEF Ordered, InvalidClean, Rewritten
<1> QED BY <1>3, <1>4 DEF Ordered

LEMMA InvalOrdered ==
  ASSUME NEW c \in Caches, NEW t \in TagArrays(c), NEW clk \in Nat, Ordered(c, t, clk),
         NEW addr \in Nat
  PROVE  Ordered(c, inval(c, t, addr), clk)
<1> DEFINE u == inval(c, t, addr)
<1>1. CASE ~ isCached(c, t, addr)
  BY <1>1 DEF inval
<1>2. CASE isCached(c, t, addr)
  <2>1. PICK s \in Sets(c), w \in Ways(c), b \in Blk :
          ~ b.valid /\ ~ b.dirty /\ Rewritten(c, t, u, s, w, b)
    BY <1>2, InvalShape
  <2> HIDE DEF u
  <2>2. clk <= clk
    OBVIOUS
  <2>3. StrictLRU(c, u, clk)
    BY <2>1, <2>2, RewrittenOrder DEF Ordered
  <2>4. InvalidClean(c, u)
    BY <2>1 DEF Ordered, InvalidClean, Rewritten
  <2> QED BY <2>3, <2>4 DEF Ordered, u
<1> QED BY <1>1, <1>2

LEMMA InsertOrdered ==
  ASSUME NEW c \in Caches, NEW t \in TagArrays(c), NEW old \in Nat, Ordered(c, t, old),
         NEW addr \in Nat, NEW modify \in BOOLEAN
  PROVE  Ordered(c, insertBlock(c, t, addr, modify, old + 1), old + 1)
<1> DEFINE u == insertBlock(c, t, addr, modify, old + 1)
<1>1. old + 1 \in Nat /\ old < old + 1 /\ old <= old + 1
  OBVIOUS
<1>2. PICK s \in Sets(c), w \in Ways(c), b \in Blk :
        b.valid /\ b.when_touched = old + 1 /\ Rewritten(c, t, u, s, w, b)
  BY <1>1, InsertShape
<1> HIDE DEF u
<1>3. StrictLRU(c, u, old + 1)
  BY <1>1, <1>2, RewrittenOrder DEF Ordered
<1>4. InvalidClean(c, u)
  BY <1>2 DEF Ordered, InvalidClean, Rewritten
<1> QED BY <1>3, <1>4 DEF Ordered, u

-----------------------------------------------------------------------------
\* The dirty blocks are those of the ways that are valid and dirty: with no
\* duplicates, the way findBlock returns is the one that holds the block.
LEMMA DirtyBlock ==
  ASSUME NEW c \in Caches, NEW t \in TagArrays(c), UniqueTags(c, t)
  PROVE  /\ DirtyBlocks(c, t) \subseteq CachedBlocks(c, t)
         /\ \A addr \in Nat :
              addr \in DirtyBlocks(c, t) <=>
                \E w \in Ways(c) : Holds(c, t, w, addr) /\ t[extractSet(c, addr)][w].dirty
<1>1. ASSUME NEW addr \in Nat
      PROVE  addr \in DirtyBlocks(c, t) <=>
                \E w \in Ways(c) : Holds(c, t, w, addr) /\ t[extractSet(c, addr)][w].dirty
  <2> DEFINE f == findBlock(c, t, addr)
             s == extractSet(c, addr)
  <2>1. s \in Sets(c)
    BY Slices
  <2>2. isCached(c, t, addr) => f \in Ways(c) /\ Holds(c, t, f, addr)
    BY FoundBlock DEF Holds
  <2>3. \A w \in Ways(c) : Holds(c, t, w, addr) => isCached(c, t, addr)
    BY CachedBlock DEF Holds
  <2>4. addr \in DirtyBlocks(c, t) <=> isCached(c, t, addr) /\ t[s][f].dirty
    BY CachedBlock DEF DirtyBlocks
  <2> HIDE DEF f
  <2>5. \A w \in Ways(c) : Holds(c, t, w, addr) => w = f
    BY <2>1, <2>2, <2>3 DEF Holds, UniqueTags
  <2> QED BY <2>2, <2>3, <2>4, <2>5
<1> QED BY <1>1 DEF DirtyBlocks

\* A way that holds x neither before nor after leaves x as dirty as it was.
LEMMA RewrittenDirty ==
  ASSUME NEW c \in Caches, NEW t \in TagArrays(c), UniqueTags(c, t),
         NEW u, UniqueTags(c, u), NEW s \in Sets(c), NEW w \in Ways(c), NEW b \in Blk,
         Rewritten(c, t, u, s, w, b), NEW x \in Nat,
         extractSet(c, x) = s =>
           ~ Holds(c, t, w, x) /\ ~ (b.valid /\ b.tag = extractTag(c, x))
  PROVE  x \in DirtyBlocks(c, u) <=> x \in DirtyBlocks(c, t)
<1>1. u \in TagArrays(c) /\ extractSet(c, x) \in Sets(c)
  BY Slices DEF Rewritten
<1>2. ASSUME NEW v \in Ways(c)
      PROVE  Holds(c, u, v, x) /\ u[extractSet(c, x)][v].dirty
               <=> Holds(c, t, v, x) /\ t[extractSet(c, x)][v].dirty
  <2>1. CASE extractSet(c, x) = s /\ v = w
    BY <2>1 DEF Rewritten, Holds
  <2>2. CASE extractSet(c, x) # s \/ v # w
    BY <2>2, <1>1 DEF Rewritten, Holds
  <2> QED BY <2>1, <2>2
<1> QED BY <1>1, <1>2, DirtyBlock

\* A way in which u holds x is dirty if and only if x is dirty in u.
LEMMA WayDirty ==
  ASSUME NEW c \in Caches, NEW u \in TagArrays(c), UniqueTags(c, u), NEW x \in Nat,
         NEW w \in Ways(c), Holds(c, u, w, x)
  PROVE  x \in DirtyBlocks(c, u) <=> u[extractSet(c, x)][w].dirty
<1>1. extractSet(c, x) \in Sets(c)
  BY Slices
<1>2. \A v \in Ways(c) : Holds(c, u, v, x) => v = w
  BY <1>1 DEF Holds, UniqueTags
<1> QED BY <1>2, DirtyBlock

\* A hit that modifies adds the block to the dirty ones; one that reads adds none.
LEMMA AccessDirty ==
  ASSUME NEW c \in Caches, NEW t \in TagArrays(c), UniqueTags(c, t),
         NEW addr \in Nat, isCached(c, t, addr), NEW modify \in BOOLEAN, NEW clk \in Nat
  PROVE  DirtyBlocks(c, accessBlock(c, t, addr, modify, clk)) =
           DirtyBlocks(c, t) \cup (IF modify THEN {addr} ELSE {})
<1> DEFINE u == accessBlock(c, t, addr, modify, clk)
<1>1. u \in TagArrays(c) /\ UniqueTags(c, u)
  BY AccessFacts
<1>2. PICK s \in Sets(c), w \in Ways(c), b \in Blk :
        /\ s = extractSet(c, addr) /\ Holds(c, t, w, addr)
        /\ b.valid /\ b.tag = t[s][w].tag
        /\ b.dirty <=> t[s][w].dirty \/ modify
        /\ Rewritten(c, t, u, s, w, b)
  BY AccessShape
<1> HIDE DEF u
<1>3. Holds(c, u, w, addr) /\ u[s][w] = b
  BY <1>2 DEF Holds, Rewritten
<1>4. addr \in DirtyBlocks(c, u) <=> addr \in DirtyBlocks(c, t) \/ modify
  BY <1>1, <1>2, <1>3, WayDirty
<1>5. ASSUME NEW x \in Nat, x # addr
      PROVE  x \in DirtyBlocks(c, u) <=> x \in DirtyBlocks(c, t)
  <2>1. extractSet(c, x) = s => extractTag(c, x) # extractTag(c, addr)
    BY <1>2, <1>5, Slices
  <2>2. extractSet(c, x) = s =>
           ~ Holds(c, t, w, x) /\ ~ (b.valid /\ b.tag = extractTag(c, x))
    BY <1>2, <2>1 DEF Holds
  <2> QED BY <1>1, <1>2, <2>2, RewrittenDirty
<1>6. DirtyBlocks(c, u) \subseteq Nat /\ DirtyBlocks(c, t) \subseteq Nat
  BY <1>1, DirtyBlock, CachedBlock
<1> QED BY <1>4, <1>5, <1>6 DEF u

\* inval takes its address, and nothing else, out of the dirty blocks.
LEMMA InvalDirty ==
  ASSUME NEW c \in Caches, NEW t \in TagArrays(c), UniqueTags(c, t), NEW addr \in Nat
  PROVE  DirtyBlocks(c, inval(c, t, addr)) = DirtyBlocks(c, t) \ {addr}
<1> DEFINE u == inval(c, t, addr)
<1>1. /\ u \in TagArrays(c) /\ UniqueTags(c, u)
      /\ CachedBlocks(c, u) = CachedBlocks(c, t) \ {addr}
  BY InvalFacts
<1>2. CASE ~ isCached(c, t, addr)
  <2>1. addr \notin DirtyBlocks(c, t)
    BY <1>2, DirtyBlock, CachedBlock
  <2> QED BY <1>2, <2>1 DEF inval
<1>3. CASE isCached(c, t, addr)
  <2>1. PICK s \in Sets(c), w \in Ways(c), b \in Blk :
          /\ s = extractSet(c, addr) /\ Holds(c, t, w, addr) /\ ~ b.valid
          /\ Rewritten(c, t, u, s, w, b)
    BY <1>3, InvalShape
  <2> HIDE DEF u
  <2>2. ASSUME NEW x \in Nat, x # addr
        PROVE  x \in DirtyBlocks(c, u) <=> x \in DirtyBlocks(c, t)
    <3>1. extractSet(c, x) = s => extractTag(c, x) # extractTag(c, addr)
      BY <2>1, <2>2, Slices
    <3>2. extractSet(c, x) = s => ~ Holds(c, t, w, x)
      BY <2>1, <3>1 DEF Holds
    <3> QED BY <1>1, <2>1, <3>2, RewrittenDirty
  <2>3. addr \notin DirtyBlocks(c, u)
    BY <1>1, DirtyBlock
  <2>4. DirtyBlocks(c, u) \subseteq Nat /\ DirtyBlocks(c, t) \subseteq Nat
    BY <1>1, DirtyBlock, CachedBlock
  <2>5. DirtyBlocks(c, u) = DirtyBlocks(c, t) \ {addr}
    BY <2>2, <2>3, <2>4
  <2> QED BY <2>5 DEF u
<1> QED BY <1>2, <1>3

\* A block enters dirty only if the request modifies it, whatever its way held
\* before; its victim is written back if and only if it was dirty.
LEMMA InsertDirty ==
  ASSUME NEW c \in Caches, NEW t \in TagArrays(c), UniqueTags(c, t), InvalidClean(c, t),
         NEW addr \in Nat, ~ isCached(c, t, addr), NEW modify \in BOOLEAN, NEW clk \in Nat
  PROVE  /\ DirtyBlocks(c, insertBlock(c, t, addr, modify, clk)) =
              (DirtyBlocks(c, t) \ {victim_addr(c, t, addr)})
                \cup (IF modify THEN {addr} ELSE {})
         /\ wb_required(c, t, addr) <=> victim_addr(c, t, addr) \in DirtyBlocks(c, t)
<1> DEFINE u    == insertBlock(c, t, addr, modify, clk)
           gone == victim_addr(c, t, addr)
<1>1. /\ u \in TagArrays(c) /\ UniqueTags(c, u)
      /\ CachedBlocks(c, u) = (CachedBlocks(c, t) \ {gone}) \cup {addr}
  BY InsertFacts
<1>2. PICK s \in Sets(c), w \in Ways(c), b \in Blk :
        /\ s = extractSet(c, addr) /\ w = victimWay(c, t[s])
        /\ b.valid /\ b.tag = extractTag(c, addr)
        /\ t[s][w].valid \/ ~ t[s][w].dirty => (b.dirty <=> modify)
        /\ Rewritten(c, t, u, s, w, b)
  BY InsertShape
<1>3. /\ ~ t[s][w].valid => gone = MaxAddr
      /\ t[s][w].valid => /\ gone \in CachedBlocks(c, t)
                          /\ extractSet(c, gone) = s
                          /\ extractTag(c, gone) = t[s][w].tag
      /\ victimBlk(c, t, addr) = t[s][w]
  BY <1>2, VictimFacts
<1> HIDE DEF u, gone
<1>4. wb_required(c, t, addr) <=> t[s][w].valid /\ t[s][w].dirty
  BY <1>3 DEF wb_required
<1>5. t[s][w].valid => gone \in Nat /\ Holds(c, t, w, gone)
  BY <1>3, CachedBlock DEF Holds
<1>6. ~ t[s][w].valid => gone \notin DirtyBlocks(c, t)
  BY <1>3, DirtyBlock, CachedBlock DEF MaxAddr
<1>7. wb_required(c, t, addr) <=> gone \in DirtyBlocks(c, t)
  BY <1>3, <1>4, <1>5, <1>6, WayDirty
<1>8. b.dirty <=> modify
  BY <1>2 DEF InvalidClean
<1>9. Holds(c, u, w, addr) /\ u[s][w] = b
  BY <1>2 DEF Holds, Rewritten
<1>10. addr \in DirtyBlocks(c, u) <=> modify
  BY <1>1, <1>2, <1>8, <1>9, WayDirty
<1>11. ASSUME NEW x \in Nat, x # addr, x # gone
       PROVE  x \in DirtyBlocks(c, u) <=> x \in DirtyBlocks(c, t)
  <2>1. extractSet(c, x) = s => extractTag(c, x) # extractTag(c, addr)
    BY <1>2, <1>11, Slices
  <2>2. extractSet(c, x) = s => ~ Holds(c, t, w, x)
    BY <1>3, <1>5, <1>11, Slices DEF Holds
  <2> QED BY <1>1, <1>2, <2>1, <2>2, RewrittenDirty
<1>12. /\ gone # addr => gone \notin DirtyBlocks(c, u)
       /\ addr \notin DirtyBlocks(c, t)
  BY <1>1, DirtyBlock, CachedBlock
<1>13. DirtyBlocks(c, u) \subseteq Nat /\ DirtyBlocks(c, t) \subseteq Nat
  BY <1>1, DirtyBlock, CachedBlock
<1>14. DirtyBlocks(c, u) = (DirtyBlocks(c, t) \ {gone}) \cup (IF modify THEN {addr} ELSE {})
  BY <1>10, <1>11, <1>12, <1>13
<1> QED BY <1>7, <1>14 DEF u, gone
=============================================================================
