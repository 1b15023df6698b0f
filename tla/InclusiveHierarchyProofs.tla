----------------------- MODULE InclusiveHierarchyProofs -----------------------
(***************************************************************************)
(* Theorems about InclusiveHierarchy for every geometry and every set of   *)
(* blocks.  A request is a chain of calls on an intermediate hierarchy h,  *)
(* so the invariants are stated on such an h first.  Sound(h, M, C) is     *)
(* what every call of send keeps; the relations between the counters of    *)
(* two caches hold only between requests, and each call is described by    *)
(* what it adds to them.                                                   *)
(***************************************************************************)
EXTENDS InclusiveHierarchy, SetAssocTagsProofs

WellFormed(h) ==
  /\ h = [tags |-> h.tags, accesses |-> h.accesses, stats |-> h.stats]
  /\ h.tags = [c \in Caches |-> h.tags[c]]
  /\ \A c \in Caches : h.tags[c] \in TagArrays(c)
  /\ h.accesses \in [Caches -> Nat]
  /\ h.stats \in [Caches -> [Counters -> Nat]]

\* M holds the blocks that may be dirty, C those that may be cached.
Sound(h, M, C) ==
  /\ WellFormed(h)
  /\ \A c \in Caches : UniqueTags(c, h.tags[c])
  /\ \A c \in L1s : CachedBlocks(c, h.tags[c]) \subseteq CachedBlocks("L2", h.tags["L2"])
  /\ \A c \in Caches : Ordered(c, h.tags[c], h.accesses[c])
  /\ \A c \in Caches : DirtyBlocks(c, h.tags[c]) \subseteq M
  /\ CachedBlocks("L2", h.tags["L2"]) \subseteq C

\* Every request of a cache is a hit or a miss, and every miss is a load.
Balanced(h) ==
  \A c \in Caches :
    /\ h.stats[c].num_hits + h.stats[c].num_misses = h.accesses[c]
    /\ h.stats[c].num_misses = h.stats[c].num_data_loads + h.stats[c].num_instr_loads

\* From h to g, L2 has loaded what entered it, and written back what left it dirty.
OffChip(h, g) ==
  /\ Cardinality(CachedBlocks("L2", g.tags["L2"]) \ CachedBlocks("L2", h.tags["L2"]))
       = g.stats["L2"].num_data_loads + g.stats["L2"].num_instr_loads
         - h.stats["L2"].num_data_loads - h.stats["L2"].num_instr_loads
  /\ Cardinality(DirtyBlocks("L2", h.tags["L2"]) \ CachedBlocks("L2", g.tags["L2"]))
       = g.stats["L2"].num_evicts - h.stats["L2"].num_evicts

Types == {"READ", "WRITE", "WRITE_BACK"}

Now == [tags |-> tags, accesses |-> accesses, stats |-> stats]

One(condition) == IF condition THEN 1 ELSE 0

-----------------------------------------------------------------------------
\* Bump adds one to each counter that moved.
LEMMA BumpFacts ==
  ASSUME NEW counters \in [Counters -> Nat], NEW moved
  PROVE  /\ Bump(counters, moved) \in [Counters -> Nat]
         /\ \A k \in Counters : Bump(counters, moved)[k] = counters[k] + One(k \in moved)
  BY DEF Bump, One

\* Which counters a call moves.
LEMMA TallyFacts ==
  ASSUME NEW type \in Types, NEW hit \in BOOLEAN, NEW instr \in BOOLEAN, NEW wb \in BOOLEAN
  PROVE  LET T == Tally(type, hit, instr, wb)
         IN  /\ "read_accesses" \in T <=> type = "READ"
             /\ "write_accesses" \in T <=> type # "READ"
             /\ "num_hits" \in T <=> hit
             /\ "num_misses" \in T <=> ~ hit
             /\ "num_instr_loads" \in T <=> ~ hit /\ type # "WRITE_BACK" /\ instr
             /\ "num_data_loads" \in T <=> ~ hit /\ type # "WRITE_BACK" /\ ~ instr
             /\ "num_evicts" \in T <=> ~ hit /\ wb
  BY DEF Tally, Types

\* What Update leaves in the hierarchy.
LEMMA UpdateFacts ==
  ASSUME NEW h, WellFormed(h), NEW c \in Caches, NEW t \in TagArrays(c), NEW clk \in Nat,
         NEW moved
  PROVE  LET g == Update(h, c, t, clk, moved)
         IN  /\ WellFormed(g)
             /\ g.tags[c] = t
             /\ g.accesses[c] = clk
             /\ \A k \in Counters : g.stats[c][k] = h.stats[c][k] + One(k \in moved)
             /\ \A d \in Caches \ {c} : /\ g.tags[d] = h.tags[d]
                                        /\ g.accesses[d] = h.accesses[d]
                                        /\ g.stats[d] = h.stats[d]
<1> DEFINE g == Update(h, c, t, clk, moved)
<1>1. /\ h.tags = [d \in Caches |-> h.tags[d]]
      /\ \A d \in Caches : h.tags[d] \in TagArrays(d)
      /\ h.accesses \in [Caches -> Nat]
      /\ h.stats \in [Caches -> [Counters -> Nat]]
  BY DEF WellFormed
<1>2. /\ Bump(h.stats[c], moved) \in [Counters -> Nat]
      /\ \A k \in Counters : Bump(h.stats[c], moved)[k] = h.stats[c][k] + One(k \in moved)
  BY <1>1, BumpFacts
<1>3. /\ g = [tags |-> g.tags, accesses |-> g.accesses, stats |-> g.stats]
      /\ g.tags = [h.tags EXCEPT ![c] = t]
      /\ g.accesses = [h.accesses EXCEPT ![c] = clk]
      /\ g.stats = [h.stats EXCEPT ![c] = Bump(h.stats[c], moved)]
  BY DEF Update
<1> HIDE DEF g
<1>4. /\ g.tags = [d \in Caches |-> g.tags[d]]
      /\ g.tags[c] = t
      /\ \A d \in Caches \ {c} : g.tags[d] = h.tags[d]
  BY <1>1, <1>3
<1>5. /\ g.accesses \in [Caches -> Nat] /\ g.stats \in [Caches -> [Counters -> Nat]]
      /\ g.accesses[c] = clk /\ g.stats[c] = Bump(h.stats[c], moved)
      /\ \A d \in Caches \ {c} : g.accesses[d] = h.accesses[d] /\ g.stats[d] = h.stats[d]
  BY <1>1, <1>2, <1>3
<1>6. WellFormed(g)
  BY <1>1, <1>3, <1>4, <1>5 DEF WellFormed
<1> QED BY <1>2, <1>4, <1>5, <1>6 DEF g

\* A back-invalidation takes the victim, and nothing else, out of the first levels.
LEMMA BackInvalFacts ==
  ASSUME NEW M, NEW C, NEW h, Sound(h, M, C), NEW victim \in Nat \cup {MaxAddr}
  PROVE  LET g == BackInval(h, victim)
         IN  /\ WellFormed(g)
             /\ g.tags["L2"] = h.tags["L2"]
             /\ g.accesses = h.accesses /\ g.stats = h.stats
             /\ \A c \in L1s :
                  /\ UniqueTags(c, g.tags[c])
                  /\ CachedBlocks(c, g.tags[c]) = CachedBlocks(c, h.tags[c]) \ {victim}
                  /\ Ordered(c, g.tags[c], h.accesses[c])
                  /\ DirtyBlocks(c, g.tags[c]) \subseteq M
<1> DEFINE g == BackInval(h, victim)
<1>1. "L2" \in Caches /\ L1s \subseteq Caches /\ "L2" \notin L1s
  BY HierarchyAssumption DEF L1s
<1>2. /\ \A c \in Caches : /\ h.tags[c] \in TagArrays(c) /\ UniqueTags(c, h.tags[c])
                           /\ Ordered(c, h.tags[c], h.accesses[c])
                           /\ DirtyBlocks(c, h.tags[c]) \subseteq M
      /\ h.accesses \in [Caches -> Nat]
      /\ h.stats \in [Caches -> [Counters -> Nat]]
  BY DEF Sound, WellFormed
<1>3. /\ g = [tags |-> g.tags, accesses |-> g.accesses, stats |-> g.stats]
      /\ g.tags = [c \in Caches |-> IF c \in L1s /\ victim # MaxAddr
                                    THEN inval(c, h.tags[c], victim) ELSE h.tags[c]]
      /\ g.accesses = h.accesses /\ g.stats = h.stats
  BY DEF BackInval
<1> HIDE DEF g
<1>4. ASSUME NEW c \in L1s
      PROVE  /\ g.tags[c] \in TagArrays(c) /\ UniqueTags(c, g.tags[c])
             /\ CachedBlocks(c, g.tags[c]) = CachedBlocks(c, h.tags[c]) \ {victim}
             /\ Ordered(c, g.tags[c], h.accesses[c])
             /\ DirtyBlocks(c, g.tags[c]) \subseteq M
  <2>1. /\ c \in Caches /\ h.tags[c] \in TagArrays(c) /\ UniqueTags(c, h.tags[c])
        /\ h.accesses[c] \in Nat /\ Ordered(c, h.tags[c], h.accesses[c])
        /\ DirtyBlocks(c, h.tags[c]) \subseteq M
    BY <1>1, <1>2
  <2>2. CASE victim # MaxAddr
    <3>1. victim \in Nat /\ g.tags[c] = inval(c, h.tags[c], victim)
      BY <1>3, <2>1, <2>2
    <3>2. DirtyBlocks(c, g.tags[c]) = DirtyBlocks(c, h.tags[c]) \ {victim}
      BY <2>1, <3>1, InvalDirty
    <3>3. Ordered(c, g.tags[c], h.accesses[c])
      BY <2>1, <3>1, InvalOrdered
    <3> QED BY <2>1, <3>1, <3>2, <3>3, InvalFacts
  <2>3. CASE victim = MaxAddr
    BY <1>3, <2>1, <2>3, CachedBlock DEF MaxAddr
  <2> QED BY <2>2, <2>3
<1>5. \A c \in Caches \ L1s : g.tags[c] = h.tags[c]
  BY <1>3
<1>6. g.tags = [c \in Caches |-> g.tags[c]]
  BY <1>3
<1>7. WellFormed(g)
  BY <1>2, <1>3, <1>4, <1>5, <1>6 DEF WellFormed
<1> QED BY <1>1, <1>3, <1>4, <1>5, <1>7 DEF g

\* A call that moves the counters of Tally keeps the balance of its cache, unless it
\* is a write-back that misses.
LEMMA UpdateBalanced ==
  ASSUME NEW h, WellFormed(h), NEW c \in Caches, NEW t \in TagArrays(c),
         NEW type \in Types, NEW hit \in BOOLEAN, NEW instr \in BOOLEAN, NEW wb \in BOOLEAN,
         Balanced(h), hit \/ type # "WRITE_BACK"
  PROVE  Balanced(Update(h, c, t, h.accesses[c] + 1, Tally(type, hit, instr, wb)))
<1> DEFINE clk   == h.accesses[c] + 1
           tally == Tally(type, hit, instr, wb)
           g     == Update(h, c, t, clk, tally)
<1>1. clk \in Nat
  BY DEF WellFormed
<1>2. /\ h.stats[c] \in [Counters -> Nat] /\ h.accesses[c] \in Nat
  BY DEF WellFormed
<1>3. /\ "num_hits" \in tally <=> hit
      /\ "num_misses" \in tally <=> ~ hit
      /\ "num_instr_loads" \in tally <=> ~ hit /\ instr
      /\ "num_data_loads" \in tally <=> ~ hit /\ ~ instr
  BY TallyFacts
<1> HIDE DEF tally
<1>4. /\ g.accesses[c] = clk
      /\ \A k \in Counters : g.stats[c][k] = h.stats[c][k] + One(k \in tally)
      /\ \A d \in Caches \ {c} : g.accesses[d] = h.accesses[d] /\ g.stats[d] = h.stats[d]
  BY <1>1, UpdateFacts
<1> HIDE DEF g
<1>5. /\ g.stats[c].num_hits = h.stats[c].num_hits + One(hit)
      /\ g.stats[c].num_misses = h.stats[c].num_misses + One(~ hit)
      /\ g.stats[c].num_instr_loads = h.stats[c].num_instr_loads + One(~ hit /\ instr)
      /\ g.stats[c].num_data_loads = h.stats[c].num_data_loads + One(~ hit /\ ~ instr)
  BY <1>3, <1>4 DEF Counters, One
<1>6. /\ h.stats[c].num_hits \in Nat /\ h.stats[c].num_misses \in Nat
      /\ h.stats[c].num_instr_loads \in Nat /\ h.stats[c].num_data_loads \in Nat
  BY <1>2 DEF Counters
<1>7. /\ h.stats[c].num_hits + h.stats[c].num_misses = h.accesses[c]
      /\ h.stats[c].num_misses = h.stats[c].num_data_loads + h.stats[c].num_instr_loads
  BY DEF Balanced
<1>8. /\ g.stats[c].num_hits + g.stats[c].num_misses = g.accesses[c]
      /\ g.stats[c].num_misses = g.stats[c].num_data_loads + g.stats[c].num_instr_loads
  BY <1>2, <1>4, <1>5, <1>6, <1>7 DEF One
<1> QED BY <1>4, <1>8 DEF Balanced, g, tally

\* A send to the last level keeps the hierarchy sound and leaves addr there.  The
\* first levels only lose blocks, and their clocks and counters stand still.
LEMMA SendLLCSound ==
  ASSUME NEW M, NEW C, NEW h, Sound(h, M, C), NEW addr \in Nat, NEW type \in Types, NEW instr,
         type = "READ" \/ addr \in M, addr \in C
  PROVE  LET g == sendLLC(h, addr, type, instr)
         IN  /\ Sound(g, M, C)
             /\ addr \in CachedBlocks("L2", g.tags["L2"])
             /\ \A c \in L1s :
                  /\ CachedBlocks(c, g.tags[c]) \subseteq CachedBlocks(c, h.tags[c])
                  /\ g.accesses[c] = h.accesses[c] /\ g.stats[c] = h.stats[c]
<1> DEFINE t      == h.tags["L2"]
           old    == h.accesses["L2"]
           modify == type # "READ"
           hit    == isCached("L2", t, addr)
           victim == victim_addr("L2", t, addr)
           filled == insertBlock("L2", t, addr, modify, old + 1)
           tally  == Tally(type, hit, instr, wb_required("L2", t, addr))
           g      == sendLLC(h, addr, type, instr)
<1>1. /\ "L2" \in Caches /\ L1s \subseteq Caches /\ "L2" \notin L1s
      /\ \A c \in Caches : c = "L2" \/ c \in L1s
  BY HierarchyAssumption DEF L1s
<1>2. /\ WellFormed(h) /\ t \in TagArrays("L2") /\ UniqueTags("L2", t)
      /\ old \in Nat /\ Ordered("L2", t, old) /\ DirtyBlocks("L2", t) \subseteq M
      /\ CachedBlocks("L2", t) \subseteq C
  BY <1>1 DEF Sound, WellFormed
<1>3. old + 1 \in Nat
  BY <1>2
<1>4. modify \in BOOLEAN /\ (modify => addr \in M)
  BY Zenon
<1>5. CASE hit
  <2> DEFINE u == accessBlock("L2", t, addr, modify, old + 1)
  <2>1. g = Update(h, "L2", u, old + 1, tally)
    BY <1>5 DEF sendLLC
  <2>2. addr \in CachedBlocks("L2", t)
    BY <1>1, <1>2, <1>5, CachedBlock
  <2> HIDE DEF t, old, modify, tally
  <2>3. /\ u \in TagArrays("L2") /\ UniqueTags("L2", u)
        /\ CachedBlocks("L2", u) = CachedBlocks("L2", t)
    BY <1>1, <1>2, <1>3, <1>4, AccessFacts
  <2>4. Ordered("L2", u, old + 1)
    BY <1>1, <1>2, <1>4, <1>5, AccessOrdered
  <2>5. DirtyBlocks("L2", u) \subseteq M
    BY <1>1, <1>2, <1>3, <1>4, <1>5, AccessDirty
  <2> HIDE DEF u, g
  <2>6. /\ WellFormed(g) /\ g.tags["L2"] = u /\ g.accesses["L2"] = old + 1
        /\ \A c \in L1s : /\ g.tags[c] = h.tags[c] /\ g.accesses[c] = h.accesses[c]
                          /\ g.stats[c] = h.stats[c]
    BY <1>1, <1>2, <1>3, <2>1, <2>3, UpdateFacts
  <2>7. Sound(g, M, C)
    BY <1>1, <1>2, <2>3, <2>4, <2>5, <2>6 DEF Sound, t
  <2> QED BY <2>2, <2>3, <2>6, <2>7 DEF g
<1>6. CASE ~ hit
  <2> DEFINE b == BackInval(h, victim)
  <2>1. g = Update(b, "L2", filled, old + 1, tally)
    BY <1>6 DEF sendLLC
  <2>2. /\ filled \in TagArrays("L2") /\ UniqueTags("L2", filled)
        /\ CachedBlocks("L2", filled) = (CachedBlocks("L2", t) \ {victim}) \cup {addr}
    <3> HIDE DEF t, old, modify
    <3> QED BY <1>1, <1>2, <1>3, <1>4, <1>6, InsertFacts
  <2>3. Ordered("L2", filled, old + 1)
    <3> HIDE DEF t, old, modify
    <3> QED BY <1>1, <1>2, <1>4, InsertOrdered
  <2>4. DirtyBlocks("L2", filled) \subseteq M
    <3> HIDE DEF t, old, modify
    <3>1. DirtyBlocks("L2", filled) =
            (DirtyBlocks("L2", t) \ {victim}) \cup (IF modify THEN {addr} ELSE {})
      BY <1>1, <1>2, <1>3, <1>4, <1>6, InsertDirty DEF Ordered
    <3> QED BY <3>1, <1>2, <1>4
  <2>5. victim \in Nat \cup {MaxAddr}
    <3> HIDE DEF t
    <3>1. victim = MaxAddr \/ victim \in CachedBlocks("L2", t)
      BY <1>1, <1>2, VictimFacts
    <3> QED BY <3>1, <1>1, <1>2, CachedBlock
  <2> HIDE DEF g, filled, victim, old, tally
  <2>6. /\ WellFormed(b)
        /\ b.accesses = h.accesses /\ b.stats = h.stats
        /\ \A c \in L1s :
             /\ UniqueTags(c, b.tags[c])
             /\ CachedBlocks(c, b.tags[c]) = CachedBlocks(c, h.tags[c]) \ {victim}
             /\ Ordered(c, b.tags[c], h.accesses[c])
             /\ DirtyBlocks(c, b.tags[c]) \subseteq M
    BY <2>5, BackInvalFacts
  <2> HIDE DEF b
  <2>7. /\ WellFormed(g) /\ g.tags["L2"] = filled /\ g.accesses["L2"] = old + 1
        /\ \A c \in L1s : /\ g.tags[c] = b.tags[c] /\ g.accesses[c] = b.accesses[c]
                          /\ g.stats[c] = b.stats[c]
    BY <1>1, <1>3, <2>1, <2>2, <2>6, UpdateFacts
  <2>8. \A c \in L1s : CachedBlocks(c, g.tags[c]) \subseteq CachedBlocks("L2", filled)
    BY <2>2, <2>6, <2>7 DEF Sound
  <2>9. \A c \in L1s : /\ UniqueTags(c, g.tags[c])
                       /\ Ordered(c, g.tags[c], g.accesses[c])
                       /\ DirtyBlocks(c, g.tags[c]) \subseteq M
    BY <2>6, <2>7
  <2>10. Sound(g, M, C)
    BY <1>1, <1>2, <2>2, <2>3, <2>4, <2>7, <2>8, <2>9 DEF Sound
  <2>11. \A c \in L1s :
           /\ CachedBlocks(c, g.tags[c]) \subseteq CachedBlocks(c, h.tags[c])
           /\ g.accesses[c] = h.accesses[c] /\ g.stats[c] = h.stats[c]
    BY <2>6, <2>7
  <2> QED BY <2>2, <2>7, <2>10, <2>11 DEF g
<1> QED BY <1>5, <1>6

\* What a send to the last level adds to the counters, where a write-back finds its
\* block: one request, and for a miss one load and at most one eviction.
LEMMA SendLLCTraffic ==
  ASSUME NEW M, NEW C, NEW h, Sound(h, M, C), Balanced(h), NEW addr \in Nat, NEW type \in Types,
         NEW instr \in BOOLEAN, type = "WRITE_BACK" => addr \in CachedBlocks("L2", h.tags["L2"])
  PROVE  LET g == sendLLC(h, addr, type, instr)
         IN  /\ Balanced(g)
             /\ g.stats["L2"].read_accesses
                  = h.stats["L2"].read_accesses + One(type = "READ")
             /\ g.stats["L2"].write_accesses
                  = h.stats["L2"].write_accesses + One(type # "READ")
             /\ OffChip(h, g)
             /\ addr \in CachedBlocks("L2", h.tags["L2"]) =>
                  /\ CachedBlocks("L2", g.tags["L2"]) = CachedBlocks("L2", h.tags["L2"])
                  /\ g.stats["L2"].num_data_loads = h.stats["L2"].num_data_loads
                  /\ g.stats["L2"].num_instr_loads = h.stats["L2"].num_instr_loads
                  /\ g.stats["L2"].num_evicts = h.stats["L2"].num_evicts
<1> DEFINE t      == h.tags["L2"]
           old    == h.accesses["L2"]
           modify == type # "READ"
           hit    == isCached("L2", t, addr)
           victim == victim_addr("L2", t, addr)
           wb     == wb_required("L2", t, addr)
           tally  == Tally(type, hit, instr, wb)
           g      == sendLLC(h, addr, type, instr)
<1>1. "L2" \in Caches
  BY HierarchyAssumption
<1>2. /\ WellFormed(h) /\ t \in TagArrays("L2") /\ UniqueTags("L2", t)
      /\ old \in Nat /\ Ordered("L2", t, old)
      /\ h.stats["L2"] \in [Counters -> Nat]
  BY <1>1 DEF Sound, WellFormed
<1>3. old + 1 \in Nat
  BY <1>2
<1>4. modify \in BOOLEAN /\ hit \in BOOLEAN
  BY Zenon DEF isCached
<1>5. wb \in BOOLEAN
  BY <1>1, <1>2, VictimFacts
<1>6. hit <=> addr \in CachedBlocks("L2", t)
  BY <1>1, <1>2, CachedBlock
<1>7. hit \/ type # "WRITE_BACK"
  BY <1>6
<1>8. /\ "read_accesses" \in tally <=> type = "READ"
      /\ "write_accesses" \in tally <=> type # "READ"
      /\ "num_instr_loads" \in tally <=> ~ hit /\ instr
      /\ "num_data_loads" \in tally <=> ~ hit /\ ~ instr
      /\ "num_evicts" \in tally <=> ~ hit /\ wb
  BY <1>4, <1>5, <1>7, TallyFacts
<1>9. /\ h.stats["L2"].num_instr_loads \in Nat /\ h.stats["L2"].num_data_loads \in Nat
      /\ h.stats["L2"].num_evicts \in Nat /\ h.stats["L2"].read_accesses \in Nat
      /\ h.stats["L2"].write_accesses \in Nat
  BY <1>2 DEF Counters
<1>10. ASSUME NEW b, WellFormed(b), Balanced(b), NEW u \in TagArrays("L2"),
              b.accesses = h.accesses, b.stats = h.stats, g = Update(b, "L2", u, old + 1, tally)
       PROVE  /\ Balanced(g) /\ g.tags["L2"] = u
              /\ g.stats["L2"].read_accesses
                   = h.stats["L2"].read_accesses + One(type = "READ")
              /\ g.stats["L2"].write_accesses
                   = h.stats["L2"].write_accesses + One(type # "READ")
              /\ g.stats["L2"].num_instr_loads
                   = h.stats["L2"].num_instr_loads + One(~ hit /\ instr)
              /\ g.stats["L2"].num_data_loads
                   = h.stats["L2"].num_data_loads + One(~ hit /\ ~ instr)
              /\ g.stats["L2"].num_evicts = h.stats["L2"].num_evicts + One(~ hit /\ wb)
  <2> HIDE DEF g, hit, wb
  <2>1. Balanced(g)
    BY <1>1, <1>4, <1>5, <1>7, <1>10, UpdateBalanced
  <2> HIDE DEF tally, old
  <2>2. /\ g.tags["L2"] = u
        /\ \A k \in Counters : g.stats["L2"][k] = b.stats["L2"][k] + One(k \in tally)
    BY <1>1, <1>3, <1>10, UpdateFacts
  <2>3. \A k \in Counters : g.stats["L2"][k] = h.stats["L2"][k] + One(k \in tally)
    BY <2>2, <1>10
  <2> QED BY <2>1, <2>2, <2>3, <1>8 DEF Counters, One
<1>11. CASE hit
  <2> DEFINE u == accessBlock("L2", t, addr, modify, old + 1)
  <2>1. g = Update(h, "L2", u, old + 1, tally)
    BY <1>11 DEF sendLLC
  <2> HIDE DEF g, tally
  <2>2. u \in TagArrays("L2") /\ CachedBlocks("L2", u) = CachedBlocks("L2", t)
    <3> HIDE DEF t, old, modify
    <3> QED BY <1>1, <1>2, <1>3, <1>4, AccessFacts
  <2> HIDE DEF u, hit
  <2>3. /\ Balanced(g) /\ g.tags["L2"] = u
        /\ g.stats["L2"].read_accesses = h.stats["L2"].read_accesses + One(type = "READ")
        /\ g.stats["L2"].write_accesses = h.stats["L2"].write_accesses + One(type # "READ")
        /\ g.stats["L2"].num_instr_loads = h.stats["L2"].num_instr_loads
        /\ g.stats["L2"].num_data_loads = h.stats["L2"].num_data_loads
        /\ g.stats["L2"].num_evicts = h.stats["L2"].num_evicts
    BY <1>2, <1>9, <1>10, <1>11, <2>1, <2>2 DEF One
  <2>4. /\ CachedBlocks("L2", g.tags["L2"]) \ CachedBlocks("L2", t) = {}
        /\ DirtyBlocks("L2", t) \ CachedBlocks("L2", g.tags["L2"]) = {}
    BY <1>1, <1>2, <2>2, <2>3, DirtyBlock
  <2>5. /\ Cardinality(CachedBlocks("L2", g.tags["L2"]) \ CachedBlocks("L2", t)) = 0
        /\ Cardinality(DirtyBlocks("L2", t) \ CachedBlocks("L2", g.tags["L2"])) = 0
    BY <2>4, FS_EmptySet
  <2>6. /\ g.stats["L2"].num_data_loads + g.stats["L2"].num_instr_loads
             - h.stats["L2"].num_data_loads - h.stats["L2"].num_instr_loads = 0
        /\ g.stats["L2"].num_evicts - h.stats["L2"].num_evicts = 0
    BY <1>9, <2>3
  <2>7. OffChip(h, g)
    BY <2>5, <2>6 DEF OffChip
  <2> QED BY <2>2, <2>3, <2>7 DEF g
<1>12. CASE ~ hit
  <2> DEFINE b      == BackInval(h, victim)
             filled == insertBlock("L2", t, addr, modify, old + 1)
  <2>1. g = Update(b, "L2", filled, old + 1, tally)
    BY <1>12 DEF sendLLC
  <2> HIDE DEF g, tally
  <2>2. /\ filled \in TagArrays("L2")
        /\ CachedBlocks("L2", filled) = (CachedBlocks("L2", t) \ {victim}) \cup {addr}
    <3> HIDE DEF t, old, modify
    <3> QED BY <1>1, <1>2, <1>3, <1>4, <1>12, InsertFacts
  <2>3. wb <=> victim \in DirtyBlocks("L2", t)
    <3> HIDE DEF t, old, modify
    <3> QED BY <1>1, <1>2, <1>3, <1>4, <1>12, InsertDirty DEF Ordered
  <2>4. victim \in Nat \cup {MaxAddr}
    <3> HIDE DEF t
    <3>1. victim = MaxAddr \/ victim \in CachedBlocks("L2", t)
      BY <1>1, <1>2, VictimFacts
    <3> QED BY <3>1, <1>1, <1>2, CachedBlock
  <2> HIDE DEF filled, victim
  <2>5. WellFormed(b) /\ b.accesses = h.accesses /\ b.stats = h.stats
    BY <2>4, BackInvalFacts
  <2> HIDE DEF b
  <2>6. Balanced(b)
    BY <2>5 DEF Balanced
  <2> HIDE DEF hit, wb
  <2>7. /\ Balanced(g) /\ g.tags["L2"] = filled
        /\ g.stats["L2"].read_accesses = h.stats["L2"].read_accesses + One(type = "READ")
        /\ g.stats["L2"].write_accesses = h.stats["L2"].write_accesses + One(type # "READ")
        /\ g.stats["L2"].num_instr_loads = h.stats["L2"].num_instr_loads + One(instr)
        /\ g.stats["L2"].num_data_loads = h.stats["L2"].num_data_loads + One(~ instr)
        /\ g.stats["L2"].num_evicts = h.stats["L2"].num_evicts + One(wb)
    BY <1>9, <1>10, <1>12, <2>1, <2>2, <2>5, <2>6 DEF One
  <2>8. CachedBlocks("L2", g.tags["L2"]) \ CachedBlocks("L2", t) = {addr}
    BY <1>6, <1>12, <2>2, <2>7
  <2>9. DirtyBlocks("L2", t) \ CachedBlocks("L2", g.tags["L2"]) = IF wb THEN {victim} ELSE {}
    <3>1. DirtyBlocks("L2", t) \subseteq CachedBlocks("L2", t)
      BY <1>1, <1>2, DirtyBlock
    <3> QED BY <1>6, <1>12, <2>2, <2>3, <2>7, <3>1
  <2>10. /\ Cardinality({addr}) = 1 /\ Cardinality({victim}) = 1 /\ Cardinality({}) = 0
    BY FS_Singleton, FS_EmptySet
  <2>11. Cardinality(DirtyBlocks("L2", t) \ CachedBlocks("L2", g.tags["L2"])) = One(wb)
    BY <2>9, <2>10 DEF One
  <2>12. Cardinality(CachedBlocks("L2", g.tags["L2"]) \ CachedBlocks("L2", t)) = 1
    BY <2>8, <2>10
  <2>13. /\ g.stats["L2"].num_data_loads + g.stats["L2"].num_instr_loads
              - h.stats["L2"].num_data_loads - h.stats["L2"].num_instr_loads = 1
         /\ g.stats["L2"].num_evicts - h.stats["L2"].num_evicts = One(wb)
    BY <1>9, <2>7 DEF One
  <2>14. OffChip(h, g)
    BY <2>11, <2>12, <2>13 DEF OffChip
  <2> QED BY <1>6, <1>12, <2>7, <2>14 DEF g
<1> QED BY <1>11, <1>12

-----------------------------------------------------------------------------
\* What connects the counters of the levels between two requests.
Linked(h) ==
  /\ h.stats["L2"].read_accesses = h.stats["L1I"].num_misses + h.stats["L1D"].num_misses
  /\ h.stats["L2"].write_accesses = h.stats["L1I"].num_evicts + h.stats["L1D"].num_evicts

\* If L2 is left alone, nothing crosses the chip's border.
LEMMA OffChipSame ==
  ASSUME NEW M, NEW C, NEW h, Sound(h, M, C), NEW g,
         g.tags["L2"] = h.tags["L2"], g.stats["L2"] = h.stats["L2"]
  PROVE  OffChip(h, g)
<1>1. "L2" \in Caches
  BY HierarchyAssumption
<1>2. /\ h.tags["L2"] \in TagArrays("L2") /\ UniqueTags("L2", h.tags["L2"])
      /\ h.stats["L2"] \in [Counters -> Nat]
  BY <1>1 DEF Sound, WellFormed
<1>3. /\ CachedBlocks("L2", g.tags["L2"]) \ CachedBlocks("L2", h.tags["L2"]) = {}
      /\ DirtyBlocks("L2", h.tags["L2"]) \ CachedBlocks("L2", g.tags["L2"]) = {}
  BY <1>1, <1>2, DirtyBlock
<1>4. /\ Cardinality(CachedBlocks("L2", g.tags["L2"]) \ CachedBlocks("L2", h.tags["L2"])) = 0
      /\ Cardinality(DirtyBlocks("L2", h.tags["L2"]) \ CachedBlocks("L2", g.tags["L2"])) = 0
  BY <1>3, FS_EmptySet
<1>5. /\ g.stats["L2"].num_data_loads + g.stats["L2"].num_instr_loads
           - h.stats["L2"].num_data_loads - h.stats["L2"].num_instr_loads = 0
      /\ g.stats["L2"].num_evicts - h.stats["L2"].num_evicts = 0
  BY <1>2 DEF Counters
<1> QED BY <1>4, <1>5 DEF OffChip

\* Replacing the array of a first level keeps the hierarchy sound as long as L2
\* holds what the new array holds.
LEMMA UpdateL1Sound ==
  ASSUME NEW M, NEW C, NEW h, Sound(h, M, C), NEW c \in L1s, NEW t \in TagArrays(c), UniqueTags(c, t),
         CachedBlocks(c, t) \subseteq CachedBlocks("L2", h.tags["L2"]),
         NEW clk \in Nat, Ordered(c, t, clk), DirtyBlocks(c, t) \subseteq M, NEW moved
  PROVE  LET g == Update(h, c, t, clk, moved)
         IN  Sound(g, M, C) /\ g.tags["L2"] = h.tags["L2"] /\ g.stats["L2"] = h.stats["L2"]
<1> DEFINE g == Update(h, c, t, clk, moved)
<1>1. c \in Caches /\ "L2" \in Caches \ {c} /\ L1s \subseteq Caches
  BY HierarchyAssumption DEF L1s
<1>2. /\ WellFormed(g) /\ g.tags[c] = t /\ g.accesses[c] = clk
      /\ \A d \in Caches \ {c} : /\ g.tags[d] = h.tags[d] /\ g.accesses[d] = h.accesses[d]
                                 /\ g.stats[d] = h.stats[d]
  BY <1>1, UpdateFacts DEF Sound
<1> HIDE DEF g
<1>3. Sound(g, M, C)
  BY <1>1, <1>2 DEF Sound
<1> QED BY <1>1, <1>2, <1>3 DEF g

\* The counters of a hierarchy in which one first level has counted a request, and L2
\* the load and the write-back it made, are linked again.
LEMMA RequestLinked ==
  ASSUME NEW h, WellFormed(h), Linked(h), NEW g, NEW c \in L1s,
         NEW load \in BOOLEAN, NEW wb \in BOOLEAN,
         g.stats["L2"].read_accesses = h.stats["L2"].read_accesses + One(load),
         g.stats["L2"].write_accesses = h.stats["L2"].write_accesses + One(wb),
         g.stats[c].num_misses = h.stats[c].num_misses + One(load),
         g.stats[c].num_evicts = h.stats[c].num_evicts + One(wb),
         \A d \in L1s \ {c} : g.stats[d] = h.stats[d]
  PROVE  Linked(g)
<1>1. \A d \in Caches : h.stats[d] \in [Counters -> Nat]
  BY DEF WellFormed
<1>2. /\ h.stats["L1I"].num_misses \in Nat /\ h.stats["L1D"].num_misses \in Nat
      /\ h.stats["L1I"].num_evicts \in Nat /\ h.stats["L1D"].num_evicts \in Nat
      /\ One(load) \in Nat /\ One(wb) \in Nat
  BY <1>1, HierarchyAssumption DEF Counters, One
<1>3. CASE c = "L1I"
  BY <1>2, <1>3 DEF Linked, L1s
<1>4. CASE c = "L1D"
  BY <1>2, <1>4 DEF Linked, L1s
<1> QED BY <1>3, <1>4 DEF L1s

\* A request to a first level keeps the hierarchy sound; it keeps the counters
\* balanced and linked, and loads and writes back what crosses the border of L2.
LEMMA SendL1Facts ==
  ASSUME NEW M, NEW C, NEW h, Sound(h, M, C), NEW c \in L1s, NEW addr \in Nat,
         NEW type \in {"READ", "WRITE"}, NEW instr \in BOOLEAN, type = "READ" \/ addr \in M,
         addr \in C
  PROVE  LET g == sendL1(h, c, addr, type, instr)
         IN  /\ Sound(g, M, C)
             /\ g.accesses[c] = h.accesses[c] + 1
             /\ \A d \in L1s \ {c} : g.accesses[d] = h.accesses[d]
             /\ Balanced(h) => Balanced(g) /\ OffChip(h, g)
             /\ Balanced(h) /\ Linked(h) => Linked(g)
<1> DEFINE old      == h.accesses[c]
           modify   == type # "READ"
           hit      == isCached(c, h.tags[c], addr)
           loaded   == sendLLC(h, addr, "READ", instr)
           t        == loaded.tags[c]
           wb       == wb_required(c, t, addr)
           tally    == Tally(type, hit, instr, wb)
           filled   == insertBlock(c, t, addr, modify, old + 1)
           inserted == Update(loaded, c, filled, old + 1, tally)
           victim   == victim_addr(c, t, addr)
           written  == sendLLC(inserted, victim, "WRITE_BACK", FALSE)
           g        == sendL1(h, c, addr, type, instr)
<1>1. /\ c \in Caches /\ "L2" \in Caches \ {c} /\ L1s \subseteq Caches
      /\ "READ" \in Types /\ "WRITE_BACK" \in Types /\ type \in Types /\ type # "WRITE_BACK"
  BY HierarchyAssumption DEF L1s, Types
<1>2. /\ WellFormed(h) /\ old \in Nat
      /\ h.tags[c] \in TagArrays(c) /\ UniqueTags(c, h.tags[c])
      /\ Ordered(c, h.tags[c], old) /\ DirtyBlocks(c, h.tags[c]) \subseteq M
      /\ CachedBlocks(c, h.tags[c]) \subseteq CachedBlocks("L2", h.tags["L2"])
  BY <1>1 DEF Sound, WellFormed
<1>3. old + 1 \in Nat
  BY <1>2
<1>4. modify \in BOOLEAN /\ (modify => addr \in M)
  BY Zenon
<1>5. hit \in BOOLEAN
  BY Zenon DEF isCached
<1>6. CASE hit
  <2> DEFINE u  == accessBlock(c, h.tags[c], addr, modify, old + 1)
  <2>1. g = Update(h, c, u, old + 1, tally)
    BY <1>6 DEF sendL1
  <2>2. wb \in BOOLEAN
    BY Zenon DEF wb_required
  <2> HIDE DEF wb, g
  <2>3. /\ u \in TagArrays(c) /\ UniqueTags(c, u)
        /\ CachedBlocks(c, u) = CachedBlocks(c, h.tags[c])
    <3> HIDE DEF old, modify
    <3> QED BY <1>1, <1>2, <1>3, <1>4, AccessFacts
  <2>4. Ordered(c, u, old + 1)
    <3> HIDE DEF old, modify
    <3> QED BY <1>1, <1>2, <1>4, <1>6, AccessOrdered
  <2>5. DirtyBlocks(c, u) \subseteq M
    <3> HIDE DEF old, modify
    <3> QED BY <1>1, <1>2, <1>3, <1>4, <1>6, AccessDirty
  <2> HIDE DEF u
  <2>6. Sound(g, M, C) /\ g.tags["L2"] = h.tags["L2"] /\ g.stats["L2"] = h.stats["L2"]
    <3> HIDE DEF old, tally
    <3> QED BY <1>2, <1>3, <2>1, <2>3, <2>4, <2>5, UpdateL1Sound
  <2>7. OffChip(h, g)
    BY <2>6, OffChipSame
  <2>8. Balanced(h) => Balanced(g)
    <3> HIDE DEF hit
    <3> QED BY <1>1, <1>2, <1>5, <1>6, <2>1, <2>2, <2>3, UpdateBalanced
  <2>9. "num_misses" \notin tally /\ "num_evicts" \notin tally
    <3> HIDE DEF hit
    <3> QED BY <1>1, <1>5, <1>6, <2>2, TallyFacts
  <2>10. /\ \A k \in Counters : g.stats[c][k] = h.stats[c][k] + One(k \in tally)
         /\ g.accesses[c] = old + 1
         /\ \A d \in L1s \ {c} : g.stats[d] = h.stats[d] /\ g.accesses[d] = h.accesses[d]
    <3> HIDE DEF old, tally
    <3> QED BY <1>1, <1>2, <1>3, <2>1, <2>3, UpdateFacts
  <2>11. Linked(h) => Linked(g)
    <3> HIDE DEF tally
    <3>1. /\ g.stats[c].num_misses = h.stats[c].num_misses + One(FALSE)
          /\ g.stats[c].num_evicts = h.stats[c].num_evicts + One(FALSE)
      BY <2>9, <2>10 DEF Counters, One
    <3>2. h.stats["L2"] \in [Counters -> Nat]
      BY <1>1, <1>2 DEF WellFormed
    <3>3. /\ g.stats["L2"].read_accesses = h.stats["L2"].read_accesses + One(FALSE)
          /\ g.stats["L2"].write_accesses = h.stats["L2"].write_accesses + One(FALSE)
      BY <2>6, <3>2 DEF Counters, One
    <3> QED BY <1>2, <2>10, <3>1, <3>3, RequestLinked
  <2>12. /\ g.accesses[c] = h.accesses[c] + 1
         /\ \A d \in L1s \ {c} : g.accesses[d] = h.accesses[d]
    BY <2>10
  <2> HIDE DEF old
  <2> QED BY <2>6, <2>7, <2>8, <2>11, <2>12 DEF g
<1>7. CASE ~ hit
  <2>1. g = IF wb THEN written ELSE inserted
    BY <1>7 DEF sendL1
  <2> HIDE DEF written, g
  <2>2. /\ Sound(loaded, M, C)
        /\ addr \in CachedBlocks("L2", loaded.tags["L2"])
        /\ \A d \in L1s :
             /\ CachedBlocks(d, loaded.tags[d]) \subseteq CachedBlocks(d, h.tags[d])
             /\ loaded.accesses[d] = h.accesses[d] /\ loaded.stats[d] = h.stats[d]
    BY <1>1, SendLLCSound, SMTT(30)
  <2>3. Balanced(h) =>
          /\ Balanced(loaded) /\ OffChip(h, loaded)
          /\ loaded.stats["L2"].read_accesses = h.stats["L2"].read_accesses + One(TRUE)
          /\ loaded.stats["L2"].write_accesses = h.stats["L2"].write_accesses + One(FALSE)
    BY <1>1, SendLLCTraffic DEF One
  <2>3a. CachedBlocks(c, t) \subseteq CachedBlocks(c, h.tags[c]) /\ loaded.accesses[c] = old
    <3> HIDE DEF loaded
    <3> QED BY <2>2
  <2> HIDE DEF loaded
  <2>4. /\ t \in TagArrays(c) /\ UniqueTags(c, t) /\ WellFormed(loaded)
        /\ CachedBlocks(c, t) \subseteq CachedBlocks("L2", loaded.tags["L2"])
        /\ loaded.tags["L2"] \in TagArrays("L2")
        /\ Ordered(c, t, old) /\ DirtyBlocks(c, t) \subseteq M
        /\ loaded.stats["L2"] \in [Counters -> Nat]
    BY <1>1, <2>2, <2>3a DEF Sound, WellFormed
  <2> HIDE DEF t
  <2>5. ~ isCached(c, t, addr)
    BY <1>1, <1>2, <1>7, <2>3a, <2>4, CachedBlock
  <2>6. /\ filled \in TagArrays(c) /\ UniqueTags(c, filled)
        /\ CachedBlocks(c, filled) = (CachedBlocks(c, t) \ {victim}) \cup {addr}
    <3> HIDE DEF old, modify
    <3> QED BY <1>1, <1>3, <1>4, <2>4, <2>5, InsertFacts
  <2>7. Ordered(c, filled, old + 1)
    <3> HIDE DEF old, modify
    <3> QED BY <1>1, <1>2, <1>4, <2>4, InsertOrdered
  <2>8. /\ DirtyBlocks(c, filled) \subseteq M
        /\ wb <=> victim \in DirtyBlocks(c, t)
    <3> HIDE DEF old, modify
    <3>1. /\ DirtyBlocks(c, filled) =
               (DirtyBlocks(c, t) \ {victim}) \cup (IF modify THEN {addr} ELSE {})
          /\ wb <=> victim \in DirtyBlocks(c, t)
      BY <1>1, <1>3, <1>4, <2>4, <2>5, InsertDirty DEF Ordered
    <3> QED BY <3>1, <1>4, <2>4
  <2>9. wb \in BOOLEAN
    BY Zenon DEF wb_required
  <2>10. wb => /\ victim \in M /\ victim \in Nat /\ victim \in C
               /\ victim \in CachedBlocks("L2", loaded.tags["L2"])
    BY <1>1, <2>2, <2>4, <2>8, DirtyBlock, CachedBlock DEF Sound
  <2> HIDE DEF filled, victim, wb
  <2>11. /\ Sound(inserted, M, C) /\ inserted.tags["L2"] = loaded.tags["L2"]
         /\ inserted.stats["L2"] = loaded.stats["L2"]
    <3> HIDE DEF old, tally
    <3> QED BY <1>2, <1>3, <2>2, <2>4, <2>6, <2>7, <2>8, UpdateL1Sound
  <2>12. Balanced(h) => Balanced(inserted)
    <3> HIDE DEF hit
    <3> QED BY <1>1, <1>5, <1>7, <2>2, <2>3, <2>4, <2>6, <2>9, UpdateBalanced
  <2>13. /\ \A k \in Counters : inserted.stats[c][k] = loaded.stats[c][k] + One(k \in tally)
         /\ inserted.accesses[c] = old + 1
         /\ \A d \in L1s \ {c} : /\ inserted.stats[d] = loaded.stats[d]
                                 /\ inserted.accesses[d] = loaded.accesses[d]
    <3> HIDE DEF old, tally
    <3> QED BY <1>1, <1>3, <2>4, <2>6, UpdateFacts
  <2>14. "num_misses" \in tally /\ ("num_evicts" \in tally <=> wb)
    <3> HIDE DEF hit
    <3> QED BY <1>1, <1>5, <1>7, <2>9, TallyFacts
  <2>15. /\ inserted.stats[c].num_misses = h.stats[c].num_misses + One(TRUE)
         /\ inserted.stats[c].num_evicts = h.stats[c].num_evicts + One(wb)
         /\ \A d \in L1s \ {c} : inserted.stats[d] = h.stats[d]
         /\ inserted.accesses[c] = old + 1
         /\ \A d \in L1s \ {c} : inserted.accesses[d] = h.accesses[d]
    <3> HIDE DEF tally, inserted
    <3> QED BY <2>2, <2>13, <2>14 DEF Counters, One
  <2> HIDE DEF inserted
  <2>16. Balanced(h) => OffChip(h, inserted)
    BY <2>3, <2>11 DEF OffChip
  <2>17. CASE ~ wb
    <3>1. g = inserted
      BY <2>1, <2>17
    <3>2. ASSUME Balanced(h), Linked(h) PROVE Linked(g)
      <4>1. /\ g.stats["L2"].read_accesses = h.stats["L2"].read_accesses + One(TRUE)
            /\ g.stats["L2"].write_accesses = h.stats["L2"].write_accesses + One(FALSE)
            /\ g.stats[c].num_evicts = h.stats[c].num_evicts + One(FALSE)
        BY <2>3, <2>11, <2>15, <2>17, <3>1, <3>2 DEF One
      <4> QED BY <1>2, <2>15, <3>1, <3>2, <4>1, RequestLinked
    <3> QED BY <2>11, <2>12, <2>15, <2>16, <3>1, <3>2 DEF g
  <2>18. CASE wb
    <3>1. g = written
      BY <2>1, <2>18
    <3> DEFINE no == FALSE
    <3>0. no \in BOOLEAN /\ written = sendLLC(inserted, victim, "WRITE_BACK", no)
      BY DEF written
    <3> HIDE DEF no
    <3>2. /\ Sound(written, M, C)
          /\ \A d \in L1s : /\ written.stats[d] = inserted.stats[d]
                             /\ written.accesses[d] = inserted.accesses[d]
      BY <1>1, <2>10, <2>11, <2>18, <3>0, SendLLCSound
    <3>3. ASSUME Balanced(h)
          PROVE  /\ Balanced(written)
                 /\ written.stats["L2"].read_accesses = inserted.stats["L2"].read_accesses
                                                          + One(FALSE)
                 /\ written.stats["L2"].write_accesses = inserted.stats["L2"].write_accesses
                                                           + One(TRUE)
                 /\ CachedBlocks("L2", written.tags["L2"])
                      = CachedBlocks("L2", inserted.tags["L2"])
                 /\ written.stats["L2"].num_data_loads = inserted.stats["L2"].num_data_loads
                 /\ written.stats["L2"].num_instr_loads = inserted.stats["L2"].num_instr_loads
                 /\ written.stats["L2"].num_evicts = inserted.stats["L2"].num_evicts
      <4>1. victim \in Nat /\ victim \in CachedBlocks("L2", inserted.tags["L2"])
        BY <2>10, <2>11, <2>18
      <4>2. Balanced(inserted)
        BY <2>12, <3>3
      <4> QED BY <1>1, <2>11, <4>1, <4>2, <3>0, SendLLCTraffic DEF One
    <3>4. Balanced(h) => OffChip(h, written)
      BY <2>16, <3>3 DEF OffChip
    <3>5. ASSUME Balanced(h), Linked(h) PROVE Linked(written)
      <4>1. /\ h.stats["L2"].read_accesses \in Nat /\ h.stats["L2"].write_accesses \in Nat
        BY <1>1, <1>2 DEF WellFormed, Counters
      <4>2. /\ written.stats["L2"].read_accesses = h.stats["L2"].read_accesses + One(TRUE)
            /\ written.stats["L2"].write_accesses = h.stats["L2"].write_accesses + One(TRUE)
        BY <2>3, <2>11, <3>3, <3>5, <4>1 DEF One
      <4>3. /\ written.stats[c].num_misses = h.stats[c].num_misses + One(TRUE)
            /\ written.stats[c].num_evicts = h.stats[c].num_evicts + One(TRUE)
            /\ \A d \in L1s \ {c} : written.stats[d] = h.stats[d]
        BY <2>15, <2>18, <3>2 DEF One
      <4> QED BY <1>2, <3>5, <4>2, <4>3, RequestLinked
    <3> QED BY <2>15, <3>1, <3>2, <3>3, <3>4, <3>5 DEF g
  <2> QED BY <2>17, <2>18
<1> QED BY <1>6, <1>7

-----------------------------------------------------------------------------
\* No invalid way is dirty.
InvalidIsClean == \A c \in Caches : InvalidClean(c, tags[c])

\* The inductive invariant: what the runs check, none of which but type correctness
\* and NoDuplicates is inductive alone, and that no invalid way is dirty.
IInv ==
  /\ TypeOK /\ NoDuplicates /\ Inclusion
  /\ LRUOrder /\ InvalidIsClean /\ DirtyIsModified
  /\ TrafficAgrees

LEMMA SoundNow ==
  ASSUME IInv
  PROVE  Sound(Now, modified, Cached("L2")) /\ Balanced(Now) /\ Linked(Now)
<1>1. "L2" \in Caches
  BY HierarchyAssumption
<1>2. /\ Now.tags = tags /\ Now.accesses = accesses /\ Now.stats = stats
      /\ Now = [tags |-> Now.tags, accesses |-> Now.accesses, stats |-> Now.stats]
  BY DEF Now
<1>3. WellFormed(Now)
  BY <1>2 DEF IInv, TypeOK, WellFormed
<1>4. Sound(Now, modified, Cached("L2"))
  BY <1>1, <1>2, <1>3
     DEF IInv, NoDuplicates, Inclusion, LRUOrder, InvalidIsClean, DirtyIsModified, Sound,
         Ordered, Cached, Dirty
<1>5. Balanced(Now) /\ Linked(Now)
  BY <1>2 DEF IInv, TrafficAgrees, Balanced, Linked
<1> QED BY <1>4, <1>5

LEMMA InitIInv == Init => IInv
<1> SUFFICES ASSUME Init PROVE IInv
  OBVIOUS
<1>1. \A c \in Caches : tags[c] = EmptyTags(c) /\ accesses[c] = 0
  BY DEF Init
<1>2. TypeOK
  BY <1>1, EmptyTagsFacts DEF Init, TypeOK
<1>3. NoDuplicates
  BY <1>1, EmptyTagsFacts DEF NoDuplicates
<1>4. Inclusion
  BY <1>1, EmptyTagsFacts, HierarchyAssumption DEF Inclusion, Cached, L1s
<1>5. LRUOrder /\ InvalidIsClean
  BY <1>1, EmptyTagsOrdered DEF LRUOrder, InvalidIsClean, Ordered
<1>6. DirtyIsModified
  BY <1>1, EmptyTagsOrdered DEF DirtyIsModified, Dirty
<1>7. TrafficAgrees
  BY HierarchyAssumption DEF Init, TrafficAgrees, Counters
<1> QED BY <1>2, <1>3, <1>4, <1>5, <1>6, <1>7 DEF IInv

\* The step of OffChipTraffic.
OffChipStep ==
  /\ Cardinality(Cached("L2")' \ Cached("L2"))
       = stats["L2"].num_data_loads' + stats["L2"].num_instr_loads'
         - stats["L2"].num_data_loads - stats["L2"].num_instr_loads
  /\ Cardinality(Dirty("L2") \ Cached("L2")')
       = stats["L2"].num_evicts' - stats["L2"].num_evicts

\* One request, of either first level, keeps the invariant, crosses the border of
\* L2 as often as its counters say, brings no other block into a cache
\* and moves the clock of no other first level.
LEMMA RequestIInv ==
  ASSUME IInv, NEW c \in L1s, NEW addr \in Blocks, NEW type \in {"READ", "WRITE"},
         NEW instr \in BOOLEAN, Request(c, addr, type, instr)
  PROVE  /\ IInv' /\ OffChipStep
         /\ \A d \in Caches : Cached(d)' \subseteq Cached("L2") \cup {addr}
         /\ accesses'[c] = accesses[c] + 1
         /\ \A d \in L1s \ {c} : accesses'[d] = accesses[d]
<1> DEFINE h == sendL1(Now, c, addr, type, instr)
           C == Cached("L2") \cup {addr}
           M == modified \cup (IF type = "WRITE" THEN {addr} ELSE {})
<1>1. /\ tags' = h.tags /\ accesses' = h.accesses /\ stats' = h.stats
      /\ modified' = {b \in M : isCached("L2", h.tags["L2"], b)}
      /\ modified' \subseteq modified \cup {addr}
  BY DEF Request, Now
<1>2. addr \in Nat /\ (type = "READ" \/ addr \in M) /\ addr \in C
  BY HierarchyAssumption
<1>3. Sound(Now, M, C) /\ Balanced(Now) /\ Linked(Now)
  BY SoundNow DEF Sound
<1>4. M \subseteq Nat
  BY HierarchyAssumption DEF IInv, TypeOK
<1> HIDE DEF M, C
<1>5. /\ Sound(h, M, C) /\ Balanced(h) /\ Linked(h) /\ OffChip(Now, h)
      /\ h.accesses[c] = Now.accesses[c] + 1
      /\ \A d \in L1s \ {c} : h.accesses[d] = Now.accesses[d]
  BY <1>2, <1>3, SendL1Facts
<1> HIDE DEF h
<1>6. /\ "L2" \in Caches /\ L1s \subseteq Caches /\ \A d \in Caches : d = "L2" \/ d \in L1s
  BY HierarchyAssumption DEF L1s
<1>7. TypeOK'
  BY <1>1, <1>5 DEF IInv, TypeOK, Sound, WellFormed
<1>8. NoDuplicates'
  BY <1>1, <1>5 DEF NoDuplicates, Sound
<1>9. Inclusion'
  BY <1>1, <1>5 DEF Inclusion, Sound, Cached
<1>10. LRUOrder' /\ InvalidIsClean'
  BY <1>1, <1>5 DEF LRUOrder, InvalidIsClean, Sound, Ordered
<1>11. DirtyIsModified'
  <2>1. ASSUME NEW d \in Caches PROVE DirtyBlocks(d, h.tags[d]) \subseteq modified'
    <3>1. h.tags[d] \in TagArrays(d) /\ UniqueTags(d, h.tags[d]) /\ h.tags["L2"] \in TagArrays("L2")
      BY <1>5, <1>6 DEF Sound, WellFormed
    <3>2. DirtyBlocks(d, h.tags[d]) \subseteq CachedBlocks(d, h.tags[d])
      BY <3>1, DirtyBlock
    <3>3. CachedBlocks(d, h.tags[d]) \subseteq CachedBlocks("L2", h.tags["L2"])
      BY <1>5, <1>6 DEF Sound
    <3>4. DirtyBlocks(d, h.tags[d]) \subseteq M
      BY <1>5 DEF Sound
    <3>5. \A b \in M : isCached("L2", h.tags["L2"], b) <=> b \in CachedBlocks("L2", h.tags["L2"])
      BY <1>4, <1>6, <3>1, CachedBlock
    <3> QED BY <1>1, <3>2, <3>3, <3>4, <3>5
  <2> QED BY <1>1, <2>1 DEF DirtyIsModified, Dirty
<1>12. TrafficAgrees'
  BY <1>1, <1>5 DEF TrafficAgrees, Balanced, Linked
<1>13. OffChipStep
  BY <1>1, <1>5 DEF OffChip, OffChipStep, Cached, Dirty, Now
<1>14. \A d \in Caches : Cached(d)' \subseteq C
  BY <1>1, <1>5, <1>6 DEF Sound, Cached
<1>15. accesses'[c] = accesses[c] + 1 /\ \A d \in L1s \ {c} : accesses'[d] = accesses[d]
  BY <1>1, <1>5 DEF Now
<1> QED BY <1>7, <1>8, <1>9, <1>10, <1>11, <1>12, <1>13, <1>14, <1>15 DEF IInv, C

LEMMA NextIInv == IInv /\ [Next]_vars => IInv' /\ [OffChipStep]_vars
<1> SUFFICES ASSUME IInv, [Next]_vars PROVE IInv' /\ [OffChipStep]_vars
  OBVIOUS
<1>1. ASSUME NEW addr \in Blocks, InstrFetch(addr)
      PROVE  IInv' /\ OffChipStep
  BY <1>1, RequestIInv DEF InstrFetch, L1s
<1>2. ASSUME NEW addr \in Blocks, Load(addr)
      PROVE  IInv' /\ OffChipStep
  BY <1>2, RequestIInv DEF Load, L1s
<1>3. ASSUME NEW addr \in Blocks, Store(addr)
      PROVE  IInv' /\ OffChipStep
  BY <1>3, RequestIInv DEF Store, L1s
<1>4. CASE UNCHANGED vars
  <2>1. tags' = tags /\ accesses' = accesses /\ stats' = stats /\ modified' = modified
    BY <1>4 DEF vars
  <2>2. TypeOK' /\ NoDuplicates' /\ Inclusion' /\ LRUOrder' /\ InvalidIsClean'
    BY <2>1 DEF IInv, TypeOK, NoDuplicates, Inclusion, Cached, LRUOrder, InvalidIsClean
  <2>3. DirtyIsModified' /\ TrafficAgrees'
    BY <2>1 DEF IInv, DirtyIsModified, Dirty, TrafficAgrees
  <2> QED BY <1>4, <2>2, <2>3 DEF IInv
<1> QED BY <1>1, <1>2, <1>3, <1>4 DEF Next

LEMMA SpecIInv == Spec => []IInv
  BY InitIInv, NextIInv, PTL DEF Spec

\* The state of the hierarchy has its type, whatever the geometry.
THEOREM HierarchyType == Spec => []TypeOK
<1>1. IInv => TypeOK
  BY DEF IInv
<1> QED BY <1>1, SpecIInv, PTL

\* No set ever holds a block twice.
THEOREM HierarchyNoDuplicates == Spec => []NoDuplicates
<1>1. IInv => NoDuplicates
  BY DEF IInv
<1> QED BY <1>1, SpecIInv, PTL

\* The caches are inclusive, as cache.hh:13 claims: L2 holds every block that
\* a first level holds, after any sequence of requests.
THEOREM HierarchyInclusion == Spec => []Inclusion
<1>1. IInv => Inclusion
  BY DEF IInv
<1> QED BY <1>1, SpecIInv, PTL

\* The block that findVictim evicts is always the only one touched longest ago.
THEOREM HierarchyLRUOrder == Spec => []LRUOrder
<1>1. IInv => LRUOrder
  BY DEF IInv
<1> QED BY <1>1, SpecIInv, PTL

\* A dirty copy was written by the program since its block was last loaded: the dirty
\* bit of a block never comes from the block its way held before.
THEOREM HierarchyDirtyIsModified == Spec => []DirtyIsModified
<1>1. IInv => DirtyIsModified
  BY DEF IInv
<1> QED BY <1>1, SpecIInv, PTL

\* The counters of the three caches agree with each other; in particular a write-back
\* of a first level always finds its block in L2.
THEOREM HierarchyTrafficAgrees == Spec => []TrafficAgrees
<1>1. IInv => TrafficAgrees
  BY DEF IInv
<1> QED BY <1>1, SpecIInv, PTL

\* The loads and evictions of L2 are the blocks that enter it and that leave it dirty.
THEOREM HierarchyOffChip == Spec => OffChipTraffic
<1>1. IInv /\ [Next]_vars => [OffChipStep]_vars
  BY NextIInv
<1>2. Spec => [][OffChipStep]_vars
  BY <1>1, SpecIInv, PTL DEF Spec
<1> QED BY <1>2 DEF OffChipTraffic, OffChipStep
=============================================================================
