\* The clocks and counters are unbounded: VIEW makes the search finite.
CONSTANTS
  Caches <- MC_Caches
  num_sets <- MC_num_sets
  assoc <- MC_assoc
  Blocks = {0, 1, 2, 4}

VIEW View

SPECIFICATION Spec

INVARIANTS
  TypeOK
  NoDuplicates
  Inclusion
  LRUOrder
  TrafficAgrees
  DirtyIsModified

PROPERTY OffChipTraffic
