\* Two threads, a program of two pages; the limit can be reached with one instruction to spare.
CONSTANTS
  Threads = {t1, t2}
  NoThread = NoThread
  Frames = {0, 1}
  page_size = 4
  BLOCK_SIZE = 2
  Caches <- MC_Caches
  num_sets <- MC_num_sets
  assoc <- MC_assoc
  Eips = {0, 6}
  Operands <- MC_Operands
  LIMIT = 3
  MaxInstrs = 4

SYMMETRY Symmetry

SPECIFICATION Spec

INVARIANTS
  TypeOK
  FramesExclusive
  CachedAreMapped
  FetchesCounted

PROPERTIES
  HierarchySpec
  NoUseAfterDelete
