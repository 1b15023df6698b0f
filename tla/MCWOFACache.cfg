\* Four blocks, so that a middle block has a middle neighbour; one address more.
CONSTANTS
  num_blocks = 4
  Addr = {a1, a2, a3, a4, a5}
  MaxAddr = MaxAddr
  MaxAccesses = 6

SYMMETRY Symmetry

SPECIFICATION Spec

INVARIANTS
  TypeOK
  ListThreaded
  HashAgrees
  FreeBlocksLast
  ResidentIsDirty
  TrafficBalanced

PROPERTY
  LRUBufferSpec
