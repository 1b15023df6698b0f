\* Two threads whose calls of malloc overlap.
CONSTANTS
  Threads = {t1, t2}
  Pointers = {p1, p2}
  Sizes = {0, 8}
  NULL = NULL
  NoSize = NoSize
  MaxCalls = 4

SYMMETRY Symmetry

\* The program may stop calling.
CHECK_DEADLOCK FALSE

SPECIFICATION Spec

INVARIANT SizesAsAsked
