\* One thread that frees a block outside the ROI.
CONSTANTS
  Threads = {t1}
  Pointers = {p1, p2}
  Sizes = {0, 8}
  NULL = NULL
  NoSize = NoSize
  MaxCalls = 7

SYMMETRY PointerSymmetry

\* The program may stop calling.
CHECK_DEADLOCK FALSE

SPECIFICATION Spec

INVARIANT HeapSizes
