\* Two threads, one of which leaves the ROI.
CONSTANTS
  Threads = {t1, t2}
  NoThread = NoThread
  LIMIT = 2
  roi_skippings = 1
  MaxInstrs = 5

SYMMETRY Symmetry

SPECIFICATION Spec

INVARIANT AssertionHolds
