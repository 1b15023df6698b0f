\* Two threads: enough instructions to pass both borders while increments are lost.
CONSTANTS
  Threads = {t1, t2}
  SKIP = 2
  LENGTH = 3
  MaxInstrs = 6

SPECIFICATION FairSpec

INVARIANTS
  TypeOK
  NeverEarly
  BordersNoticed
  ExactAlone

PROPERTY LimitEndsRun
