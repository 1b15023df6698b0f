\* Two threads: enough instructions to enter the ROI, skip, reach the limit and race.
CONSTANTS
  Threads = {t1, t2}
  NoThread = NoThread
  LIMIT = 2
  roi_skippings = 2
  MaxInstrs = 6

SPECIFICATION FairSpec

INVARIANTS
  TypeOK
  CountExact
  NoRecordLost
  TraceReplays
  ExtractionBound

PROPERTY LockIsReleased
