\* One thread, which leaves the ROI after fast-forwarding has ended.
CONSTANTS
  Threads = {t1}
  NoThread = NoThread
  LIMIT = 2
  roi_skippings = 1
  MaxInstrs = 7

SPECIFICATION Spec

INVARIANT ExtractionLimit
