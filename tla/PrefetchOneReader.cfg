\* One reader, deadlines that need not pass, an acquisition that may throw.
SPECIFICATION FairSpec
CONSTANTS
  Readers = {r1}
  TotalTimesteps = 2
  Depth = 1
  Selections = {full, band}
  Full = full
  NoBuffer = NoBuffer
  MaxViews = 1
  MaxThrows = 1
INVARIANTS
  SleeperTracked
PROPERTIES
  DeadlineEndsRead
  CancelFreesReaders
CHECK_DEADLOCK FALSE
