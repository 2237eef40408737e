\* A fetch with an earlier selection lands at the deadline.
SPECIFICATION Spec
CONSTANTS
  Readers = {r1}
  TotalTimesteps = 2
  Depth = 1
  Selections = {full, band}
  Full = full
  NoBuffer = NoBuffer
  MaxViews = 2
  MaxThrows = 0
PROPERTIES
  AlwaysMatches
CHECK_DEADLOCK FALSE
