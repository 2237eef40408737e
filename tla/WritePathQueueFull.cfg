\* A queue that is full.
SPECIFICATION Spec
CONSTANTS
  Hosts = {h1}
  Writes = {a, b}
  QueueCapacity = 1
  PendingLimit = 8
  None = None
SYMMETRY WriteSymmetry
INVARIANTS
  QueueFullReported
CHECK_DEADLOCK FALSE
