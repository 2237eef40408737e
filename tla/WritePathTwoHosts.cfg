\* Two hosts write to different variables and one of them flushes.
SPECIFICATION Spec
CONSTANTS
  Hosts = {h1, h2}
  Writes = {a, b}
  QueueCapacity = 2
  PendingLimit = 8
  None = None
SYMMETRY WriteSymmetry
PROPERTIES
  FlushBlocks
CHECK_DEADLOCK FALSE
