\* Two hosts, two writes, a queue of one.
SPECIFICATION FairSpec
CONSTANTS
  Hosts = {h1, h2}
  Writes = {a, b}
  QueueCapacity = 1
  PendingLimit = 8
  None = None
INVARIANTS
  TypeOK
  BuffersAccounted
  PendingExact
PROPERTIES
  FlushMeansWritten
  FlushReturns
CHECK_DEADLOCK FALSE
