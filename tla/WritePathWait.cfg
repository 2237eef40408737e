\* A host waits for a write that fails.
SPECIFICATION FairSpec
CONSTANTS
  Hosts = {h1}
  Writes = {a}
  QueueCapacity = 1
  PendingLimit = 8
  None = None
PROPERTIES
  WaitEndsOnFailure
CHECK_DEADLOCK FALSE
