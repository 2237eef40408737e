\* One slot that may become two, three threads, requests below and above nominal.
SPECIFICATION FairSpec
CONSTANTS
  Threads = {t1, t2, t3}
  Requests = {1, 3}
  BufferCount = 1
  MaxBufferCount = 2
  BufferCapacity = 2
  GrowMode = TRUE
  MaxRefs = 2
  MaxAllocFailures = 1
INVARIANTS
  TypeOK
  FreeIffUnreferenced
  FreeListSorted
  CapacityPromised
  NoLostWakeup
PROPERTIES
  StorageStable
  NullOnlyWhenSaturated
  AcquireReturns
