\* Two workers, four writes of one variable, a queue of three, with and without
\* backpressure, shutdown at any moment.
SPECIFICATION FairSpec
CONSTANTS
  Workers = {w1, w2}
  Hosts = {h1, h2}
  Datasets = {d1}
  Variables = {v1}
  Distances = {1}
  BackpressureModes = {TRUE, FALSE}
  LowWatermark = 1
  HighWatermark = 2
  QueueCapacity = 3
  MaxWrites = 4
  MaxPrefetches = 1
  None = None
INVARIANTS
  TypeOK
  EveryTaskInOnePlace
PROPERTIES
  ImplementsOrderedWrites
  DrainedMeansExecuted
  AcceptedIsExecuted
  ShutdownJoins
  SubmitReturns
CHECK_DEADLOCK FALSE
