\* Generations 1, 2 and 3 over three slots: the counter wraps and comes round.
SPECIFICATION Spec
CONSTANTS
  Kinds = {dataset, view}
  Payloads = {p1, p2}
  GenLimit = 4
  SlotLimit = 3
  MaxReleases = 4
  Null = Null
SYMMETRY HandleSymmetry
INVARIANTS
  TypeOK
  HandlesResolve
  StaleRejected
  FreeListExact
CHECK_DEADLOCK FALSE
