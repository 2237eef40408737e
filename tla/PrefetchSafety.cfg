\* Two readers over two timesteps.
SPECIFICATION Spec
CONSTANTS
  Readers = {r1, r2}
  TotalTimesteps = 2
  Depth = 1
  Selections = {full, band}
  Full = full
  NoBuffer = NoBuffer
  MaxViews = 2
  MaxThrows = 1
SYMMETRY ReaderSymmetry
INVARIANTS
  TypeOK
  TrackedOnce
  BuffersConserved
PROPERTIES
  SelectionHonoured
CHECK_DEADLOCK FALSE
