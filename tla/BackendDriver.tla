--------------------------- MODULE BackendDriver ---------------------------
(***************************************************************************)
(* What every backend driver shares (src/src/factory/backend_driver.hpp):  *)
(* the state of one dataset and its driver, and the arithmetic of shapes   *)
(* and bounding boxes.  The driver modules extend this one; DriverFiles    *)
(* puts them side by side.                                                 *)
(*                                                                         *)
(* A field element is the pair of the number of the write it came with and *)
(* its logical index, so an element that lands in the wrong place, or      *)
(* survives from an older write, can be told apart.                        *)
(***************************************************************************)
EXTENDS Integers, Sequences, FiniteSets, FiniteSetsExt

CONSTANTS
  Vars,       \* the variables a host writes
  Layouts,    \* Layouts[v]: the shapes amio_write is called with for v
  Marks,      \* Marks[v]: the axes whose letters occur in the name of v
  MaxWrites,  \* bound: writes to the dataset
  MaxFaults,  \* bound: calls of the storage library that fail
  MaxStray    \* bound: the numbers a read past the end of a vector finds

ASSUME DriverAssumption ==
  /\ IsFiniteSet(Vars) /\ "none" \notin Vars
  /\ Marks \in [Vars -> SUBSET {"X", "Y", "Z", "T"}]
  /\ MaxWrites \in Nat /\ MaxFaults \in Nat /\ MaxStray \in Nat
  /\ \A v \in Vars : \A l \in Layouts[v] :
       /\ l.ext \in Seq(Nat \ {0}) /\ Len(l.ext) \in 1 .. 7
       /\ l.str \in Seq(Nat) /\ Len(l.str) = Len(l.ext)

VARIABLES
  drv,      \* the members of the driver
  file,     \* what the storage library holds behind it
  cb,       \* cb[v]: how far the write callback of v is
  started,  \* writes the workers have begun
  log,      \* writes that returned, in that order (history)
  threw,    \* variables a write of which threw (history)
  faults,   \* library calls that failed
  got       \* what the last read delivered

driverVars == <<drv, file, cb, started, log, threw, faults, got>>

----------------------------------------------------------------------------
(* Shapes.  An index is a tuple that starts at 0 in each dimension.        *)

Dims(s) == 1 .. Len(s)

\* The distance, in elements, between neighbours of each dimension when the
\* last dimension varies fastest.
RowMajorStrides(ext) ==
  LET s[d \in Dims(ext)] == IF d = Len(ext) THEN 1 ELSE s[d + 1] * ext[d + 1] IN s

Size(ext) == RowMajorStrides(ext)[1] * ext[1]

Offset(i, str) ==
  LET sum[d \in 0 .. Len(str)] == IF d = 0 THEN 0 ELSE sum[d - 1] + i[d] * str[d]
  IN  sum[Len(str)]

\* The index at position k of the row-major order.
IndexAt(k, ext) ==
  [d \in Dims(ext) |-> (k \div RowMajorStrides(ext)[d]) % ext[d]]

Cells(ext) == {IndexAt(k, ext) : k \in 0 .. Size(ext) - 1}

\* A stride of 0 asks for the row-major one.
ActualStrides(l) ==
  [d \in Dims(l.ext) |-> IF l.str[d] = 0 THEN RowMajorStrides(l.ext)[d] ELSE l.str[d]]

Fill == <<0, <<>>>>    \* an element nobody wrote
Junk == <<-1, <<>>>>   \* an element from outside the field

\* The bytes amio_write copied out of the host's array: as many elements as
\* the shape has, from its start, whatever the strides say.
Snapshot(l, n) ==
  [k \in 1 .. Size(l.ext) |->
     LET at == {i \in Cells(l.ext) : Offset(i, ActualStrides(l)) = k - 1}
     IN  IF at = {} THEN Junk ELSE <<n, CHOOSE i \in at : TRUE>>]

RowMajorLayout(l) == ActualStrides(l) = RowMajorStrides(l.ext)

----------------------------------------------------------------------------
(* Bounding boxes: the selections validate_bbox lets through.              *)

Boxes(shape) ==
  LET Spans(n) == {x \in (0 .. n - 1) \X (1 .. n) \X {1, 2} :
                     /\ x[1] + (x[2] - 1) * x[3] < n
                     /\ x[2] = 1 => x[3] = 1}
      widest == Max({shape[d] : d \in Dims(shape)})
  IN  {[off |-> [d \in Dims(shape) |-> q[d][1]],
        ext |-> [d \in Dims(shape) |-> q[d][2]],
        str |-> [d \in Dims(shape) |-> q[d][3]]] :
         q \in {q \in [Dims(shape) -> Spans(widest)] :
                  \A d \in Dims(shape) : q[d] \in Spans(shape[d])}}

FullBox(shape) ==
  [off |-> [d \in Dims(shape) |-> 0], ext |-> shape, str |-> [d \in Dims(shape) |-> 1]]

\* The index the box puts at position k of the delivered buffer.
BoxIndex(b, k) ==
  [d \in Dims(b.ext) |-> b.off[d] + IndexAt(k - 1, b.ext)[d] * b.str[d]]

----------------------------------------------------------------------------
(* VariableInfo, reads and the calls of the workers.                       *)

NotFound == [found |-> FALSE, shape |-> <<>>, steps |-> 0]
Found(shape, steps) == [found |-> TRUE, shape |-> shape, steps |-> steps]

NoRead == [var |-> "none"]

Idle == [step |-> "idle"]

MayFail == faults < MaxFaults
Fault == faults' = faults + 1

Returned(v, n, l) == log' = Append(log, [var |-> v, n |-> n, ext |-> l.ext, str |-> l.str])

\* Nothing is written or read: opening, flushing and closing.
NoTransfer == UNCHANGED <<cb, started, log, threw, got>>

\* The element the writes that returned have left at index i of v.
LastWritten(v, i) ==
  LET S == {k \in DOMAIN log : log[k].var = v /\ i \in Cells(log[k].ext)}
  IN  IF S = {} THEN Fill ELSE <<log[Max(S)].n, i>>

\* Every write of v was row-major, which is all the netCDF and Zarr drivers
\* look at.
RowMajorOnly(v) == \A k \in DOMAIN log : log[k].var = v => RowMajorLayout(log[k])

\* Every write of v had as many dimensions as the others: amio_write looks at
\* each shape for itself.
OneRank(v) ==
  \A j, k \in DOMAIN log :
    log[j].var = v /\ log[k].var = v => Len(log[j].ext) = Len(log[k].ext)

=============================================================================
