------------------------- MODULE DriverFilesProofs -------------------------
(***************************************************************************)
(* The invariants of DriverFiles, for every set of variables, layouts and  *)
(* shapes, and any number of writes and faults.                            *)
(***************************************************************************)
EXTENDS DriverFiles, StorageProofs

-----------------------------------------------------------------------------
(* The log of the writes that returned.                                    *)

\* What the workers hand to a driver, and what is logged of it.
IsLayout(l) == Shape(l.ext) /\ l.str \in Seq(Nat)

\* What the log can hold.
Entries == [var : Vars, n : Nat, ext : {s \in Seq(Nat \ {0}) : s # <<>>}, str : Seq(Nat)]

\* The state all backends have in common.
CommonType == log \in Seq(Entries) /\ started \in Nat /\ DOMAIN cb = Vars

\* The layouts of the configuration are layouts.
LEMMA LayoutFacts ==
  ASSUME NEW v \in Vars, NEW l \in Layouts[v]
  PROVE  IsLayout(l)
<1>1. /\ l.ext \in Seq(Nat \ {0}) /\ Len(l.ext) \in 1 .. 7
      /\ l.str \in Seq(Nat) /\ Len(l.str) = Len(l.ext)
  BY DriverAssumption, Zenon
<1>2. \A s : Len(s) \in 1 .. 7 => s # <<>>
  OBVIOUS
<1>3. QED
  BY <1>1, <1>2 DEF IsLayout, Shape

\* What a write that returns does to the log.
LEMMA ReturnedFacts ==
  ASSUME log \in Seq(Entries), NEW v \in Vars, NEW n \in Nat, NEW l, IsLayout(l),
         Returned(v, n, l)
  PROVE  /\ log' \in Seq(Entries) /\ log' # <<>>
         /\ Len(log) \in Nat /\ Len(log') = Len(log) + 1
         /\ DOMAIN log = 1 .. Len(log) /\ DOMAIN log' = 1 .. Len(log) + 1
         /\ \A k \in DOMAIN log : k \in DOMAIN log' /\ log'[k] = log[k]
         /\ log'[Len(log) + 1] = [var |-> v, n |-> n, ext |-> l.ext, str |-> l.str]
         /\ \A k \in DOMAIN log' : k \in DOMAIN log \/ k = Len(log) + 1
<1> DEFINE e == [var |-> v, n |-> n, ext |-> l.ext, str |-> l.str]
<1>1. e \in Entries
  BY DEF Entries, IsLayout, Shape
<1>2. log' = Append(log, e)
  BY DEF Returned
<1> HIDE DEF e
<1>3. /\ log' \in Seq(Entries) /\ log' # <<>>
      /\ Len(log) \in Nat /\ Len(log') = Len(log) + 1
      /\ DOMAIN log = 1 .. Len(log) /\ DOMAIN log' = 1 .. Len(log) + 1
      /\ \A k \in 1 .. Len(log) : log'[k] = log[k]
      /\ log'[Len(log) + 1] = e
  BY <1>1, <1>2
<1>4. QED
  BY <1>3 DEF e

\* An entry of the log.
LEMMA EntryFacts ==
  ASSUME log \in Seq(Entries), NEW k \in DOMAIN log
  PROVE  /\ log[k].var \in Vars /\ log[k].n \in Nat
         /\ Shape(log[k].ext) /\ log[k].str \in Seq(Nat)
<1>1. log[k] \in Entries
  OBVIOUS
<1>2. QED
  BY <1>1 DEF Entries, Shape

\* A write of v has returned.
Logged(v) == \E k \in DOMAIN log : log[k].var = v

\* The shapes of the writes of v that returned.
Shapes(v) == {log[k].ext : k \in {k \in DOMAIN log : log[k].var = v}}

\* All of them have rank r.
Ranked(v, r) == \A s \in Shapes(v) : Len(s) = r

\* One rank, if there is one of rank r, is rank r.
LEMMA RankedFacts ==
  ASSUME NEW v, OneRank(v), NEW r, \E s \in Shapes(v) : Len(s) = r
  PROVE  Ranked(v, r)
BY DEF OneRank, Ranked, Shapes

\* What a step that logs nothing leaves of the log of v.
LogKept(v) ==
  /\ Logged(v)' <=> Logged(v)
  /\ Shapes(v)' = Shapes(v)
  /\ RowMajorOnly(v)' => RowMajorOnly(v)
  /\ \A i : LastWritten(v, i)' = LastWritten(v, i)

\* All of it.
LEMMA LogUnchanged ==
  ASSUME log' = log
  PROVE  \A v : LogKept(v)
BY DEF LogKept, Logged, Shapes, RowMajorOnly, RowMajorLayout, ActualStrides, LastWritten

\* The shapes written are shapes.
LEMMA ShapesFacts ==
  ASSUME log \in Seq(Entries), NEW v, NEW s \in Shapes(v)
  PROVE  Shape(s) /\ Logged(v)
<1>1. PICK k \in DOMAIN log : log[k].var = v /\ log[k].ext = s
  BY DEF Shapes
<1>2. QED
  BY <1>1, EntryFacts DEF Logged

\* The write that returns is the last one of its elements, and of no others.
LEMMA LastWrittenFacts ==
  ASSUME log \in Seq(Entries), NEW v \in Vars, NEW n \in Nat, NEW l, IsLayout(l),
         Returned(v, n, l), NEW u, NEW i
  PROVE  LastWritten(u, i)' = IF u = v /\ i \in Cells(l.ext) THEN <<n, i>> ELSE LastWritten(u, i)
<1> DEFINE S == {k \in DOMAIN log : log[k].var = u /\ i \in Cells(log[k].ext)}
           T == {k \in DOMAIN log' : log'[k].var = u /\ i \in Cells(log'[k].ext)}
<1> PICK z : z = Len(log) + 1
  OBVIOUS
<1>1. /\ Len(log) \in Nat /\ DOMAIN log = 1 .. Len(log) /\ DOMAIN log' = 1 .. z
      /\ \A k \in DOMAIN log : k \in DOMAIN log' /\ log'[k] = log[k]
      /\ log'[z].var = v /\ log'[z].n = n /\ log'[z].ext = l.ext /\ z \in DOMAIN log'
      /\ \A k \in DOMAIN log' : k \in DOMAIN log \/ k = z
      /\ z \notin DOMAIN log /\ z \in Nat
  <2>1. /\ Len(log) \in Nat /\ DOMAIN log = 1 .. Len(log) /\ DOMAIN log' = 1 .. z
        /\ \A k \in DOMAIN log : k \in DOMAIN log' /\ log'[k] = log[k]
        /\ log'[z] = [var |-> v, n |-> n, ext |-> l.ext, str |-> l.str]
        /\ \A k \in DOMAIN log' : k \in DOMAIN log \/ k = z
    BY ReturnedFacts
  <2>2. log'[z].var = v /\ log'[z].n = n /\ log'[z].ext = l.ext
    BY <2>1
  <2>3. z \in Nat /\ z \in 1 .. z /\ z \notin 1 .. Len(log)
    BY <2>1
  <2>4. QED
    BY <2>1, <2>2, <2>3
<1>2. LastWritten(u, i) = IF S = {} THEN Fill ELSE <<log[Max(S)].n, i>>
  BY DEF LastWritten
<1>3. LastWritten(u, i)' = IF T = {} THEN Fill ELSE <<log'[Max(T)].n, i>>
  BY DEF LastWritten
<1>4. CASE u = v /\ i \in Cells(l.ext)
  <2>1. z \in T /\ T \in SUBSET Nat /\ \A y \in T : y <= z
    <3>1. \A y \in 1 .. z : y \in Nat /\ y <= z
      BY <1>1
    <3>2. QED
      BY <1>1, <1>4, <3>1
  <2>2. Max(T) \in T /\ \A y \in T : y <= Max(T)
    <3> HIDE DEF T
    <3>1. QED
      BY <1>1, <2>1, MaxOfBounded
  <2>3. Max(T) = z
    <3> DEFINE m == Max(T)
    <3> HIDE DEF T
    <3>1. m \in Nat /\ m <= z /\ z <= m
      BY <2>1, <2>2
    <3> HIDE DEF m
    <3>2. m = z
      BY <1>1, <3>1
    <3>3. QED
      BY <3>2 DEF m
  <2>4. QED
    BY <1>1, <1>3, <1>4, <2>1, <2>3
<1>5. CASE ~(u = v /\ i \in Cells(l.ext))
  <2>1. T = S
    BY <1>1, <1>5
  <2>2. CASE S = {}
    BY <1>2, <1>3, <1>5, <2>1, <2>2
  <2>3. CASE S # {}
    <3>1. S \in SUBSET Nat /\ \A y \in S : y <= z
      BY <1>1
    <3>2. Max(S) \in S
      <4> HIDE DEF S
      <4>1. QED
        BY <1>1, <2>3, <3>1, MaxOfBounded
    <3>3. log'[Max(S)] = log[Max(S)]
      BY <1>1, <3>2
    <3> HIDE DEF S, T
    <3>4. QED
      BY <1>2, <1>3, <1>5, <2>1, <2>3, <3>3
  <2>4. QED
    BY <2>2, <2>3
<1>6. QED
  BY <1>4, <1>5

\* What else the log says after it.
LEMMA LoggedFacts ==
  ASSUME log \in Seq(Entries), NEW v \in Vars, NEW n \in Nat, NEW l, IsLayout(l),
         Returned(v, n, l)
  PROVE  /\ \A u : Logged(u)' <=> (Logged(u) \/ u = v)
         /\ \A u : RowMajorOnly(u)' => RowMajorOnly(u)
         /\ RowMajorOnly(v)' => RowMajorLayout(l)
         /\ Shapes(v)' = Shapes(v) \cup {l.ext}
         /\ \A u : u # v => LogKept(u)
<1> PICK z : z = Len(log) + 1
  OBVIOUS
<1>1. /\ \A k \in DOMAIN log : k \in DOMAIN log' /\ log'[k] = log[k]
      /\ log'[z] = [var |-> v, n |-> n, ext |-> l.ext, str |-> l.str] /\ z \in DOMAIN log'
      /\ \A k \in DOMAIN log' : k \in DOMAIN log \/ k = z
  BY ReturnedFacts
<1>2. log'[z].var = v /\ log'[z].ext = l.ext /\ log'[z].str = l.str
  BY <1>1
<1>3. \A u : Logged(u)' <=> (Logged(u) \/ u = v)
  BY <1>1, <1>2 DEF Logged
<1>4. ASSUME NEW u, RowMajorOnly(u)' PROVE RowMajorOnly(u)
  <2>1. \A k \in DOMAIN log' : log'[k].var = u => ActualStrides(log'[k]) = RowMajorStrides(log'[k].ext)
    BY <1>4 DEF RowMajorOnly, RowMajorLayout
  <2>2. QED
    BY <1>1, <2>1 DEF RowMajorOnly, RowMajorLayout
<1>5. ASSUME RowMajorOnly(v)' PROVE RowMajorLayout(l)
  <2>1. RowMajorLayout(log'[z])
    BY <1>1, <1>2, <1>5 DEF RowMajorOnly
  <2>2. QED
    BY <1>2, <2>1 DEF RowMajorLayout, ActualStrides
<1>6. Shapes(v)' = Shapes(v) \cup {l.ext}
  BY <1>1, <1>2 DEF Shapes
<1>7. ASSUME NEW u, u # v PROVE LogKept(u)
  <2>1. Shapes(u)' = Shapes(u)
    BY <1>1, <1>2, <1>7 DEF Shapes
  <2>2. \A i : LastWritten(u, i)' = LastWritten(u, i)
    BY <1>7, LastWrittenFacts
  <2>3. QED
    BY <1>3, <1>4, <1>7, <2>1, <2>2 DEF LogKept
<1>8. QED
  BY <1>3, <1>4, <1>5, <1>6, <1>7

-----------------------------------------------------------------------------
(* Zarr.                                                                   *)

\* Index i of the array holds what the write n of layout l put there.
ZarrHas(i, l, n) ==
  IF RowMajorLayout(l) THEN file.cells[i] = <<n, ZA!SourceIndex(i, l.ext)>>
  ELSE file.cells[i] = Junk \/ file.cells[i][1] = n

\* The whole chunk of index i does.
ZarrChunkHas(i, l, n) ==
  \A j \in DOMAIN file.cells : ZA!Chunk(j) = ZA!Chunk(i) => ZarrHas(j, l, n)

\* An array that exists has a value for each of its elements.
ZarrFile ==
  /\ DOMAIN file = {"exists", "shape", "chunk", "cells"} /\ Shape(file.shape)
  /\ file.cells = [i \in Cells(file.shape) |-> file.cells[i]]

\* A running callback is between two commits, of a field that fits the array.
ZarrCallback(v) ==
  /\ DOMAIN cb[v] = {"step", "n", "lay", "left"} /\ cb[v].step = "commit"
  /\ cb[v].n \in Nat /\ cb[v].lay \in Layouts[v]
  /\ ZA!Broadcasts(cb[v].lay.ext, file.shape)

\* Which sessions, arrays and callbacks there can be together.
ZarrControl ==
  /\ drv.write => drv.open /\ file.exists
  /\ file.exists => ZarrFile
  /\ ~drv.write => \A v \in Vars : cb[v] = Idle
  /\ drv.open /\ ~drv.write => file.exists /\ log # <<>>
  /\ started = 0 => log = <<>> /\ \A v \in Vars : cb[v] = Idle
  /\ \A v \in Vars : cb[v] # Idle => ZarrCallback(v)

\* A chunk is whole: nobody has written it yet, or it is what the last callback
\* to commit it put there, and that callback is still running or has returned
\* and no later one of its variable has committed the chunk.
ZarrWhole(i) ==
  \/ log = <<>> /\ \A v \in Vars : cb[v] # Idle => ZA!Chunk(i) \in cb[v].left
  \/ \E v \in Vars : /\ cb[v] # Idle /\ ZA!Chunk(i) \notin cb[v].left
                     /\ ZarrChunkHas(i, cb[v].lay, cb[v].n)
  \/ \E w \in LatestWrites :
       /\ cb[log[w].var] = Idle \/ ZA!Chunk(i) \in cb[log[w].var].left
       /\ ZarrChunkHas(i, log[w], log[w].n)

\* The inductive invariant of the Zarr driver.
ZarrInv ==
  /\ CommonType /\ ZarrControl
  /\ file.exists /\ threw = {} => \A i \in DOMAIN file.cells : ZarrWhole(i)

\* The instance of the driver works with the shapes and steps of BackendDriver.
LEMMA ZarrNames ==
  /\ \A s : ZA!Dims(s) = Dims(s)
  /\ \A s : ZA!RowMajorStrides(s) = RowMajorStrides(s)
  /\ \A s : ZA!Size(s) = Size(s)
  /\ \A i, s : ZA!Offset(i, s) = Offset(i, s)
  /\ \A k, s : ZA!IndexAt(k, s) = IndexAt(k, s)
  /\ \A s : ZA!Cells(s) = Cells(s)
  /\ \A l, n : ZA!Snapshot(l, n) = Snapshot(l, n)
  /\ \A s : ZA!Boxes(s) = Boxes(s)
  /\ \A s : ZA!FullBox(s) = FullBox(s)
  /\ ZA!Idle = Idle /\ ZA!NotFound = NotFound /\ ZA!Fill = Fill
  /\ \A s, k : ZA!Found(s, k) = Found(s, k)
<1> USE DEF Dims, ZA!Dims, RowMajorStrides, ZA!RowMajorStrides
<1>1. \A s : ZA!Dims(s) = Dims(s) /\ ZA!RowMajorStrides(s) = RowMajorStrides(s)
  OBVIOUS
<1>2. \A s : ZA!Size(s) = Size(s)
  BY DEF Size, ZA!Size
<1>3. \A i, s : ZA!Offset(i, s) = Offset(i, s)
  BY DEF Offset, ZA!Offset
<1>4. \A k, s : ZA!IndexAt(k, s) = IndexAt(k, s)
  BY DEF IndexAt, ZA!IndexAt
<1>5. \A s : ZA!Cells(s) = Cells(s)
  BY DEF Cells, ZA!Cells, Size, ZA!Size, IndexAt, ZA!IndexAt
<1>6. \A l, n : ZA!Snapshot(l, n) = Snapshot(l, n)
  BY DEF Snapshot, ZA!Snapshot, Cells, ZA!Cells, Size, ZA!Size, IndexAt, ZA!IndexAt,
         ActualStrides, ZA!ActualStrides, Offset, ZA!Offset, Junk, ZA!Junk
<1>7. \A s : ZA!Boxes(s) = Boxes(s)
  BY DEF Boxes, ZA!Boxes, Max, ZA!Max
<1>8. \A s : ZA!FullBox(s) = FullBox(s)
  BY DEF FullBox, ZA!FullBox
<1>9. ZA!Idle = Idle /\ ZA!NotFound = NotFound /\ ZA!Fill = Fill
  BY DEF Idle, ZA!Idle, NotFound, ZA!NotFound, Fill, ZA!Fill
<1>10. \A s, k : ZA!Found(s, k) = Found(s, k)
  BY DEF Found, ZA!Found
<1>11. QED
  BY <1>1, <1>2, <1>3, <1>4, <1>5, <1>6, <1>7, <1>8, <1>9, <1>10, Zenon

\* An element of the array is supplied by an element of a field that broadcasts.
LEMMA ZarrSource ==
  ASSUME NEW shape, Shape(shape), NEW ext, Shape(ext), ZA!Broadcasts(ext, shape),
         NEW i \in Cells(shape)
  PROVE  ZA!SourceIndex(i, ext) \in Cells(ext)
<1> DEFINE s == ZA!SourceIndex(i, ext)
<1>1. /\ Len(shape) \in Nat /\ Dims(shape) = 1 .. Len(shape)
      /\ \A d \in Dims(shape) : shape[d] \in Nat \ {0}
      /\ Len(ext) \in Nat /\ Dims(ext) = 1 .. Len(ext)
      /\ \A d \in Dims(ext) : ext[d] \in Nat \ {0}
  BY ShapeFacts
<1>2. i \in [Dims(shape) -> Nat] /\ \A d \in Dims(shape) : i[d] < shape[d]
  BY CellsAre DEF Bounded
<1>3. Len(i) = Len(shape)
  BY <1>1, <1>2
<1>4. s = [d \in Dims(ext) |-> IF ext[d] = 1 THEN 0 ELSE i[d + (Len(shape) - Len(ext))]]
  BY <1>3, ZarrNames DEF ZA!SourceIndex
<1>5. ASSUME NEW d \in Dims(ext) PROVE s[d] \in Nat /\ s[d] < ext[d]
  <2>1. CASE ext[d] = 1
    BY <1>4, <2>1
  <2>2. CASE ext[d] # 1
    <3> DEFINE e == d + (Len(shape) - Len(ext))
    <3>1. e >= 1 /\ ext[d] = shape[e]
      BY <2>2, ZarrNames DEF ZA!Broadcasts
    <3>2. e \in Dims(shape)
      BY <1>1, <3>1
    <3>3. s[d] = i[e]
      BY <1>4, <2>2
    <3>4. QED
      BY <1>2, <3>1, <3>2, <3>3
  <2>3. QED
    BY <2>1, <2>2
<1>6. s \in Bounded(ext)
  BY <1>4, <1>5 DEF Bounded
<1>7. QED
  BY <1>6, CellsAre

\* The dataset as it is before it is opened.
LEMMA ZarrInit ==
  ASSUME Init, backend = "zarr"
  PROVE  ZarrInv
<1>1. ZA!Init
  BY DEF Init
<1>2. drv.open = FALSE /\ drv.write = FALSE /\ file.exists = FALSE
  BY <1>1 DEF ZA!Init, ZA!Closed, ZA!NoFile
<1>3. cb = [v \in Vars |-> Idle] /\ started = 0 /\ log = <<>>
  BY DEF Init
<1>4. log \in Seq(Entries)
  BY <1>3
<1>5. QED
  BY <1>2, <1>3, <1>4 DEF ZarrInv, CommonType, ZarrControl

\* Opening.
LEMMA ZarrOpenWrite ==
  ASSUME ZarrInv, NEW m \in ZA!Manifests, ZA!open_write(m)
  PROVE  ZarrInv'
<1>1. /\ started = 0 /\ log' = log /\ cb' = cb /\ started' = started /\ threw' = threw
      /\ ~drv.open
  BY DEF ZA!open_write, ZA!NoTransfer
<1>2. CommonType' /\ log' = <<>> /\ \A v \in Vars : cb'[v] = Idle
  BY <1>1 DEF ZarrInv, ZarrControl, CommonType
<1>3. CASE UNCHANGED <<drv, file>>
  BY <1>1, <1>3 DEF ZarrInv, ZarrControl, ZarrFile, ZarrCallback, CommonType, ZarrWhole,
     LatestWrites, ZarrChunkHas, ZarrHas, ZA!Chunk
<1>4. CASE /\ file' = [exists |-> TRUE, shape |-> m.array_shape, chunk |-> m.chunk_shape,
                       cells |-> [i \in ZA!Cells(m.array_shape) |-> ZA!Fill]]
           /\ drv' = [open |-> TRUE, write |-> TRUE]
  <2>1. Shape(m.array_shape)
    <3>1. m.array_shape \in ArrayShapes
      BY DEF ZA!Manifests
    <3>2. QED
      BY <3>1, ZarrAssumption DEF Shape
  <2>2. ZarrFile' /\ file'.exists
    BY <1>4, <2>1, ZarrNames DEF ZarrFile
  <2>3. ZarrControl'
    BY <1>2, <1>4, <2>2 DEF ZarrControl
  <2>4. \A i \in DOMAIN file'.cells : ZarrWhole(i)'
    BY <1>2 DEF ZarrWhole
  <2>5. QED
    BY <1>2, <2>3, <2>4 DEF ZarrInv
<1>5. QED
  BY <1>3, <1>4 DEF ZA!open_write

\* What leaves the store, the callbacks and the log alone keeps the invariant.
LEMMA ZarrNoTransfer ==
  ASSUME ZarrInv, UNCHANGED <<file, cb, started, log, threw>>,
         drv'.write => drv.write,
         drv'.write => drv'.open,
         drv.write /\ ~drv'.write => \A v \in Vars : cb[v] = Idle,
         drv'.open /\ ~drv'.write => file.exists /\ log # <<>>
  PROVE  ZarrInv'
<1>1. CommonType'
  BY DEF ZarrInv, CommonType
<1>2. ZarrFile' = ZarrFile /\ \A v \in Vars : ZarrCallback(v)' = ZarrCallback(v)
  BY DEF ZarrFile, ZarrCallback
<1>3. ZarrControl'
  BY <1>2 DEF ZarrInv, ZarrControl
<1>4. \A i : ZarrWhole(i)' = ZarrWhole(i)
  BY DEF ZarrWhole, LatestWrites, ZarrChunkHas, ZarrHas, ZA!Chunk
<1>5. QED
  BY <1>1, <1>3, <1>4 DEF ZarrInv

\* A callback starts: nothing of the store is its own yet.
LEMMA ZarrBegin ==
  ASSUME ZarrInv, NEW v \in Vars, NEW l \in Layouts[v], ZA!begin_write(v, l)
  PROVE  ZarrInv'
<1>1. /\ drv.open /\ drv.write /\ cb[v] = Idle
      /\ started' = started + 1 /\ UNCHANGED <<drv, file, log>>
  BY ZarrNames DEF ZA!begin_write
<1>2. /\ CommonType /\ ZarrControl /\ DOMAIN cb = Vars /\ started \in Nat
      /\ file.exists /\ ZarrFile /\ DOMAIN file.cells = Cells(file.shape)
  BY <1>1 DEF ZarrInv, CommonType, ZarrControl, ZarrFile
<1>3. ZarrFile'
  BY <1>1, <1>2 DEF ZarrFile
<1>4. CASE /\ ZA!Broadcasts(l.ext, file.shape)
           /\ cb' = [cb EXCEPT ![v] = [step |-> "commit", n |-> started', lay |-> l,
                                       left |-> {ZA!Chunk(i) : i \in ZA!Cells(file.shape)}]]
           /\ threw' = threw
  <2>1. /\ DOMAIN cb' = Vars /\ \A u \in Vars : u # v => cb'[u] = cb[u]
        /\ cb'[v] = [step |-> "commit", n |-> started', lay |-> l,
                     left |-> {ZA!Chunk(i) : i \in Cells(file.shape)}]
    BY <1>2, <1>4, ZarrNames
  <2>2. cb'[v].step = "commit" /\ cb'[v] # Idle
    BY <2>1 DEF Idle
  <2>3. CommonType' /\ started' # 0
    BY <1>1, <1>2, <2>1 DEF CommonType
  <2>4. \A i \in Cells(file.shape) : ZA!Chunk(i) \in cb'[v].left
    BY <2>1
  <2>5. ZarrCallback(v)'
    BY <1>1, <1>2, <1>4, <2>1, <2>3 DEF ZarrCallback, CommonType
  <2>6. \A u \in Vars : cb'[u] # Idle => ZarrCallback(u)'
    BY <1>1, <1>2, <2>1, <2>5 DEF ZarrControl, ZarrCallback
  <2>7. ZarrControl'
    BY <1>1, <1>2, <1>3, <2>3, <2>6 DEF ZarrControl
  <2>8. ASSUME NEW i \in DOMAIN file.cells, ZarrWhole(i) PROVE ZarrWhole(i)'
    <3>1. /\ ZA!Chunk(i)' = ZA!Chunk(i) /\ LatestWrites' = LatestWrites
          /\ \A k, n : ZarrChunkHas(i, k, n)' = ZarrChunkHas(i, k, n)
      BY <1>1 DEF ZA!Chunk, LatestWrites, ZarrChunkHas, ZarrHas
    <3>2. ZA!Chunk(i) \in cb'[v].left
      BY <1>2, <2>4
    <3>3. CASE log = <<>> /\ \A u \in Vars : cb[u] # Idle => ZA!Chunk(i) \in cb[u].left
      BY <1>1, <2>1, <3>1, <3>2, <3>3 DEF ZarrWhole
    <3>4. CASE \E u \in Vars : /\ cb[u] # Idle /\ ZA!Chunk(i) \notin cb[u].left
                               /\ ZarrChunkHas(i, cb[u].lay, cb[u].n)
      BY <1>1, <2>1, <3>1, <3>4 DEF ZarrWhole
    <3>5. CASE \E w \in LatestWrites :
                 /\ cb[log[w].var] = Idle \/ ZA!Chunk(i) \in cb[log[w].var].left
                 /\ ZarrChunkHas(i, log[w], log[w].n)
      <4>1. PICK w \in LatestWrites :
                 /\ cb[log[w].var] = Idle \/ ZA!Chunk(i) \in cb[log[w].var].left
                 /\ ZarrChunkHas(i, log[w], log[w].n)
        BY <3>5
      <4>2. log[w].var \in Vars
        BY <1>2, EntryFacts DEF LatestWrites, CommonType
      <4>3. cb'[log[w].var] = Idle \/ ZA!Chunk(i) \in cb'[log[w].var].left
        BY <2>1, <3>2, <4>1, <4>2
      <4>4. QED
        BY <1>1, <3>1, <4>1, <4>3 DEF ZarrWhole
    <3>6. QED
      BY <2>8, <3>3, <3>4, <3>5 DEF ZarrWhole
  <2>9. QED
    BY <1>1, <1>4, <2>3, <2>7, <2>8 DEF ZarrInv
<1>5. CASE threw' = threw \cup {v} /\ UNCHANGED cb
  <2>1. CommonType' /\ started' # 0 /\ threw' # {}
    BY <1>1, <1>2, <1>5 DEF CommonType
  <2>2. \A u \in Vars : cb'[u] # Idle => ZarrCallback(u)'
    BY <1>1, <1>2, <1>5 DEF ZarrControl, ZarrCallback
  <2>3. ZarrControl'
    BY <1>1, <1>2, <1>3, <1>5, <2>1, <2>2 DEF ZarrControl
  <2>4. QED
    BY <2>1, <2>3 DEF ZarrInv
<1>6. QED
  BY <1>4, <1>5, ZarrNames DEF ZA!begin_write

\* A chunk reaches the store whole.
LEMMA ZarrCommit ==
  ASSUME ZarrInv, NEW v \in Vars, cb[v] # Idle, NEW c \in cb[v].left, ZA!commit(v, c)
  PROVE  ZarrInv'
<1> DEFINE l == cb[v].lay
           n == cb[v].n
           element(i) == Snapshot(l, n)[Offset(ZA!SourceIndex(i, l.ext),
                                               RowMajorStrides(l.ext)) + 1]
<1>1. /\ UNCHANGED <<drv, started, log, threw>>
      /\ cb' = [cb EXCEPT ![v].left = @ \ {c}]
      /\ file' = [file EXCEPT !.cells = [i \in DOMAIN @ |-> IF ZA!Chunk(i) = c THEN element(i)
                                                            ELSE @[i]]]
  BY ZarrNames DEF ZA!commit
<1>2. /\ CommonType /\ ZarrControl /\ DOMAIN cb = Vars /\ drv.write /\ ZarrCallback(v)
      /\ file.exists /\ ZarrFile /\ DOMAIN file.cells = Cells(file.shape)
  BY DEF ZarrInv, CommonType, ZarrControl, ZarrFile
<1>3. /\ DOMAIN file' = DOMAIN file /\ file'.exists = file.exists
      /\ file'.shape = file.shape /\ file'.chunk = file.chunk
      /\ file'.cells = [i \in DOMAIN file.cells |-> IF ZA!Chunk(i) = c THEN element(i)
                                                    ELSE file.cells[i]]
  BY <1>1, <1>2 DEF ZarrFile
<1>4. /\ DOMAIN cb' = Vars /\ \A u \in Vars : u # v => cb'[u] = cb[u]
      /\ DOMAIN cb'[v] = DOMAIN cb[v] /\ cb'[v].step = "commit" /\ cb'[v].n = n
      /\ cb'[v].lay = l /\ cb'[v].left = cb[v].left \ {c}
  BY <1>1, <1>2 DEF ZarrCallback
<1>5. cb'[v] # Idle
  BY <1>4 DEF Idle
<1>6. CommonType'
  BY <1>1, <1>2, <1>4 DEF CommonType
<1>7. ZarrFile'
  <2>1. file'.cells = [i \in Cells(file'.shape) |-> file'.cells[i]]
    BY <1>2, <1>3
  <2>2. QED
    BY <1>2, <1>3, <2>1 DEF ZarrFile
<1>8. \A u \in Vars : cb'[u] # Idle => ZarrCallback(u)'
  BY <1>2, <1>3, <1>4 DEF ZarrControl, ZarrCallback
<1>9. ZarrControl'
  BY <1>1, <1>2, <1>3, <1>4, <1>7, <1>8 DEF ZarrControl
<1>10. \A i : ZA!Chunk(i)' = ZA!Chunk(i)
  BY <1>3 DEF ZA!Chunk
<1>11. ASSUME NEW i \in DOMAIN file.cells, ZA!Chunk(i) = c PROVE ZarrWhole(i)'
  <2>1. ASSUME NEW j \in DOMAIN file.cells, ZA!Chunk(j) = c PROVE ZarrHas(j, l, n)'
    <3> DEFINE s == ZA!SourceIndex(j, l.ext)
    <3>1. file'.cells[j] = element(j)
      BY <1>3, <2>1
    <3>2. Shape(l.ext) /\ Shape(file.shape)
      BY <1>2, LayoutFacts DEF ZarrCallback, IsLayout, ZarrFile
    <3>3. s \in Cells(l.ext)
      BY <1>2, <3>2, ZarrSource DEF ZarrCallback
    <3>4. l' = l /\ n' = n /\ RowMajorLayout(l)' = RowMajorLayout(l)
      BY <1>4 DEF RowMajorLayout, ActualStrides
    <3>5. ZarrHas(j, l, n)' = IF RowMajorLayout(l) THEN file'.cells[j] = <<n, s>>
                              ELSE file'.cells[j] = Junk \/ file'.cells[j][1] = n
      BY <3>4 DEF ZarrHas
    <3> HIDE DEF s, l, n
    <3>6. CASE RowMajorLayout(l)
      <4>1. Snapshot(l, n)[Offset(s, RowMajorStrides(l.ext)) + 1] = <<n, s>>
        BY <3>2, <3>3, <3>6, SnapshotRowMajor
      <4>2. QED
        BY <3>1, <3>6, <3>5, <4>1 DEF s
    <3>7. CASE ~RowMajorLayout(l)
      <4>1. Offset(s, RowMajorStrides(l.ext)) + 1 \in 1 .. Size(l.ext)
        BY <3>2, <3>3, CellsAre, IndexAtOfOffset, StridesPositive
      <4>2. element(j) = Junk \/ element(j)[1] = n
        BY <4>1, SnapshotElement DEF s
      <4>3. QED
        BY <3>1, <3>7, <3>5, <4>2
    <3>8. QED
      BY <3>6, <3>7
  <2>2. ZarrChunkHas(i, l, n)'
    BY <1>3, <1>10, <1>11, <2>1 DEF ZarrChunkHas
  <2>3. ZA!Chunk(i)' \notin cb'[v].left
    BY <1>4, <1>10, <1>11
  <2>4. ZarrChunkHas(i, cb[v].lay, cb[v].n)'
    BY <1>4, <2>2
  <2>5. QED
    BY <1>5, <2>3, <2>4 DEF ZarrWhole
<1>12. ASSUME NEW i \in DOMAIN file.cells, ZA!Chunk(i) # c, ZarrWhole(i) PROVE ZarrWhole(i)'
  <2>1. \A k, m : ZarrChunkHas(i, k, m)' = ZarrChunkHas(i, k, m)
    <3>1. \A j \in DOMAIN file.cells : ZA!Chunk(j) = ZA!Chunk(i) => file'.cells[j] = file.cells[j]
      BY <1>3, <1>12
    <3>2. ASSUME NEW k, NEW m, NEW j \in DOMAIN file.cells, ZA!Chunk(j) = ZA!Chunk(i)
          PROVE  ZarrHas(j, k, m)' = ZarrHas(j, k, m)
      BY <3>1, <3>2 DEF ZarrHas
    <3>3. QED
      BY <1>3, <1>10, <3>2 DEF ZarrChunkHas
  <2>2. \A u \in Vars : /\ (cb'[u] = Idle) = (cb[u] = Idle)
                        /\ cb[u] # Idle => /\ cb'[u].lay = cb[u].lay /\ cb'[u].n = cb[u].n
                                           /\ (ZA!Chunk(i) \in cb'[u].left)
                                              = (ZA!Chunk(i) \in cb[u].left)
    BY <1>4, <1>5, <1>12
  <2>3. LatestWrites' = LatestWrites
    BY <1>1 DEF LatestWrites
  <2>4. \A w \in LatestWrites : log[w].var \in Vars
    BY <1>2, EntryFacts DEF LatestWrites, CommonType
  <2>5. QED
    BY <1>1, <1>10, <1>12, <2>1, <2>2, <2>3, <2>4 DEF ZarrWhole
<1>13. QED
  BY <1>1, <1>3, <1>6, <1>9, <1>11, <1>12 DEF ZarrInv

\* The future is done: the write that returns is the last of its variable, and
\* the chunks that were its callback's are its own.
LEMMA ZarrFinish ==
  ASSUME ZarrInv, NEW v \in Vars, ZA!finish(v)
  PROVE  ZarrInv'
<1>1. cb[v] # Idle /\ cb' = [cb EXCEPT ![v] = Idle] /\ UNCHANGED <<drv, file, started>>
  BY ZarrNames DEF ZA!finish
<1>2. /\ CommonType /\ ZarrControl /\ DOMAIN cb = Vars /\ drv.write /\ ZarrCallback(v)
      /\ file.exists /\ ZarrFile /\ started # 0 /\ log \in Seq(Entries)
  BY <1>1 DEF ZarrInv, CommonType, ZarrControl
<1>3. DOMAIN cb' = Vars /\ cb'[v] = Idle /\ \A u \in Vars : u # v => cb'[u] = cb[u]
  BY <1>1, <1>2
<1>4. IsLayout(cb[v].lay) /\ cb[v].n \in Nat
  BY <1>2, LayoutFacts DEF ZarrCallback
<1>5. ZarrFile' /\ \A u \in Vars : cb'[u] # Idle => ZarrCallback(u)'
  BY <1>1, <1>2, <1>3 DEF ZarrControl, ZarrFile, ZarrCallback
<1>6. ASSUME log' \in Seq(Entries) PROVE CommonType' /\ ZarrControl'
  BY <1>1, <1>2, <1>3, <1>5, <1>6 DEF CommonType, ZarrControl
<1>7. CASE cb[v].left = {} /\ Returned(v, cb[v].n, cb[v].lay) /\ UNCHANGED threw
  <2> DEFINE e == [var |-> v, n |-> cb[v].n, ext |-> cb[v].lay.ext, str |-> cb[v].lay.str]
  <2> PICK z : z = Len(log) + 1
    OBVIOUS
  <2>1. /\ log' \in Seq(Entries) /\ log' # <<>> /\ Len(log) \in Nat
        /\ DOMAIN log = 1 .. Len(log) /\ DOMAIN log' = 1 .. z
        /\ \A k \in DOMAIN log : k \in DOMAIN log' /\ log'[k] = log[k]
        /\ log'[z] = e
        /\ \A k \in DOMAIN log' : k \in DOMAIN log \/ k = z
    BY <1>2, <1>4, <1>7, ReturnedFacts
  <2>2. z \in LatestWrites' /\ log'[z].var = v
    BY <2>1 DEF LatestWrites
  <2>3. \A w \in LatestWrites : log[w].var # v => w \in LatestWrites' /\ log'[w] = log[w]
    BY <2>1 DEF LatestWrites
  <2>4. ASSUME NEW i \in DOMAIN file.cells, ZarrWhole(i) PROVE ZarrWhole(i)'
    <3>1. ZA!Chunk(i)' = ZA!Chunk(i) /\ \A k, n : ZarrChunkHas(i, k, n)' = ZarrChunkHas(i, k, n)
      BY <1>1 DEF ZA!Chunk, ZarrChunkHas, ZarrHas
    <3>2. CASE log = <<>> /\ \A u \in Vars : cb[u] # Idle => ZA!Chunk(i) \in cb[u].left
      BY <1>1, <1>7, <3>2
    <3>3. ASSUME NEW u \in Vars, cb[u] # Idle, ZA!Chunk(i) \notin cb[u].left,
                 ZarrChunkHas(i, cb[u].lay, cb[u].n)
          PROVE  ZarrWhole(i)'
      <4>1. CASE u # v
        <5>1. cb'[u] = cb[u]
          BY <1>3, <4>1
        <5>2. cb'[u] # Idle /\ ZA!Chunk(i)' \notin cb'[u].left
          BY <3>1, <3>3, <5>1
        <5>3. ZarrChunkHas(i, cb[u].lay, cb[u].n)'
          BY <3>1, <3>3, <5>1
        <5>4. QED
          BY <5>2, <5>3 DEF ZarrWhole
      <4>2. CASE u = v
        <5>1. RowMajorLayout(e) = RowMajorLayout(cb[v].lay) /\ e.ext = cb[v].lay.ext
              /\ e.n = cb[v].n
          BY DEF RowMajorLayout, ActualStrides
        <5>2. ZarrChunkHas(i, e, e.n)
          BY <3>3, <4>2, <5>1 DEF ZarrChunkHas, ZarrHas
        <5>3. cb'[log'[z].var] = Idle
          BY <1>3, <2>2
        <5> DEFINE r == log'[z]
        <5>4. ZarrChunkHas(i, r, r.n)
          BY <2>1, <5>2
        <5> HIDE DEF r
        <5>5. \A k : ZarrChunkHas(i, k, k.n) => \A j \in DOMAIN file'.cells :
                ZA!Chunk(j)' = ZA!Chunk(i)' =>
                  IF RowMajorLayout(k) THEN file'.cells[j] = <<k.n, ZA!SourceIndex(j, k.ext)>>
                  ELSE file'.cells[j] = Junk \/ file'.cells[j][1] = k.n
          BY <1>1 DEF ZA!Chunk, ZarrChunkHas, ZarrHas
        <5>6. ZarrChunkHas(i, log[z], log[z].n)'
          BY <5>4, <5>5 DEF r, ZarrChunkHas, ZarrHas, RowMajorLayout, ActualStrides
        <5>7. QED
          BY <2>2, <5>3, <5>6 DEF ZarrWhole
      <4>3. QED
        BY <4>1, <4>2
    <3>4. ASSUME NEW w \in LatestWrites, ZarrChunkHas(i, log[w], log[w].n),
                 cb[log[w].var] = Idle \/ ZA!Chunk(i) \in cb[log[w].var].left
          PROVE  ZarrWhole(i)'
      <4>1. log[w].var # v
        BY <1>1, <1>7, <3>4
      <4>2. w \in LatestWrites' /\ log'[w] = log[w] /\ log[w].var \in Vars
        BY <1>2, <2>3, <4>1, EntryFacts DEF LatestWrites
      <4>3. cb'[log'[w].var] = cb[log[w].var]
        BY <1>3, <4>1, <4>2
      <4>4. ZarrChunkHas(i, log[w], log[w].n)'
        BY <1>1, <3>4, <4>2 DEF ZA!Chunk, ZarrChunkHas, ZarrHas
      <4>5. QED
        BY <3>1, <3>4, <4>2, <4>3, <4>4 DEF ZarrWhole
    <3>5. QED
      BY <2>4, <3>2, <3>3, <3>4 DEF ZarrWhole
  <2>5. QED
    BY <1>1, <1>6, <1>7, <2>1, <2>4 DEF ZarrInv
<1>8. CASE threw' = threw \cup {v} /\ UNCHANGED log
  <2>1. threw' # {}
    BY <1>8
  <2>2. QED
    BY <1>2, <1>6, <1>8, <2>1 DEF ZarrInv
<1>9. QED
  BY <1>7, <1>8 DEF ZA!finish, ZA!Returned, Returned

\* What TensorStore reads for index i of a selection.
ZarrStored(cut, i) ==
  [d \in DOMAIN cut |-> cut[d].off
                        + ZA!SourceIndex(i, [e \in DOMAIN cut |-> cut[e].ext])[d] * cut[d].str]

\* A selection of the rank of the store delivers the element its box names.
LEMMA ZarrAligned ==
  ASSUME Shape(file.shape), NEW b, Shape(b.ext), Len(b.ext) = Len(file.shape),
         \A d \in Dims(file.shape) : b.off[d] \in Nat /\ b.str[d] \in Nat,
         NEW i \in Bounded(b.ext)
  PROVE  ZarrStored(ZA!Cut(b), i) = [d \in Dims(b.ext) |-> b.off[d] + i[d] * b.str[d]]
<1> DEFINE cut == ZA!Cut(b)
           source == [d \in DOMAIN cut |-> cut[d].ext]
           N == 1 .. Len(b.ext)
<1>1. /\ Len(b.ext) \in Nat /\ Dims(b.ext) = N /\ Dims(file.shape) = N
      /\ \A d \in N : b.ext[d] \in Nat \ {0}
  BY ShapeFacts DEF Dims
<1>2. /\ DOMAIN cut = N
      /\ \A d \in N : cut[d].off = b.off[d] /\ cut[d].ext = b.ext[d] /\ cut[d].str = b.str[d]
  BY <1>1, ZarrNames DEF ZA!Cut
<1> HIDE DEF cut
<1>3. source = [d \in N |-> b.ext[d]] /\ Len(source) = Len(b.ext) /\ Dims(source) = N
  BY <1>1, <1>2 DEF Dims
<1>4. i \in [N -> Nat] /\ Len(i) = Len(b.ext) /\ \A d \in N : i[d] < b.ext[d]
  BY <1>1 DEF Bounded
<1> HIDE DEF source
<1>5. \A d \in N : d + (Len(i) - Len(source)) = d
  BY <1>1, <1>3, <1>4
<1>6. \A d \in N : ZA!SourceIndex(i, source)[d] = IF source[d] = 1 THEN 0 ELSE i[d]
  BY <1>3, <1>5, ZarrNames DEF ZA!SourceIndex
<1>7. \A d \in N : ZA!SourceIndex(i, source)[d] = i[d]
  BY <1>1, <1>3, <1>4, <1>6
<1>8. ZarrStored(cut, i) = [d \in N |-> cut[d].off + ZA!SourceIndex(i, source)[d] * cut[d].str]
  BY <1>2 DEF ZarrStored, source
<1>9. QED
  BY <1>1, <1>2, <1>7, <1>8 DEF cut

\* Without a box the first dimension is time.  The selection is aligned with a
\* shape that has one dimension less, so TensorStore takes it only if there is a
\* single timestep.
LEMMA ZarrUnboxed ==
  ASSUME Shape(file.shape), Len(file.shape) >= 2,
         ZA!Broadcasts([d \in DOMAIN ZA!Cut(FullBox(file.shape)) |->
                          ZA!Cut(FullBox(file.shape))[d].ext], Tail(file.shape)),
         NEW t \in 0 .. file.shape[1] - 1, NEW i \in Bounded(Tail(file.shape))
  PROVE  /\ ZarrStored(ZA!Cut(FullBox(file.shape)), i) = <<t>> \o i
         /\ <<t>> \o i \in Cells(file.shape) /\ Len(i) = Len(file.shape) - 1
<1> DEFINE shape == file.shape
           cut == ZA!Cut(FullBox(file.shape))
           source == [d \in DOMAIN cut |-> cut[d].ext]
           N == 1 .. Len(shape)
<1>1. /\ Len(shape) \in Nat /\ Len(shape) >= 2 /\ Dims(shape) = N
      /\ \A d \in N : shape[d] \in Nat \ {0}
  BY ShapeFacts
<1>2. /\ DOMAIN cut = N
      /\ \A d \in N : cut[d].off = 0 /\ cut[d].ext = shape[d] /\ cut[d].str = 1
  <2> DEFINE b == FullBox(shape)
  <2>1. b.ext = shape /\ \A d \in N : b.off[d] = 0 /\ b.str[d] = 1
    BY <1>1 DEF FullBox
  <2> HIDE DEF b
  <2>2. ZA!Cut(b) = [d \in N |-> [off |-> b.off[d], ext |-> b.ext[d], str |-> b.str[d]]]
    BY <1>1, <2>1, ZarrNames DEF ZA!Cut
  <2>3. cut = ZA!Cut(b)
    BY DEF b
  <2>4. QED
    BY <2>1, <2>2, <2>3
<1>3. ZA!Broadcasts(source, Tail(shape))
  OBVIOUS
<1> HIDE DEF cut
<1>4. source = [d \in N |-> shape[d]] /\ Len(source) = Len(shape) /\ Dims(source) = N
  BY <1>1, <1>2 DEF Dims
<1>5. shape \in Seq(Nat)
  BY DEF Shape
<1>6. Len(Tail(shape)) = Len(shape) - 1 /\ \A d \in 1 .. Len(shape) - 1 : Tail(shape)[d] = shape[d + 1]
  BY <1>1, <1>5
<1>7. i \in [1 .. Len(shape) - 1 -> Nat] /\ \A d \in 1 .. Len(shape) - 1 : i[d] < shape[d + 1]
  BY <1>6 DEF Bounded, Dims
<1>8. Len(i) = Len(shape) - 1 /\ i \in Seq(Nat)
  <2> DEFINE m == Len(shape) - 1
  <2>1. m \in Nat /\ i \in [1 .. m -> Nat]
    BY <1>1, <1>7
  <2> HIDE DEF m
  <2>2. Len(i) = m /\ i \in Seq(Nat)
    BY <2>1
  <2>3. QED
    BY <2>2 DEF m
<1> HIDE DEF source, shape
<1>9. 1 \in N /\ source[1] = shape[1] /\ ~(1 + (Len(Tail(shape)) - Len(source)) >= 1)
  BY <1>1, <1>4, <1>6
<1>10. shape[1] = 1 /\ t = 0
  <2>1. source[1] = 1
    <3>1. 1 \in ZA!Dims(source)
      BY <1>4, <1>9, ZarrNames
    <3>2. QED
      BY <1>3, <1>9, <3>1 DEF ZA!Broadcasts
  <2>2. QED
    BY <1>9, <2>1 DEF shape
<1>11. \A d \in N : ZA!SourceIndex(i, source)[d]
                    = IF source[d] = 1 THEN 0 ELSE i[d + (Len(i) - Len(source))]
  BY <1>4, ZarrNames DEF ZA!SourceIndex
<1> DEFINE j == <<t>> \o i
<1> PICK m \in Nat : m = Len(shape) - 1
  BY <1>1
<1>12. /\ m \in Nat /\ N = 1 .. m + 1 /\ i \in [1 .. m -> Nat]
       /\ Len(i) = m /\ Len(source) = m + 1
       /\ \A d \in 1 .. m : d \in N /\ d + 1 \in N /\ i[d] < shape[d + 1]
  BY <1>1, <1>4, <1>7, <1>8
<1> HIDE DEF N
<1>13. j \in [N -> Nat] /\ j[1] = 0 /\ \A d \in 1 .. m : j[d + 1] = i[d]
  <2>1. /\ <<t>> \o i \in [1 .. m + 1 -> Nat] /\ (<<t>> \o i)[1] = t
        /\ \A d \in 1 .. m : (<<t>> \o i)[d + 1] = i[d]
    <3>1. t \in Nat
      BY <1>10
    <3>2. m \in Nat /\ i \in [1 .. m -> Nat]
      BY <1>12
    <3>3. QED
      BY <3>1, <3>2, Prefixed, Zenon
  <2>2. QED
    BY <1>10, <1>12, <2>1, Zenon
<1> HIDE DEF j
<1>14. ASSUME NEW d \in N PROVE ZA!SourceIndex(i, source)[d] = j[d] /\ j[d] < shape[d]
  <2>1. CASE d = 1
    <3>1. source[1] = 1 /\ j[1] = 0 /\ shape[1] = 1
      BY <1>9, <1>10, <1>13
    <3>2. QED
      BY <1>11, <2>1, <3>1
  <2>2. CASE d # 1
    <3>1. PICK c \in 1 .. m : d = c + 1
      <4>1. d - 1 \in 1 .. m /\ d = (d - 1) + 1
        BY <1>12, <2>2
      <4>2. QED
        BY <4>1
    <3>2. d + (Len(i) - Len(source)) = c
      <4>1. Len(i) = m /\ Len(source) = m + 1 /\ m \in Nat
        BY <1>12
      <4>2. QED
        BY <3>1, <4>1
    <3>3. ZA!SourceIndex(i, source)[d] = IF shape[d] = 1 THEN 0 ELSE i[c]
      BY <1>4, <1>11, <3>2
    <3>4. i[c] < shape[d] /\ i[c] \in Nat /\ j[d] = i[c] /\ shape[d] \in Nat
      BY <1>1, <1>12, <1>13, <3>1
    <3>5. QED
      BY <3>3, <3>4
  <2>3. QED
    BY <2>1, <2>2
<1>15. ZarrStored(cut, i) = [d \in N |-> cut[d].off + ZA!SourceIndex(i, source)[d] * cut[d].str]
  BY <1>2 DEF ZarrStored, source
<1>16. \A d \in N : cut[d].off + ZA!SourceIndex(i, source)[d] * cut[d].str = j[d]
  BY <1>2, <1>13, <1>14
<1>17. ZarrStored(cut, i) = j
  BY <1>13, <1>15, <1>16
<1>18. j \in Cells(shape)
  <2>1. j \in Bounded(shape)
    BY <1>1, <1>13, <1>14 DEF Bounded
  <2>2. QED
    BY <2>1, CellsAre DEF shape
<1>19. QED
  BY <1>8, <1>17, <1>18 DEF cut, j, shape

\* A read without a box, or of one dimension, delivers the elements of the store
\* that its positions stand for.
LEMMA ZarrDelivers ==
  ASSUME Shape(file.shape), NEW v \in Vars, NEW boxed \in BOOLEAN, NEW b,
         NEW t \in 0 .. ZA!describe_variable(v).steps - 1, ZA!read(v, t, b, boxed),
         IF boxed THEN b \in Boxes(ZA!describe_variable(v).shape)
         ELSE b = FullBox(ZA!describe_variable(v).shape),
         Len(file.shape) = 1 \/ ~boxed,
         NEW k \in 1 .. Size(b.ext)
  PROVE  LET i == BoxIndex(b, k)
             j == IF Len(file.shape) > Len(i) THEN <<t>> \o i ELSE i
         IN  j \in Cells(file.shape) /\ got'.data[k] = file.cells[j]
<1> DEFINE shape == file.shape
           info == ZA!describe_variable(v)
           cut == IF boxed THEN ZA!Cut(b) ELSE ZA!Cut(FullBox(shape))
           i == BoxIndex(b, k)
           x == IndexAt(k - 1, b.ext)
<1>1. /\ info.found /\ ZA!Broadcasts([d \in DOMAIN cut |-> cut[d].ext], b.ext)
      /\ got'.data = [m \in 1 .. Size(b.ext) |->
           file.cells[ [d \in DOMAIN cut |-> cut[d].off
                        + ZA!SourceIndex(IndexAt(m - 1, b.ext), [e \in DOMAIN cut |-> cut[e].ext])[d]
                          * cut[d].str] ]]
  BY ZarrNames DEF ZA!read
<1>2. got'.data[k] = file.cells[ZarrStored(cut, x)]
  BY <1>1 DEF ZarrStored
<1>3. info = IF Len(shape) >= 2 THEN Found(Tail(shape), shape[1]) ELSE Found(shape, 1)
  BY <1>1, ZarrNames DEF ZA!describe_variable, NotFound
<1>4. Len(shape) \in Nat \ {0} /\ Dims(shape) = 1 .. Len(shape)
  BY ShapeFacts
<1>5. CASE Len(shape) = 1
  <2>1. info.shape = shape
    BY <1>3, <1>5 DEF Found
  <2>2. /\ cut = ZA!Cut(b) /\ Shape(b.ext) /\ Len(b.ext) = Len(shape)
        /\ \A d \in Dims(shape) : b.off[d] \in Nat /\ b.str[d] \in Nat
        /\ i \in Cells(shape)
    <3>1. CASE boxed
      BY <2>1, <3>1, BoxFacts, BoxIndexInside
    <3>2. CASE ~boxed
      <4>1. b = FullBox(shape)
        BY <2>1, <3>2
      <4>2. b.ext = shape /\ \A d \in Dims(shape) : b.off[d] = 0 /\ b.str[d] = 1
        BY <4>1 DEF FullBox
      <4>3. i = IndexAt(k - 1, shape) /\ k - 1 \in Nat
        BY <4>1, <4>2, FullBoxFacts, StridesPositive
      <4>4. i \in Cells(shape)
        BY <4>3, IndexAtBounded, CellsAre
      <4>5. QED
        BY <3>2, <4>1, <4>2, <4>4
    <3>3. QED
      BY <3>1, <3>2
  <2>3. k - 1 \in Nat
    BY <2>2, StridesPositive
  <2>4. x \in Bounded(b.ext)
    BY <2>2, <2>3, IndexAtBounded
  <2>5. ZarrStored(cut, x) = i
    <3>1. ZarrStored(ZA!Cut(b), x) = [d \in Dims(b.ext) |-> b.off[d] + x[d] * b.str[d]]
      <4> HIDE DEF x, cut, i, info
      <4>1. QED
        BY <2>2, <2>4, ZarrAligned
    <3>2. QED
      BY <2>2, <3>1 DEF BoxIndex
  <2>6. Len(i) = Len(shape)
    <3>1. i \in [1 .. Len(shape) -> Nat]
      BY <1>4, <2>2, CellsAre DEF Bounded
    <3>2. QED
      BY <1>4, <3>1
  <2>7. ~(Len(shape) > Len(i))
    BY <1>4, <2>6
  <2>8. QED
    BY <1>2, <2>2, <2>5, <2>7
<1>6. CASE Len(shape) # 1
  <2>1. Len(shape) >= 2 /\ ~boxed
    <3>1. \A n \in Nat \ {0} : n # 1 => n >= 2
      OBVIOUS
    <3>2. QED
      BY <1>4, <1>6, <3>1, Zenon
  <2>2. info.shape = Tail(shape) /\ info.steps = shape[1]
    BY <1>3, <2>1 DEF Found
  <2>3. b = FullBox(Tail(shape)) /\ b.ext = Tail(shape) /\ cut = ZA!Cut(FullBox(shape))
    BY <2>1, <2>2 DEF FullBox
  <2>4. Shape(Tail(shape))
    <3>1. shape \in Seq(Nat \ {0}) /\ shape # <<>>
      BY DEF Shape
    <3>2. Tail(shape) \in Seq(Nat \ {0}) /\ Len(Tail(shape)) = Len(shape) - 1
      BY <3>1, HeadTailProperties, Zenon
    <3>3. Len(Tail(shape)) # 0
      <4>1. \A n \in Nat \ {0} : n # 1 => n - 1 # 0
        OBVIOUS
      <4>2. QED
        BY <1>4, <1>6, <3>2, <4>1, Zenon
    <3>4. Tail(shape) # <<>>
      <4>1. Len(<<>>) = 0
        OBVIOUS
      <4>2. QED
        BY <3>3, <4>1, Zenon
    <3>5. QED
      BY <3>2, <3>4, Zenon DEF Shape
  <2>5. i = x /\ k - 1 \in Nat
    <3>1. k \in 1 .. Size(Tail(shape)) /\ Size(Tail(shape)) \in Nat
      BY <2>3, <2>4, StridesPositive, Zenon
    <3>2. BoxIndex(FullBox(Tail(shape)), k) = IndexAt(k - 1, Tail(shape))
      BY <2>4, <3>1, FullBoxFacts, Zenon
    <3>3. i = x
      BY <2>3, <3>2, Zenon
    <3>4. QED
      BY <3>1, <3>3
  <2>6. x \in Bounded(Tail(shape))
    BY <2>3, <2>4, <2>5, IndexAtBounded
  <2>7. ZA!Broadcasts([d \in DOMAIN ZA!Cut(FullBox(shape)) |-> ZA!Cut(FullBox(shape))[d].ext],
                      Tail(shape))
    <3> HIDE DEF x, info, cut, i
    <3>1. QED
      BY <1>1, <2>3, Zenon
  <2>8. t \in 0 .. shape[1] - 1
    BY <2>2
  <2>9. /\ ZarrStored(ZA!Cut(FullBox(shape)), x) = <<t>> \o x
        /\ <<t>> \o x \in Cells(shape) /\ Len(x) = Len(shape) - 1
    <3> HIDE DEF x, info, cut, i
    <3>1. QED
      BY <2>1, <2>6, <2>7, <2>8, ZarrUnboxed
  <2>10. Len(shape) > Len(i)
    BY <1>4, <2>5, <2>9
  <2> HIDE DEF x, i, cut, shape, info
  <2>11. QED
    BY <1>2, <2>3, <2>5, <2>9, <2>10 DEF i, shape
<1>7. QED
  BY <1>5, <1>6

\* ZarrReadBack as a relation between a store f, a log s and a read g.
ZarrDelivered(f, s, g) ==
  LET chunk(i) == [d \in ZA!Dims(i) |-> i[d] \div f.chunk[d]]
      latest == {k \in DOMAIN s : \A j \in DOMAIN s : s[j].var = s[k].var => j <= k}
      index(k) == LET i == BoxIndex(g.box, k)
                  IN  IF Len(f.shape) > Len(i) THEN <<g.t>> \o i ELSE i
      from(k, w) == IF RowMajorLayout(s[w])
                    THEN g.data[k] = <<s[w].n, ZA!SourceIndex(index(k), s[w].ext)>>
                    ELSE g.data[k] = Junk \/ g.data[k][1] = s[w].n
      together(j, k) == chunk(index(j)) = chunk(index(k))
  IN  \A k \in DOMAIN g.data : \E w \in latest : \A j \in DOMAIN g.data :
        together(j, k) => from(j, w)

\* It is.
LEMMA ZarrReadBackForm ==
  /\ ZarrReadBack = (/\ backend = "zarr" /\ got # NoRead /\ threw = {}
                     /\ Len(file.shape) = 1 \/ ~got.boxed
                     => ZarrDelivered(file, log, got))
  /\ ZarrReadBack' = (/\ backend' = "zarr" /\ got' # NoRead /\ threw' = {}
                      /\ Len(file'.shape) = 1 \/ ~got'.boxed
                      => ZarrDelivered(file', log', got'))
<1>1. ZarrReadBack = (/\ backend = "zarr" /\ got # NoRead /\ threw = {}
                      /\ Len(file.shape) = 1 \/ ~got.boxed
                      => ZarrDelivered(file, log, got))
  BY DEF ZarrReadBack, ZarrDelivered, LatestWrites, ZA!Chunk
<1>2. ZarrReadBack' = (/\ backend' = "zarr" /\ got' # NoRead /\ threw' = {}
                       /\ Len(file'.shape) = 1 \/ ~got'.boxed
                       => ZarrDelivered(file', log', got'))
  BY DEF ZarrReadBack, ZarrDelivered, LatestWrites, ZA!Chunk
<1>3. QED
  BY <1>1, <1>2

\* A read.
LEMMA ZarrRead ==
  ASSUME ZarrInv, NEW v \in Vars, NEW boxed \in BOOLEAN, NEW b,
         NEW t \in 0 .. ZA!describe_variable(v).steps - 1, ZA!read(v, t, b, boxed),
         IF boxed THEN b \in Boxes(ZA!describe_variable(v).shape)
         ELSE b = FullBox(ZA!describe_variable(v).shape)
  PROVE  ZarrInv' /\ ZarrReadBack'
<1>1. /\ UNCHANGED <<drv, file, cb, started, log, threw>>
      /\ got'.box = b /\ got'.t = t /\ got'.boxed = boxed
      /\ ZA!describe_variable(v).found /\ DOMAIN got'.data = 1 .. Size(b.ext)
  BY ZarrNames DEF ZA!read
<1>2. drv.open /\ ~drv.write
  BY <1>1 DEF ZA!describe_variable, ZA!NotFound
<1>3. /\ file.exists /\ log # <<>> /\ Shape(file.shape) /\ \A u \in Vars : cb[u] = Idle
      /\ DOMAIN file.cells = Cells(file.shape)
  BY <1>2 DEF ZarrInv, ZarrControl, ZarrFile
<1>4. ZarrInv'
  BY <1>1, <1>2, <1>3, ZarrNoTransfer
<1> DEFINE index(k) == LET i == BoxIndex(got'.box, k)
                       IN  IF Len(file.shape) > Len(i) THEN <<got'.t>> \o i ELSE i
<1>5. ASSUME threw = {}, Len(file.shape) = 1 \/ ~boxed, NEW k \in DOMAIN got'.data
      PROVE  \E w \in LatestWrites : \A j \in DOMAIN got'.data :
               ZA!Chunk(index(j)) = ZA!Chunk(index(k)) =>
                 IF RowMajorLayout(log[w])
                 THEN got'.data[j] = <<log[w].n, ZA!SourceIndex(index(j), log[w].ext)>>
                 ELSE got'.data[j] = Junk \/ got'.data[j][1] = log[w].n
  <2>1. \A j \in DOMAIN got'.data :
          index(j) \in DOMAIN file.cells /\ got'.data[j] = file.cells[index(j)]
    BY <1>1, <1>3, <1>5, ZarrDelivers
  <2> HIDE DEF index
  <2>2. ZarrWhole(index(k))
    BY <1>3, <1>5, <2>1 DEF ZarrInv
  <2>3. PICK w \in LatestWrites : ZarrChunkHas(index(k), log[w], log[w].n)
    BY <1>3, <2>2 DEF ZarrWhole
  <2>4. \A j \in DOMAIN got'.data : ZA!Chunk(index(j)) = ZA!Chunk(index(k)) =>
          ZarrHas(index(j), log[w], log[w].n)
    BY <2>1, <2>3 DEF ZarrChunkHas
  <2>5. QED
    BY <2>1, <2>4 DEF ZarrHas
<1>6. ZarrReadBack'
  <2>1. SUFFICES ASSUME threw = {}, Len(file.shape) = 1 \/ ~boxed
                 PROVE  ZarrDelivered(file, log, got')
    BY <1>1, ZarrReadBackForm
  <2>2. \A k \in DOMAIN got'.data : \E w \in LatestWrites : \A j \in DOMAIN got'.data :
          ZA!Chunk(index(j)) = ZA!Chunk(index(k)) =>
            IF RowMajorLayout(log[w])
            THEN got'.data[j] = <<log[w].n, ZA!SourceIndex(index(j), log[w].ext)>>
            ELSE got'.data[j] = Junk \/ got'.data[j][1] = log[w].n
    BY <1>5, <2>1
  <2>3. QED
    BY <2>2 DEF ZarrDelivered, LatestWrites, ZA!Chunk
<1>7. QED
  BY <1>4, <1>6

\* The inductive invariant: as long as nothing was read the chunks are whole, and
\* the first read ends the behaviour.
ZarrIInv == backend = "zarr" => ZarrInv

\* Every step keeps it, and a read delivers what it promises.
LEMMA ZarrStep ==
  ASSUME ZarrIInv, ZarrReadBack, [Next]_vars
  PROVE  ZarrIInv' /\ ZarrReadBack'
<1>1. CASE UNCHANGED vars
  <2>1. UNCHANGED <<backend, drv, file, cb, started, log, threw, got>>
    BY <1>1 DEF vars
  <2>2. ZarrIInv'
    <3>1. CASE backend = "zarr"
      <4>1. ZarrInv
        BY <3>1 DEF ZarrIInv
      <4>2. /\ drv.write => drv.open
            /\ drv.open /\ ~drv.write => file.exists /\ log # <<>>
        BY <4>1 DEF ZarrInv, ZarrControl
      <4>3. ZarrInv'
        BY <2>1, <4>1, <4>2, ZarrNoTransfer
      <4>4. QED
        BY <4>3 DEF ZarrIInv
    <3>2. QED
      BY <2>1, <3>1 DEF ZarrIInv
  <2>3. ZarrReadBack'
    BY <2>1, ZarrReadBackForm
  <2>4. QED
    BY <2>2, <2>3
<1>2. CASE Next /\ backend # "zarr"
  BY <1>2 DEF Next, ZarrIInv, ZarrReadBack
<1>3. CASE Next /\ backend = "zarr"
  <2>1. ZA!Next /\ got = NoRead /\ backend' = backend
    BY <1>3 DEF Next
  <2>2. ZarrInv
    BY <1>3 DEF ZarrIInv
  <2>3. /\ drv.write => drv.open
        /\ drv.open /\ ~drv.write => file.exists /\ log # <<>>
        /\ ~drv.write => \A v \in Vars : cb[v] = Idle
    BY <2>2 DEF ZarrInv, ZarrControl
  <2>4. SUFFICES ZarrInv' /\ (got' = NoRead \/ ZarrReadBack')
    BY <2>1 DEF ZarrIInv, ZarrReadBack
  <2>5. ASSUME NEW m \in ZA!Manifests, ZA!open_write(m) PROVE ZarrInv' /\ got' = NoRead
    BY <2>1, <2>2, <2>5, ZarrOpenWrite DEF ZA!open_write, ZA!NoTransfer
  <2>6. ASSUME NEW m \in ZA!Manifests, ZA!open_read(m) PROVE ZarrInv' /\ got' = NoRead
    <3>1. /\ UNCHANGED <<file, cb, started, log, threw, got>>
          /\ ~drv.open /\ file.exists /\ log # <<>> /\ drv'.open /\ ~drv'.write
      BY <2>6 DEF ZA!open_read, ZA!NoTransfer
    <3>2. QED
      BY <2>1, <2>2, <2>3, <3>1, ZarrNoTransfer
  <2>7. ASSUME NEW v \in Vars, NEW l \in Layouts[v], ZA!begin_write(v, l)
        PROVE  ZarrInv' /\ got' = NoRead
    BY <2>1, <2>2, <2>7, ZarrBegin DEF ZA!begin_write
  <2>8. ASSUME NEW v \in Vars, cb[v] # Idle, NEW c \in cb[v].left, ZA!commit(v, c)
        PROVE  ZarrInv' /\ got' = NoRead
    BY <2>1, <2>2, <2>8, ZarrCommit DEF ZA!commit
  <2>9. ASSUME NEW v \in Vars, ZA!finish(v) PROVE ZarrInv' /\ got' = NoRead
    BY <2>1, <2>2, <2>9, ZarrFinish DEF ZA!finish
  <2>10. ASSUME NEW v \in Vars, NEW t \in 0 .. ZA!describe_variable(v).steps - 1,
                ZA!read(v, t, FullBox(ZA!describe_variable(v).shape), FALSE)
         PROVE  ZarrInv' /\ ZarrReadBack'
    BY <2>2, <2>10, ZarrRead
  <2>11. ASSUME NEW v \in Vars, NEW t \in 0 .. ZA!describe_variable(v).steps - 1,
                NEW b \in Boxes(ZA!describe_variable(v).shape), ZA!read(v, t, b, TRUE)
         PROVE  ZarrInv' /\ ZarrReadBack'
    BY <2>2, <2>11, ZarrRead
  <2>12. CASE ZA!flush
    <3>1. UNCHANGED <<drv, file, cb, started, log, threw, got>>
      BY <2>12 DEF ZA!flush, ZA!NoTransfer
    <3>2. QED
      BY <2>1, <2>2, <2>3, <3>1, ZarrNoTransfer
  <2>13. CASE ZA!close
    <3>1. /\ UNCHANGED <<file, cb, started, log, threw, got>> /\ ~drv'.open /\ ~drv'.write
          /\ \A v \in Vars : cb[v] = Idle
      BY <2>13, ZarrNames DEF ZA!close, ZA!NoTransfer, ZA!Closed
    <3>2. QED
      BY <2>1, <2>2, <3>1, ZarrNoTransfer
  <2>14. QED
    BY <2>1, <2>5, <2>6, <2>7, <2>8, <2>9, <2>10, <2>11, <2>12, <2>13, ZarrNames DEF ZA!Next
<1>4. QED
  BY <1>1, <1>2, <1>3

\* Zarr, for any shapes, chunks, layouts, number of variables, writes and faults:
\* a chunk that is read is, whole, the last write of one variable.
THEOREM ZarrReadBackHolds == Spec => []ZarrReadBack
<1>1. Init => ZarrIInv /\ ZarrReadBack
  <2>1. ASSUME Init, backend = "zarr" PROVE ZarrInv
    BY <2>1, ZarrInit
  <2>2. Init => got = NoRead
    BY DEF Init
  <2>3. QED
    BY <2>1, <2>2 DEF ZarrIInv, ZarrReadBack
<1>2. ZarrIInv /\ ZarrReadBack /\ [Next]_vars => (ZarrIInv /\ ZarrReadBack)'
  BY ZarrStep
<1>3. QED
  BY <1>1, <1>2, PTL DEF Spec

-----------------------------------------------------------------------------
(* NCZarr.                                                                 *)

\* The instance of the driver works with the shapes of BackendDriver and the calls
\* of NetcdfLibrary.
LEMMA NczarrNames ==
  /\ \A s : NZ!Cells(s) = Cells(s)
  /\ \A l, n : NZ!Snapshot(l, n) = Snapshot(l, n)
  /\ \A s : NZ!Boxes(s) = Boxes(s)
  /\ \A b, k : NZ!BoxIndex(b, k) = BoxIndex(b, k)
  /\ NZ!Idle = Idle /\ NZ!NotFound = NotFound /\ NZ!Fill = Fill
  /\ \A c : NZ!nc_create(c) = nc_create(c)
  /\ \A f : NZ!nc_redef(f) = nc_redef(f)
  /\ \A f, s, n, u : NZ!nc_def_dim(f, s, n, u) = nc_def_dim(f, s, n, u)
  /\ \A f, v, s : NZ!nc_def_var(f, v, s) = nc_def_var(f, v, s)
  /\ \A f, v : NZ!nc_put_att(f, v) = nc_put_att(f, v)
  /\ \A f, v : NZ!nc_def_var_filter(f, v) = nc_def_var_filter(f, v)
  /\ \A f : NZ!nc_enddef(f) = nc_enddef(f)
  /\ \A f : NZ!nc_sync(f) = DataMode(f) /\ NZ!nc_close(f) = DataMode(f)
  /\ \A f, v, s : NZ!Regions(f, v, s) = Regions(f, v, s)
  /\ \A f, v, g : NZ!Fits(f, v, g) = Fits(f, v, g)
  /\ \A f, v, g, x : NZ!nc_put_vara(f, v, g, x) = nc_put_vara(f, v, g, x)
<1> USE DEF Dims, NZ!Dims, RowMajorStrides, NZ!RowMajorStrides
<1>1. \A s : NZ!Cells(s) = Cells(s)
  BY DEF Cells, NZ!Cells, Size, NZ!Size, IndexAt, NZ!IndexAt
<1>2. \A l, n : NZ!Snapshot(l, n) = Snapshot(l, n)
  BY DEF Snapshot, NZ!Snapshot, Cells, NZ!Cells, Size, NZ!Size, IndexAt, NZ!IndexAt,
         ActualStrides, NZ!ActualStrides, Offset, NZ!Offset, Junk, NZ!Junk
<1>3. \A s : NZ!Boxes(s) = Boxes(s)
  BY DEF Boxes, NZ!Boxes, Max, NZ!Max
<1>4. \A b, k : NZ!BoxIndex(b, k) = BoxIndex(b, k)
  BY DEF BoxIndex, NZ!BoxIndex, IndexAt, NZ!IndexAt
<1>5. NZ!Idle = Idle /\ NZ!NotFound = NotFound /\ NZ!Fill = Fill
  BY DEF Idle, NZ!Idle, NotFound, NZ!NotFound, Fill, NZ!Fill
<1>6. \A c : NZ!nc_create(c) = nc_create(c)
  BY DEF nc_create, NZ!nc_create, Fill, NZ!Fill
<1>7. \A f : NZ!nc_redef(f) = nc_redef(f) /\ NZ!nc_enddef(f) = nc_enddef(f)
  BY DEF nc_redef, NZ!nc_redef, nc_enddef, NZ!nc_enddef
<1>8. \A f, s, n, u : NZ!nc_def_dim(f, s, n, u) = nc_def_dim(f, s, n, u)
  BY DEF nc_def_dim, NZ!nc_def_dim
<1>9. \A f, v, s : NZ!nc_def_var(f, v, s) = nc_def_var(f, v, s)
  BY DEF nc_def_var, NZ!nc_def_var, Fill, NZ!Fill
<1>10. \A f, v : /\ NZ!nc_put_att(f, v) = nc_put_att(f, v)
                 /\ NZ!nc_def_var_filter(f, v) = nc_def_var_filter(f, v)
  BY DEF nc_put_att, NZ!nc_put_att, nc_def_var_filter, NZ!nc_def_var_filter
<1>11. \A f : NZ!nc_sync(f) = DataMode(f) /\ NZ!nc_close(f) = DataMode(f)
  BY DEF NZ!nc_sync, NZ!nc_close, DataMode, NZ!DataMode, nc_enddef, NZ!nc_enddef
<1>12. /\ \A f, v, s : NZ!Regions(f, v, s) = Regions(f, v, s)
       /\ \A f, v, g : NZ!Fits(f, v, g) = Fits(f, v, g)
  BY DEF Regions, NZ!Regions, Fits, NZ!Fits, VarDim, NZ!VarDim
<1>13. \A f, v, g, x : NZ!nc_put_vara(f, v, g, x) = nc_put_vara(f, v, g, x)
  BY DEF nc_put_vara, NZ!nc_put_vara, DataMode, NZ!DataMode, nc_enddef, NZ!nc_enddef,
         Offset, NZ!Offset, Cells, NZ!Cells, Size, NZ!Size, IndexAt, NZ!IndexAt,
         Max, NZ!Max, Area, NZ!Area, Junk, NZ!Junk
<1>14. QED
  BY <1>1, <1>2, <1>3, <1>4, <1>5, <1>6, <1>7, <1>8, <1>9, <1>10, <1>11, <1>12, <1>13, Zenon

\* The dimensions of a variable are placed one after the other: the recursive
\* function exists, and adds dimensions at most.
LEMMA NczarrDimensions ==
  ASSUME IsFile(file), NEW v \in Vars, cb[v].lay \in Layouts[v], NEW w
  PROVE  \A m \in 0 .. Len(cb[v].lay.ext) :
           LET p == NZ!Dimensions(v)[m] IN
           Changes(file, p.f, w) /\ p.f.vars = file.vars /\ Len(p.ids) = m
<1> DEFINE ext == cb[v].lay.ext
           next(p, d) ==
             LET have == NZ!DimIds(p.f, <<v, d>>)
             IN  IF have # {} THEN [f |-> p.f, ids |-> Append(p.ids, CHOOSE i \in have : TRUE)]
                 ELSE [f |-> NZ!nc_def_dim(p.f, <<v, d>>, ext[d], FALSE),
                       ids |-> Append(p.ids, Len(p.f.dims) + 1)]
           first == [f |-> NZ!nc_redef(file), ids |-> <<>>]
           Upto(m, s) == s = [d \in 0 .. m |-> IF d = 0 THEN first ELSE next(s[d - 1], d)]
           S == {m \in Nat : \E s : Upto(m, s)}
<1>1. Shape(ext) /\ Len(ext) \in Nat /\ \A d \in 1 .. Len(ext) : ext[d] \in Nat
  BY LayoutFacts, ShapeFacts DEF IsLayout
<1> DEFINE place == CHOOSE s : Upto(Len(ext), s)
<1>2. NZ!Dimensions(v) = place
  BY DEF NZ!Dimensions
<1>3. /\ \A p, d : next(p, d).f = p.f \/ next(p, d).f = nc_def_dim(p.f, <<v, d>>, ext[d], FALSE)
      /\ \A p, d : \E i : next(p, d).ids = Append(p.ids, i)
      /\ first.f = nc_redef(file) /\ first.ids = <<>>
  BY NczarrNames
<1> HIDE DEF next, first, ext
<1>4. 0 \in S
  <2> DEFINE s == [d \in 0 .. 0 |-> first]
  <2>1. Upto(0, s)
    OBVIOUS
  <2>2. QED
    BY <2>1
<1>5. ASSUME NEW m \in Nat, m \in S PROVE m + 1 \in S
  <2>1. PICK s : Upto(m, s)
    BY <1>5
  <2> DEFINE t == [d \in 0 .. m + 1 |-> IF d = m + 1 THEN next(s[m], m + 1) ELSE s[d]]
  <2>2. ASSUME NEW d \in 0 .. m + 1
        PROVE  t[d] = IF d = 0 THEN first ELSE next(t[d - 1], d)
    <3>1. CASE d = m + 1
      <4>1. m \in 0 .. m + 1 /\ m # m + 1 /\ (m + 1) - 1 = m /\ m + 1 # 0
        OBVIOUS
      <4>2. t[m] = s[m]
        BY <4>1
      <4>3. QED
        BY <3>1, <4>1, <4>2
    <3>2. CASE d # m + 1
      <4>1. d \in 0 .. m /\ (d # 0 => d - 1 \in 0 .. m + 1 /\ d - 1 # m + 1)
        BY <3>2
      <4>2. s[d] = IF d = 0 THEN first ELSE next(s[d - 1], d)
        BY <2>1, <4>1
      <4>3. t[d] = s[d] /\ (d # 0 => t[d - 1] = s[d - 1])
        BY <3>2, <4>1
      <4>4. QED
        BY <4>2, <4>3
    <3>3. QED
      BY <3>1, <3>2
  <2>3. t = [d \in 0 .. m + 1 |-> IF d = 0 THEN first ELSE next(t[d - 1], d)]
    BY <2>2
  <2> HIDE DEF t
  <2>4. Upto(m + 1, t)
    BY <2>3
  <2> HIDE DEF Upto
  <2>5. QED
    BY <2>4
<1>6. \A m \in Nat : m \in S
  <2> HIDE DEF S
  <2>1. QED
    BY <1>4, <1>5, NatInduct
<1>7. Upto(Len(ext), place)
  <2>1. \E s : Upto(Len(ext), s)
    BY <1>1, <1>6
  <2> HIDE DEF Upto
  <2>2. QED
    BY <2>1
<1> HIDE DEF S, place
<1>8. place[0] = first /\ \A d \in 1 .. Len(ext) : place[d] = next(place[d - 1], d)
  BY <1>1, <1>7
<1> DEFINE IsIds(i, m) == Len(i) = m /\ i = [d \in 1 .. m |-> i[d]]
           Good(f) == Changes(file, f, w) /\ f.vars = file.vars
           T == {m \in Nat : m <= Len(ext) => Good(place[m].f) /\ IsIds(place[m].ids, m)}
<1>9. 0 \in T
  <2>1. Good(first.f)
    BY <1>3, RedefFacts
  <2>2. IsIds(first.ids, 0)
    BY <1>3
  <2>3. QED
    BY <1>8, <2>1, <2>2
<1>10. ASSUME NEW m \in Nat, m \in T PROVE m + 1 \in T
  <2>1. SUFFICES ASSUME m + 1 <= Len(ext)
                 PROVE  Good(place[m + 1].f) /\ IsIds(place[m + 1].ids, m + 1)
    OBVIOUS
  <2>2. m <= Len(ext) /\ m + 1 \in 1 .. Len(ext) /\ (m + 1) - 1 = m
    BY <1>1, <2>1
  <2> DEFINE f == place[m].f
             g == nc_def_dim(f, <<v, m + 1>>, ext[m + 1], FALSE)
  <2>3. Good(f) /\ IsFile(f) /\ IsIds(place[m].ids, m)
    BY <1>10, <2>2 DEF Changes
  <2>4. place[m + 1].f = f \/ place[m + 1].f = g
    BY <1>3, <1>8, <2>2
  <2>5. Changes(f, g, w) /\ g.vars = f.vars
    <3> HIDE DEF f
    <3>1. ext[m + 1] \in Nat
      BY <1>1, <2>2
    <3>2. ASSUME NEW s, NEW n \in Nat, NEW u
          PROVE  LET h == nc_def_dim(f, s, n, u) IN Changes(f, h, w) /\ h.vars = f.vars
      BY <2>3, DefDimFacts
    <3>3. QED
      BY <3>1, <3>2, Zenon
  <2> HIDE DEF f, g
  <2>6. Good(g)
    BY <2>3, <2>5, ChangesTransitive
  <2>7. IsIds(place[m + 1].ids, m + 1)
    <3>1. PICK i : place[m + 1].ids = Append(place[m].ids, i)
      <4>1. place[m + 1] = next(place[m], m + 1)
        BY <1>8, <2>2
      <4>2. \E i : next(place[m], m + 1).ids = Append(place[m].ids, i)
        BY <1>3, Zenon
      <4>3. QED
        BY <4>1, <4>2, Zenon
    <3>2. ASSUME NEW t, IsIds(t, m) PROVE IsIds(Append(t, i), m + 1)
      <4>1. t \in Seq({t[d] : d \in 1 .. m} \cup {i})
        BY <3>2
      <4>2. QED
        BY <3>2, <4>1
    <3> HIDE DEF IsIds
    <3>3. QED
      BY <2>3, <3>1, <3>2
  <2>8. QED
    BY <2>3, <2>4, <2>6, <2>7
<1>11. \A m \in Nat : m \in T
  <2> HIDE DEF T
  <2>1. QED
    BY <1>9, <1>10, NatInduct
<1>12. ASSUME NEW m \in 0 .. Len(ext) PROVE Good(place[m].f) /\ Len(place[m].ids) = m
  <2>1. m \in T /\ m <= Len(ext)
    BY <1>1, <1>11, <1>12
  <2> HIDE DEF Good
  <2>2. QED
    BY <2>1
<1>13. QED
  BY <1>2, <1>12 DEF ext

\* A running callback is at one of its calls; past the definition, v is defined.
NczarrCallback(v) ==
  /\ DOMAIN cb[v] = {"step", "n", "lay"} /\ cb[v].n \in Nat /\ cb[v].lay \in Layouts[v]
  /\ cb[v].step \in {"redef", "def", "attrs", "filter", "enddef", "put"}
  /\ file.exists
  /\ cb[v].step \in {"attrs", "filter", "enddef", "put"} => v \in DOMAIN file.vars

\* The shapes v was written with or, the first time, is being written with.
Offered(v) == IF Shapes(v) # {} THEN Shapes(v) ELSE {cb[v].lay.ext}

\* How far the definition of v is at each step of its callback.  Between two
\* callbacks a variable that never failed is complete or absent.  It has the rank
\* of one of its writes, and of those of that rank all elements.
NczarrVar(v) ==
  LET at == cb[v].step
      have == file.exists /\ v \in DOMAIN file.vars
      x == file.vars[v]
  IN  /\ Logged(v) => have /\ at \in {"idle", "put"}
      /\ at \in {"redef", "def"} => ~have
      /\ at \in {"attrs", "filter", "enddef"} => have /\ DOMAIN x.cells = {}
      /\ at = "put" => have
      /\ have /\ at \in {"idle", "put"} => x.attrs /\ x.filter /\ x.committed
      /\ at \in {"filter", "enddef"} => x.attrs
      /\ at = "enddef" => x.filter
      /\ have /\ at = "idle" => Logged(v)
      /\ have => \E s \in Offered(v) : Len(s) = Len(x.dims)
      /\ have => \A s \in Shapes(v) : Len(s) = Len(x.dims) => Cells(s) \subseteq DOMAIN x.cells
      /\ have /\ RowMajorOnly(v) /\ Ranked(v, Len(x.dims)) =>
           \A i \in DOMAIN x.cells : x.cells[i] = LastWritten(v, i)

\* Which sessions, files and callbacks there can be together.
NczarrControl ==
  /\ DOMAIN drv = {"open", "write", "diagnosed"}
  /\ file.exists => IsFile(file)
  /\ drv.write => file.exists
  /\ started = 0 => log = <<>> /\ \A v \in Vars : cb[v] = Idle
  /\ \A v \in Vars : cb[v] # Idle => NczarrCallback(v)

\* The inductive invariant of the NCZarr driver.
NczarrInv == CommonType /\ NczarrControl /\ \A v \in Vars \ threw : NczarrVar(v)

\* The calls of another callback leave v as far as it is.
LEMMA NczarrOther ==
  ASSUME NEW v, NczarrVar(v), Keeps(file, file', v), file'.exists = file.exists,
         cb'[v] = cb[v], LogKept(v)
  PROVE  NczarrVar(v)'
<1> DEFINE x == file.vars[v]
           y == file'.vars[v]
           have == file.exists /\ v \in DOMAIN file.vars
           at == cb[v].step
<1> PICK r : r = Len(x.dims)
  OBVIOUS
<1>1. /\ (file'.exists /\ v \in DOMAIN file'.vars) <=> have
      /\ have => /\ y.attrs = x.attrs /\ y.filter = x.filter /\ y.cells = x.cells
                 /\ y.dims = x.dims
                 /\ x.committed => y.committed
  BY DEF Keeps
<1>2. /\ Logged(v) => have /\ at \in {"idle", "put"}
      /\ at \in {"redef", "def"} => ~have
      /\ at \in {"attrs", "filter", "enddef"} => have /\ DOMAIN x.cells = {}
      /\ at = "put" => have
      /\ have /\ at \in {"idle", "put"} => x.attrs /\ x.filter /\ x.committed
      /\ at \in {"filter", "enddef"} => x.attrs
      /\ at = "enddef" => x.filter
      /\ have /\ at = "idle" => Logged(v)
      /\ have => \E s \in Offered(v) : Len(s) = r
      /\ have => \A s \in Shapes(v) : Len(s) = r => Cells(s) \subseteq DOMAIN x.cells
      /\ have /\ RowMajorOnly(v) /\ (\A s \in Shapes(v) : Len(s) = r) =>
           \A i \in DOMAIN x.cells : x.cells[i] = LastWritten(v, i)
  BY DEF NczarrVar, Ranked
<1>3. /\ cb'[v].step = at /\ Offered(v)' = Offered(v) /\ (Logged(v)' <=> Logged(v))
      /\ Shapes(v)' = Shapes(v) /\ (RowMajorOnly(v)' => RowMajorOnly(v))
      /\ \A i : LastWritten(v, i)' = LastWritten(v, i)
  BY DEF LogKept, Offered
<1> HIDE DEF x, y, at
<1>4. /\ Logged(v)' => have /\ at \in {"idle", "put"}
      /\ at \in {"redef", "def"} => ~have
      /\ at \in {"attrs", "filter", "enddef"} => have /\ DOMAIN y.cells = {}
      /\ at = "put" => have
      /\ have /\ at \in {"idle", "put"} => y.attrs /\ y.filter /\ y.committed
      /\ at \in {"filter", "enddef"} => y.attrs
      /\ at = "enddef" => y.filter
      /\ have /\ at = "idle" => Logged(v)'
  BY <1>1, <1>2, <1>3
<1>5. /\ have => Len(y.dims) = r /\ \E s \in Offered(v)' : Len(s) = r
      /\ have => \A s \in Shapes(v)' : Len(s) = r => Cells(s) \subseteq DOMAIN y.cells
      /\ have /\ RowMajorOnly(v)' /\ (\A s \in Shapes(v)' : Len(s) = r) =>
           \A i \in DOMAIN y.cells : y.cells[i] = LastWritten(v, i)'
  <2>1. have => Len(y.dims) = r
    BY <1>1 DEF x
  <2>2. QED
    BY <1>1, <1>2, <1>3, <2>1
<1>6. QED
  BY <1>1, <1>3, <1>4, <1>5 DEF NczarrVar, Ranked, y

\* A step of the callback of v.
LEMMA NczarrProgress ==
  ASSUME NczarrInv, NEW v \in Vars, cb[v] # Idle, Changes(file, file', v),
         UNCHANGED <<drv, started, log>>, threw \subseteq threw',
         DOMAIN cb' = Vars, \A w \in Vars : w # v => cb'[w] = cb[w],
         cb'[v] # Idle => NczarrCallback(v)',
         v \in threw' \/ NczarrVar(v)'
  PROVE  NczarrInv'
<1>1. /\ CommonType /\ NczarrControl /\ file.exists /\ IsFile(file') /\ started # 0
      /\ file'.exists = file.exists
  BY DEF NczarrInv, NczarrControl, NczarrCallback, Changes
<1>2. CommonType'
  BY <1>1 DEF CommonType
<1>3. ASSUME NEW w \in Vars, w # v, cb'[w] # Idle PROVE NczarrCallback(w)'
  <2>1. cb'[w] = cb[w] /\ NczarrCallback(w) /\ Keeps(file, file', w)
    BY <1>1, <1>3 DEF NczarrControl, Changes
  <2>2. QED
    BY <1>1, <2>1 DEF NczarrCallback, Keeps
<1>4. NczarrControl'
  BY <1>1, <1>3 DEF NczarrControl
<1>5. ASSUME NEW w \in Vars \ threw', w # v PROVE NczarrVar(w)'
  <2>1. NczarrVar(w) /\ Keeps(file, file', w) /\ cb'[w] = cb[w]
    BY <1>5 DEF NczarrInv, Changes
  <2>2. LogKept(w)
    BY LogUnchanged
  <2>3. QED
    BY <1>1, <2>1, <2>2, NczarrOther
<1>6. QED
  BY <1>2, <1>4, <1>5 DEF NczarrInv

\* The dataset as it is before it is opened.
LEMMA NczarrInit ==
  ASSUME Init, backend = "nczarr"
  PROVE  NczarrInv
<1>1. NZ!Init
  BY DEF Init
<1>2. DOMAIN drv = {"open", "write", "diagnosed"} /\ drv.write = FALSE /\ file.exists = FALSE
  BY <1>1 DEF NZ!Init, NZ!Closed, NZ!NoFile
<1>3. cb = [v \in Vars |-> Idle] /\ started = 0 /\ log = <<>>
  BY DEF Init
<1>4. log \in Seq(Entries) /\ DOMAIN log = {}
  BY <1>3
<1>5. \A v \in Vars : cb[v].step = "idle" /\ ~Logged(v)
  BY <1>3, <1>4 DEF Idle, Logged
<1>6. \A v \in Vars : NczarrVar(v)
  BY <1>2, <1>5 DEF NczarrVar
<1>7. QED
  BY <1>2, <1>3, <1>4, <1>6 DEF NczarrInv, CommonType, NczarrControl

\* Opening for writing, even when it fails, leaves an empty file.
LEMMA NczarrOpenWrite ==
  ASSUME NczarrInv, NEW m \in NZ!Manifests, NZ!open_write(m)
  PROVE  NczarrInv'
<1>1. /\ started = 0 /\ UNCHANGED <<cb, started, log, threw>> /\ file' = nc_create(FALSE)
      /\ \/ drv' = [open |-> TRUE, write |-> TRUE, diagnosed |-> TRUE]
         \/ drv' = [drv EXCEPT !.diagnosed = TRUE]
  BY NczarrNames DEF NZ!open_write, NZ!NoTransfer
<1>2. IsFile(file') /\ file'.exists /\ DOMAIN file'.vars = {}
  BY <1>1, CreateFacts
<1>3. /\ CommonType' /\ log' = <<>> /\ \A v \in Vars : cb'[v] = Idle
      /\ DOMAIN drv' = {"open", "write", "diagnosed"}
  BY <1>1 DEF NczarrInv, NczarrControl, CommonType
<1>4. NczarrControl'
  BY <1>2, <1>3 DEF NczarrControl
<1>5. ASSUME NEW v \in Vars PROVE NczarrVar(v)'
  <2>1. cb'[v].step = "idle" /\ ~Logged(v)'
    BY <1>3 DEF Idle, Logged
  <2>2. v \notin DOMAIN file'.vars
    BY <1>2
  <2>3. QED
    BY <2>1, <2>2 DEF NczarrVar
<1>6. QED
  BY <1>3, <1>4, <1>5 DEF NczarrInv

\* A callback starts: it defines the variable or finds it.
LEMMA NczarrBegin ==
  ASSUME NczarrInv, NEW v \in Vars, NEW l \in Layouts[v], NZ!begin_write(v, l)
  PROVE  NczarrInv'
<1>1. /\ drv.write /\ cb[v] = Idle /\ started' = started + 1 /\ UNCHANGED <<drv, file, log, threw>>
      /\ cb' = [cb EXCEPT ![v] = [step |-> IF v \in DOMAIN file.vars THEN "put" ELSE "redef",
                                  n |-> started', lay |-> l]]
  BY NczarrNames DEF NZ!begin_write, NZ!HasVar
<1>2. /\ CommonType /\ NczarrControl /\ file.exists /\ IsFile(file)
      /\ started \in Nat /\ started' # 0 /\ started' \in Nat
  BY <1>1 DEF NczarrInv, NczarrControl, CommonType
<1>3. /\ DOMAIN cb' = Vars /\ \A w \in Vars : w # v => cb'[w] = cb[w]
      /\ cb'[v] = [step |-> IF v \in DOMAIN file.vars THEN "put" ELSE "redef",
                   n |-> started', lay |-> l]
  BY <1>1, <1>2 DEF CommonType
<1>4. CommonType'
  BY <1>1, <1>2, <1>3 DEF CommonType
<1>5. NczarrCallback(v)'
  BY <1>1, <1>2, <1>3 DEF NczarrCallback
<1>6. NczarrControl'
  BY <1>1, <1>2, <1>3, <1>5 DEF NczarrControl, NczarrCallback
<1>7. \A w : Keeps(file, file', w) /\ LogKept(w)
  BY <1>1, LogUnchanged DEF Keeps
<1>8. ASSUME NEW w \in Vars \ threw', w # v PROVE NczarrVar(w)'
  <2>1. NczarrVar(w) /\ cb'[w] = cb[w] /\ file'.exists = file.exists
    BY <1>1, <1>3, <1>8 DEF NczarrInv
  <2>2. QED
    BY <1>7, <2>1, NczarrOther
<1>9. ASSUME v \notin threw' PROVE NczarrVar(v)'
  <2>1. NczarrVar(v)
    BY <1>1, <1>9 DEF NczarrInv
  <2>2. cb[v].step = "idle"
    BY <1>1 DEF Idle
  <2> DEFINE x == file.vars[v]
  <2> PICK r : r = Len(x.dims)
    OBVIOUS
  <2>3. /\ Logged(v) => v \in DOMAIN file.vars
        /\ v \in DOMAIN file.vars =>
             /\ x.attrs /\ x.filter /\ x.committed
             /\ \E s \in Shapes(v) : Len(s) = r
             /\ \A s \in Shapes(v) : Len(s) = r => Cells(s) \subseteq DOMAIN x.cells
             /\ RowMajorOnly(v) /\ (\A s \in Shapes(v) : Len(s) = r) =>
                  \A i \in DOMAIN x.cells : x.cells[i] = LastWritten(v, i)
    <3>1. Logged(v) => Shapes(v) # {}
      BY DEF Shapes, Logged
    <3>2. QED
      BY <1>2, <2>1, <2>2, <3>1 DEF NczarrVar, Offered, Ranked
  <2>4. /\ Logged(v)' <=> Logged(v)
        /\ Shapes(v)' = Shapes(v) /\ (RowMajorOnly(v)' => RowMajorOnly(v))
        /\ \A i : LastWritten(v, i)' = LastWritten(v, i)
    BY <1>7 DEF LogKept
  <2>5. CASE v \in DOMAIN file.vars
    <3>1. cb'[v].step = "put" /\ file' = file
      BY <1>1, <1>3, <2>5
    <3> HIDE DEF x
    <3>2. /\ x.attrs /\ x.filter /\ x.committed
          /\ \E s \in Offered(v)' : Len(s) = r
          /\ \A s \in Shapes(v)' : Len(s) = r => Cells(s) \subseteq DOMAIN x.cells
          /\ RowMajorOnly(v)' /\ (\A s \in Shapes(v)' : Len(s) = r) =>
               \A i \in DOMAIN x.cells : x.cells[i] = LastWritten(v, i)'
      BY <2>3, <2>4, <2>5 DEF Offered
    <3>3. QED
      BY <1>2, <2>5, <3>1, <3>2 DEF NczarrVar, Ranked, x
  <2>6. CASE v \notin DOMAIN file.vars
    <3>1. cb'[v].step = "redef" /\ file' = file /\ ~Logged(v)'
      BY <1>1, <1>3, <2>3, <2>4, <2>6
    <3>2. QED
      BY <2>6, <3>1 DEF NczarrVar
  <2>7. QED
    BY <2>5, <2>6
<1>10. QED
  BY <1>4, <1>6, <1>8, <1>9 DEF NczarrInv

\* A step that only gets a callback on.
LEMMA NczarrGoto ==
  ASSUME NczarrInv, NEW v \in Vars, cb[v] # Idle, NEW s, NZ!Goto(v, s),
         s \in {"redef", "def", "attrs", "filter", "enddef", "put"},
         s \in {"attrs", "filter", "enddef", "put"} => v \in DOMAIN file'.vars,
         Changes(file, file', v)
  PROVE  /\ cb'[v].step = s /\ threw' = threw /\ log' = log /\ (Logged(v)' <=> Logged(v))
         /\ cb'[v].lay = cb[v].lay /\ got' = got
         /\ v \in threw \/ NczarrVar(v)' => NczarrInv'
<1>1. /\ cb' = [cb EXCEPT ![v].step = s] /\ UNCHANGED <<drv, started, log, threw, got>>
  BY DEF NZ!Goto
<1>2. NczarrCallback(v) /\ DOMAIN cb = Vars
  BY DEF NczarrInv, NczarrControl, CommonType
<1>3. /\ DOMAIN cb' = Vars /\ \A w \in Vars : w # v => cb'[w] = cb[w]
      /\ cb'[v] = [cb[v] EXCEPT !.step = s]
  BY <1>1, <1>2
<1>4. /\ DOMAIN cb'[v] = DOMAIN cb[v] /\ cb'[v].step = s /\ cb'[v].n = cb[v].n
      /\ cb'[v].lay = cb[v].lay
  BY <1>2, <1>3 DEF NczarrCallback
<1>5. NczarrCallback(v)'
  BY <1>2, <1>4 DEF NczarrCallback, Changes
<1>6. Logged(v)' <=> Logged(v)
  BY <1>1 DEF Logged
<1>7. ASSUME v \in threw \/ NczarrVar(v)' PROVE NczarrInv'
  BY <1>1, <1>3, <1>5, <1>7, NczarrProgress
<1>8. QED
  BY <1>1, <1>4, <1>6, <1>7

\* A callback that throws.
LEMMA NczarrThrow ==
  ASSUME NczarrInv, NEW v \in Vars, cb[v] # Idle, NZ!Throw(v), Changes(file, file', v)
  PROVE  NczarrInv' /\ got' = got
<1>1. /\ cb' = [cb EXCEPT ![v] = Idle] /\ threw' = threw \cup {v}
      /\ UNCHANGED <<drv, started, log, got>>
  BY NczarrNames DEF NZ!Throw
<1>2. DOMAIN cb' = Vars /\ cb'[v] = Idle /\ \A w \in Vars : w # v => cb'[w] = cb[w]
  BY <1>1 DEF NczarrInv, CommonType
<1>3. QED
  BY <1>1, <1>2, NczarrProgress

\* A variable that is defined and has no data yet.
LEMMA NczarrDefining ==
  ASSUME NEW v, cb'[v].step \in {"attrs", "filter", "enddef", "put"}, ~Logged(v)',
         file'.exists, v \in DOMAIN file'.vars, DOMAIN file'.vars[v].cells = {},
         Len(file'.vars[v].dims) = Len(cb'[v].lay.ext),
         cb'[v].step \in {"filter", "enddef", "put"} => file'.vars[v].attrs,
         cb'[v].step \in {"enddef", "put"} => file'.vars[v].filter,
         cb'[v].step = "put" => file'.vars[v].committed
  PROVE  NczarrVar(v)'
<1>1. Shapes(v)' = {}
  BY DEF Shapes, Logged
<1>2. Offered(v)' = {cb'[v].lay.ext}
  BY <1>1 DEF Offered
<1>3. QED
  BY <1>1, <1>2 DEF NczarrVar

\* The calls of a callback up to the one that ends the definition.
LEMMA NczarrDefinition ==
  ASSUME NczarrInv, NEW v \in Vars,
         NZ!redef(v) \/ NZ!define(v) \/ NZ!attributes(v) \/ NZ!filter(v) \/ NZ!enddef(v)
  PROVE  NczarrInv' /\ got' = got
<1>1. ASSUME NEW s, NZ!At(v, s) PROVE cb[v] # Idle /\ cb[v].step = s
  BY <1>1, NczarrNames DEF NZ!At
<1>2. cb[v] # Idle
  BY <1>1 DEF NZ!redef, NZ!define, NZ!attributes, NZ!filter, NZ!enddef, NZ!Call
<1>3. /\ NczarrCallback(v) /\ file.exists /\ IsFile(file) /\ Changes(file, file, v)
      /\ v \in threw \/ NczarrVar(v)
  BY <1>2, ChangesNothing DEF NczarrInv, NczarrControl, NczarrCallback
<1>4. ASSUME file' = file, NZ!Throw(v) PROVE NczarrInv' /\ got' = got
  BY <1>2, <1>3, <1>4, NczarrThrow
<1>5. CASE NZ!redef(v)
  <2>1. cb[v].step = "redef"
    BY <1>1, <1>5 DEF NZ!redef, NZ!Call
  <2>2. CASE file' = nc_redef(file) /\ NZ!Goto(v, "def")
    <3>1. Changes(file, file', v) /\ file'.vars = file.vars
      BY <1>3, <2>2, RedefFacts
    <3>2. cb'[v].step = "def" /\ (Logged(v)' <=> Logged(v)) /\ got' = got
      BY <1>2, <2>2, <3>1, NczarrGoto
    <3>3. ASSUME v \notin threw PROVE NczarrVar(v)'
      <4>1. v \notin DOMAIN file.vars /\ ~Logged(v)
        BY <1>3, <2>1, <3>3 DEF NczarrVar
      <4>2. QED
        BY <3>1, <3>2, <4>1 DEF NczarrVar
    <3>4. QED
      BY <1>2, <2>2, <3>1, <3>2, <3>3, NczarrGoto
  <2>3. QED
    BY <1>4, <1>5, <2>2, NczarrNames DEF NZ!redef, NZ!Call
<1>6. CASE NZ!define(v)
  <2>1. cb[v].step = "def"
    BY <1>1, <1>6 DEF NZ!define
  <2> DEFINE rank == Len(cb[v].lay.ext)
             place == NZ!Dimensions(v)
             f == place[rank].f
             ids == place[rank].ids
  <2>2. \A m \in 0 .. rank :
          Changes(file, place[m].f, v) /\ place[m].f.vars = file.vars /\ Len(place[m].ids) = m
    BY <1>3, NczarrDimensions, Zenon DEF NczarrCallback
  <2>3. rank \in Nat /\ rank \in 0 .. rank
    BY <1>3, LayoutFacts, ShapeFacts DEF NczarrCallback, IsLayout
  <2> HIDE DEF rank, place
  <2>4. Changes(file, f, v) /\ IsFile(f) /\ Len(ids) = rank
    BY <2>2, <2>3 DEF Changes
  <2>5. \/ file' = nc_def_var(f, v, ids) /\ NZ!Goto(v, "attrs")
        \/ file' \in {place[d].f : d \in 0 .. rank} /\ NZ!Throw(v)
    BY <1>6, NczarrNames DEF NZ!define, place, rank
  <2> HIDE DEF f, ids
  <2>6. CASE file' = nc_def_var(f, v, ids) /\ NZ!Goto(v, "attrs")
    <3>1. /\ Changes(f, file', v) /\ v \in DOMAIN file'.vars /\ DOMAIN file'.vars[v].cells = {}
          /\ file'.vars[v].dims = ids
      BY <2>3, <2>4, <2>6, DefVarFacts
    <3>2. Changes(file, file', v)
      BY <1>3, <2>4, <3>1, ChangesTransitive
    <3>3. /\ cb'[v].step = "attrs" /\ (Logged(v)' <=> Logged(v)) /\ got' = got
          /\ cb'[v].lay = cb[v].lay
      BY <1>2, <2>6, <3>1, <3>2, NczarrGoto
    <3>4. ASSUME v \notin threw PROVE NczarrVar(v)'
      <4>1. ~Logged(v)
        BY <1>3, <2>1, <3>4 DEF NczarrVar
      <4>2. file'.exists
        BY <1>3, <3>2 DEF Changes
      <4>3. Len(file'.vars[v].dims) = Len(cb'[v].lay.ext)
        BY <2>4, <3>1, <3>3 DEF rank
      <4>4. QED
        BY <3>1, <3>3, <4>1, <4>2, <4>3, NczarrDefining
    <3>5. QED
      BY <1>2, <2>6, <3>1, <3>2, <3>3, <3>4, NczarrGoto
  <2>7. CASE file' \in {place[d].f : d \in 0 .. rank} /\ NZ!Throw(v)
    <3>1. Changes(file, file', v)
      BY <2>2, <2>7
    <3>2. QED
      BY <1>2, <2>7, <3>1, NczarrThrow
  <2>8. QED
    BY <2>5, <2>6, <2>7
<1>7. ASSUME cb[v].step \in {"attrs", "filter", "enddef"}, v \notin threw
      PROVE  /\ v \in DOMAIN file.vars /\ ~Logged(v) /\ DOMAIN file.vars[v].cells = {}
             /\ cb[v].step \in {"filter", "enddef"} => file.vars[v].attrs
             /\ cb[v].step = "enddef" => file.vars[v].filter
             /\ Len(file.vars[v].dims) = Len(cb[v].lay.ext)
  <2>1. /\ v \in DOMAIN file.vars /\ ~Logged(v) /\ DOMAIN file.vars[v].cells = {}
        /\ cb[v].step \in {"filter", "enddef"} => file.vars[v].attrs
        /\ cb[v].step = "enddef" => file.vars[v].filter
        /\ \E s \in Offered(v) : Len(s) = Len(file.vars[v].dims)
    BY <1>3, <1>7 DEF NczarrVar
  <2>2. Shapes(v) = {}
    BY <2>1 DEF Shapes, Logged
  <2>3. Offered(v) = {cb[v].lay.ext}
    BY <1>7, <2>2 DEF Offered
  <2>4. QED
    BY <2>1, <2>3
<1>8. CASE NZ!attributes(v)
  <2>1. cb[v].step = "attrs"
    BY <1>1, <1>8 DEF NZ!attributes, NZ!Call
  <2>2. v \in DOMAIN file.vars
    BY <1>3, <2>1 DEF NczarrCallback
  <2>3. CASE file' = nc_put_att(file, v) /\ NZ!Goto(v, "filter")
    <3>1. /\ Changes(file, file', v) /\ v \in DOMAIN file'.vars
          /\ file'.vars[v].attrs /\ file'.vars[v].cells = file.vars[v].cells
          /\ file'.vars[v].dims = file.vars[v].dims
      BY <1>3, <2>2, <2>3, AttributeFacts
    <3>2. /\ cb'[v].step = "filter" /\ (Logged(v)' <=> Logged(v)) /\ got' = got
          /\ cb'[v].lay = cb[v].lay
      BY <1>2, <2>3, <3>1, NczarrGoto
    <3>3. file'.exists
      BY <1>3, <3>1 DEF Changes
    <3>4. ASSUME v \notin threw PROVE NczarrVar(v)'
      BY <1>7, <2>1, <3>1, <3>2, <3>3, <3>4, NczarrDefining
    <3>5. QED
      BY <1>2, <2>3, <3>1, <3>2, <3>4, NczarrGoto
  <2>4. QED
    BY <1>4, <1>8, <2>3, NczarrNames DEF NZ!attributes, NZ!Call
<1>9. CASE NZ!filter(v)
  <2>1. cb[v].step = "filter"
    BY <1>1, <1>9 DEF NZ!filter
  <2>2. v \in DOMAIN file.vars
    BY <1>3, <2>1 DEF NczarrCallback
  <2>3. CASE file' = nc_def_var_filter(file, v) /\ NZ!Goto(v, "enddef")
    <3>1. /\ Changes(file, file', v) /\ v \in DOMAIN file'.vars
          /\ file'.vars[v].attrs = file.vars[v].attrs /\ file'.vars[v].filter
          /\ file'.vars[v].cells = file.vars[v].cells
          /\ file'.vars[v].dims = file.vars[v].dims
      BY <1>3, <2>2, <2>3, FilterFacts
    <3>2. /\ cb'[v].step = "enddef" /\ (Logged(v)' <=> Logged(v)) /\ got' = got
          /\ cb'[v].lay = cb[v].lay
      BY <1>2, <2>3, <3>1, NczarrGoto
    <3>3. file'.exists
      BY <1>3, <3>1 DEF Changes
    <3>4. ASSUME v \notin threw PROVE NczarrVar(v)'
      <4>1. /\ ~Logged(v)' /\ DOMAIN file'.vars[v].cells = {} /\ file'.vars[v].attrs
            /\ Len(file'.vars[v].dims) = Len(cb'[v].lay.ext)
        <5>1. cb[v].step \in {"attrs", "filter", "enddef"} /\ cb[v].step \in {"filter", "enddef"}
          BY <2>1
        <5>2. /\ ~Logged(v) /\ DOMAIN file.vars[v].cells = {} /\ file.vars[v].attrs
              /\ Len(file.vars[v].dims) = Len(cb[v].lay.ext)
          BY <1>7, <3>4, <5>1, Zenon
        <5>3. QED
          BY <3>1, <3>2, <5>2, Zenon
      <4>2. /\ cb'[v].step \in {"attrs", "filter", "enddef", "put"} /\ cb'[v].step # "put"
            /\ v \in DOMAIN file'.vars /\ file'.vars[v].filter
        BY <3>1, <3>2
      <4>3. /\ cb'[v].step \in {"filter", "enddef", "put"} => file'.vars[v].attrs
            /\ cb'[v].step \in {"enddef", "put"} => file'.vars[v].filter
            /\ cb'[v].step = "put" => file'.vars[v].committed
        BY <4>1, <4>2, Zenon
      <4>4. QED
        BY <3>3, <4>1, <4>2, <4>3, NczarrDefining
    <3>5. QED
      BY <1>2, <2>3, <3>1, <3>2, <3>4, NczarrGoto
  <2>4. QED
    BY <1>4, <1>9, <2>3, NczarrNames DEF NZ!filter, NZ!Call
<1>10. CASE NZ!enddef(v)
  <2>1. cb[v].step = "enddef"
    BY <1>1, <1>10 DEF NZ!enddef
  <2>2. v \in DOMAIN file.vars
    BY <1>3, <2>1 DEF NczarrCallback
  <2>3. CASE file' = nc_enddef(file) /\ NZ!Goto(v, "put")
    <3>1. /\ Changes(file, file', v) /\ Keeps(file, file', v)
          /\ \A w \in DOMAIN file'.vars : file'.vars[w].committed
      BY <1>3, <2>3, EndDefFacts
    <3>2. /\ v \in DOMAIN file'.vars /\ file'.vars[v].attrs = file.vars[v].attrs
          /\ file'.vars[v].filter = file.vars[v].filter /\ file'.vars[v].committed
          /\ file'.vars[v].cells = file.vars[v].cells
          /\ file'.vars[v].dims = file.vars[v].dims
      BY <2>2, <3>1 DEF Keeps
    <3>3. /\ cb'[v].step = "put" /\ (Logged(v)' <=> Logged(v)) /\ got' = got
          /\ cb'[v].lay = cb[v].lay
      BY <1>2, <2>3, <3>1, <3>2, NczarrGoto
    <3>4. file'.exists
      BY <1>3, <3>1 DEF Changes
    <3>5. ASSUME v \notin threw PROVE NczarrVar(v)'
      BY <1>7, <2>1, <3>2, <3>3, <3>4, <3>5, NczarrDefining
    <3>6. QED
      BY <1>2, <2>3, <3>1, <3>2, <3>3, <3>5, NczarrGoto
  <2>4. QED
    BY <1>4, <1>10, <2>3, NczarrNames DEF NZ!enddef, NZ!Call
<1>11. QED
  BY <1>5, <1>6, <1>8, <1>9, <1>10

\* The write itself, of the variable's rank or another.
LEMMA NczarrPut ==
  ASSUME NczarrInv, NEW v \in Vars, NZ!put(v)
  PROVE  NczarrInv' /\ got' = got
<1> DEFINE l == cb[v].lay
           n == cb[v].n
<1>1. cb[v] # Idle /\ cb[v].step = "put"
  BY NczarrNames DEF NZ!put, NZ!At
<1>2. /\ NczarrCallback(v) /\ file.exists /\ IsFile(file) /\ Changes(file, file, v)
      /\ v \in DOMAIN file.vars /\ n \in Nat /\ l \in Layouts[v]
      /\ CommonType /\ NczarrControl
  BY <1>1, ChangesNothing DEF NczarrInv, NczarrControl, NczarrCallback
<1>3. IsLayout(l) /\ Shape(l.ext)
  BY <1>2, LayoutFacts DEF IsLayout
<1>4. PICK g \in Regions(file, v, l.ext) :
        \/ /\ Fits(file, v, g) /\ file' = nc_put_vara(file, v, g, Snapshot(l, n))
           /\ Returned(v, n, l) /\ cb' = [cb EXCEPT ![v] = Idle]
           /\ UNCHANGED <<drv, started, threw, faults, got>>
        \/ file' = file /\ NZ!Throw(v)
        \/ /\ Fits(file, v, g) /\ file' \in {file, nc_put_vara(file, v, g, Snapshot(l, n))}
           /\ NZ!Throw(v)
  <2>1. /\ \A s : NZ!Regions(file, v, s) = Regions(file, v, s)
        /\ \A s : NZ!Fits(file, v, s) = Fits(file, v, s)
        /\ \A s, x : NZ!nc_put_vara(file, v, s, x) = nc_put_vara(file, v, s, x)
        /\ NZ!Snapshot(l, n) = Snapshot(l, n) /\ NZ!Idle = Idle
        /\ NZ!Returned(v, n, l) = Returned(v, n, l)
    BY NczarrNames DEF NZ!Returned, Returned
  <2>2. QED
    BY <2>1 DEF NZ!put
<1>5. PICK x, y : x = l /\ y = n
  OBVIOUS
<1>6. Fits(file, v, g) =>
        PutOf(file, v, x.ext, Snapshot(x, y), nc_put_vara(file, v, g, Snapshot(x, y)))
  <2>1. DOMAIN Snapshot(x, y) = 1 .. Size(x.ext)
    BY DEF Snapshot
  <2>2. Shape(x.ext) /\ g \in Regions(file, v, x.ext) /\ IsFile(file) /\ v \in DOMAIN file.vars
    BY <1>2, <1>3, <1>4, <1>5
  <2>3. QED
    BY <2>1, <2>2, PutVaraFacts
<1>7. CASE file' = file /\ NZ!Throw(v)
  BY <1>1, <1>2, <1>7, NczarrThrow
<1>8. CASE /\ Fits(file, v, g) /\ file' \in {file, nc_put_vara(file, v, g, Snapshot(l, n))}
           /\ NZ!Throw(v)
  <2>1. Changes(file, file', v)
    BY <1>2, <1>5, <1>6, <1>8 DEF PutOf
  <2>2. QED
    BY <1>1, <1>8, <2>1, NczarrThrow
<1>9. CASE /\ Fits(file, v, g) /\ file' = nc_put_vara(file, v, g, Snapshot(l, n))
           /\ Returned(v, n, l) /\ cb' = [cb EXCEPT ![v] = Idle]
           /\ UNCHANGED <<drv, started, threw, faults, got>>
  <2>1. file' = nc_put_vara(file, v, g, Snapshot(x, y))
    BY <1>5, <1>9
  <2>2. PutOf(file, v, x.ext, Snapshot(x, y), file') /\ Changes(file, file', v)
    BY <1>6, <1>9, <2>1 DEF PutOf
  <2>3. y \in Nat /\ IsLayout(x) /\ Shape(x.ext) /\ Returned(v, y, x) /\ log \in Seq(Entries)
    BY <1>2, <1>3, <1>5, <1>9 DEF CommonType
  <2>4. /\ DOMAIN cb' = Vars /\ cb'[v] = Idle /\ \A w \in Vars : w # v => cb'[w] = cb[w]
        /\ file'.exists = file.exists /\ IsFile(file') /\ started # 0
    BY <1>1, <1>2, <1>9, <2>2 DEF CommonType, Changes, NczarrControl
  <2>5. Offered(v) \subseteq Shapes(v) \cup {x.ext}
    BY <1>1, <1>5 DEF Offered
  <2> HIDE DEF l, n
  <2>6. /\ log' \in Seq(Entries)
        /\ \A u : Logged(u)' <=> (Logged(u) \/ u = v)
        /\ \A u : RowMajorOnly(u)' => RowMajorOnly(u)
        /\ RowMajorOnly(v)' => RowMajorLayout(x)
        /\ Shapes(v)' = Shapes(v) \cup {x.ext}
        /\ \A u : u # v => LogKept(u)
    BY <2>3, ReturnedFacts, LoggedFacts
  <2>7. \A u, i : LastWritten(u, i)' =
                    IF u = v /\ i \in Cells(x.ext) THEN <<y, i>> ELSE LastWritten(u, i)
    BY <2>3, LastWrittenFacts
  <2>8. CommonType'
    BY <1>2, <1>9, <2>4, <2>6 DEF CommonType
  <2>9. ASSUME NEW w \in Vars, cb'[w] # Idle PROVE NczarrCallback(w)'
    <3>1. cb'[w] = cb[w] /\ NczarrCallback(w) /\ Keeps(file, file', w)
      BY <1>2, <2>2, <2>4, <2>9 DEF NczarrControl, Changes
    <3>2. QED
      BY <2>4, <3>1 DEF NczarrCallback, Keeps
  <2>10. NczarrControl'
    BY <1>2, <1>9, <2>4, <2>9 DEF NczarrControl
  <2>11. ASSUME NEW w \in Vars \ threw', w # v PROVE NczarrVar(w)'
    <3>1. NczarrVar(w) /\ Keeps(file, file', w) /\ cb'[w] = cb[w]
      BY <1>9, <2>2, <2>4, <2>11 DEF NczarrInv, Changes
    <3>2. LogKept(w)
      BY <2>6, <2>11
    <3>3. QED
      BY <2>4, <3>1, <3>2, NczarrOther
  <2>12. ASSUME v \notin threw' PROVE NczarrVar(v)'
    <3> PICK r : r = Len(file.vars[v].dims)
      OBVIOUS
    <3> DEFINE old == file.vars[v].cells
               new == file'.vars[v].cells
    <3>1. /\ file.vars[v].attrs /\ file.vars[v].filter /\ file.vars[v].committed
          /\ \E s \in Shapes(v) \cup {x.ext} : Len(s) = r
          /\ \A s \in Shapes(v) : Len(s) = r => Cells(s) \subseteq DOMAIN old
          /\ RowMajorOnly(v) /\ (\A s \in Shapes(v) : Len(s) = r) =>
               \A i \in DOMAIN old : old[i] = LastWritten(v, i)
      BY <1>1, <1>2, <1>9, <2>5, <2>12 DEF NczarrInv, NczarrVar, Ranked
    <3>2. /\ DOMAIN old \subseteq DOMAIN new
          /\ Len(x.ext) = r =>
               /\ DOMAIN new = Cells(x.ext) \cup DOMAIN old
               /\ \A i \in Cells(x.ext) :
                    new[i] = Snapshot(x, y)[Offset(i, RowMajorStrides(x.ext)) + 1]
               /\ \A i \in DOMAIN old \ Cells(x.ext) : new[i] = old[i]
      BY <2>2 DEF PutOf
    <3> HIDE DEF old, new
    <3>3. ASSUME NEW s \in Shapes(v)', Len(s) = r PROVE Cells(s) \subseteq DOMAIN new
      BY <2>6, <3>1, <3>2, <3>3
    <3>4. ASSUME RowMajorOnly(v)', \A s \in Shapes(v)' : Len(s) = r, NEW i \in DOMAIN new
          PROVE  new[i] = LastWritten(v, i)'
      <4>1. Len(x.ext) = r /\ \A s \in Shapes(v) : Len(s) = r
        BY <2>6, <3>4
      <4>2. CASE i \in Cells(x.ext)
        <5>1. Snapshot(x, y)[Offset(i, RowMajorStrides(x.ext)) + 1] = <<y, i>>
          BY <2>3, <2>6, <3>4, <4>2, SnapshotRowMajor
        <5>2. QED
          BY <2>7, <3>2, <4>1, <4>2, <5>1
      <4>3. CASE i \notin Cells(x.ext)
        BY <2>6, <2>7, <3>1, <3>2, <3>4, <4>1, <4>3
      <4>4. QED
        BY <4>2, <4>3
    <3>5. /\ cb'[v].step = "idle" /\ file'.exists /\ Logged(v)'
          /\ \E s \in Offered(v)' : Len(s) = r
      BY <1>2, <2>4, <2>6, <3>1 DEF Idle, Offered
    <3>6. /\ v \in DOMAIN file'.vars /\ Len(file'.vars[v].dims) = r
          /\ file'.vars[v].attrs /\ file'.vars[v].filter /\ file'.vars[v].committed
      BY <2>2, <3>1 DEF PutOf
    <3>7. QED
      BY <3>3, <3>4, <3>5, <3>6 DEF NczarrVar, Ranked, new
  <2>13. QED
    BY <1>9, <2>8, <2>10, <2>11, <2>12 DEF NczarrInv
<1>10. QED
  BY <1>4, <1>7, <1>8, <1>9

\* Opening for reading, flushing and closing.
LEMMA NczarrNoTransfer ==
  ASSUME NczarrInv, UNCHANGED <<cb, started, log, threw>>,
         DOMAIN drv' = DOMAIN drv, drv'.write => drv.write,
         file' = file \/ (file.exists /\ file' = DataMode(file))
  PROVE  NczarrInv'
<1>1. CommonType /\ NczarrControl /\ (file.exists => IsFile(file))
  BY DEF NczarrInv, NczarrControl
<1>2. /\ file'.exists = file.exists /\ (file'.exists => IsFile(file'))
      /\ \A w : Keeps(file, file', w)
  <2>1. CASE file' = file
    BY <1>1, <2>1 DEF Keeps
  <2>2. CASE file.exists /\ file' = DataMode(file)
    <3>1. \A w : Changes(file, file', w) /\ Keeps(file, file', w)
      BY <1>1, <2>2, DataModeFacts
    <3>2. QED
      BY <3>1 DEF Changes
  <2>3. QED
    BY <2>1, <2>2
<1>3. CommonType'
  BY <1>1 DEF CommonType
<1>4. ASSUME NEW w \in Vars, cb'[w] # Idle PROVE NczarrCallback(w)'
  <2>1. NczarrCallback(w) /\ Keeps(file, file', w)
    BY <1>1, <1>2, <1>4 DEF NczarrControl
  <2>2. QED
    BY <1>2, <2>1 DEF NczarrCallback, Keeps
<1>5. NczarrControl'
  BY <1>1, <1>2, <1>4 DEF NczarrControl
<1>6. ASSUME NEW w \in Vars \ threw' PROVE NczarrVar(w)'
  <2>1. NczarrVar(w) /\ cb'[w] = cb[w]
    BY <1>6 DEF NczarrInv
  <2>2. LogKept(w)
    BY LogUnchanged
  <2>3. QED
    BY <1>2, <2>1, <2>2, NczarrOther
<1>7. QED
  BY <1>3, <1>5, <1>6 DEF NczarrInv

\* The inductive invariant.
NczarrIInv == backend = "nczarr" => NczarrInv

\* Every step keeps it.
LEMMA NczarrStep ==
  ASSUME NczarrIInv, [Next]_vars
  PROVE  NczarrIInv'
<1>1. CASE UNCHANGED vars
  <2>1. UNCHANGED <<backend, drv, file, cb, started, log, threw>>
    BY <1>1 DEF vars
  <2>2. backend = "nczarr" /\ NczarrInv => NczarrInv'
    BY <2>1, NczarrNoTransfer, Zenon
  <2>3. QED
    BY <2>1, <2>2 DEF NczarrIInv
<1>2. CASE Next /\ backend # "nczarr"
  BY <1>2 DEF Next, NczarrIInv
<1>3. CASE Next /\ backend = "nczarr"
  <2>1. NZ!Next /\ backend' = backend /\ NczarrInv
    BY <1>3 DEF Next, NczarrIInv
  <2>2. DOMAIN drv = {"open", "write", "diagnosed"} /\ (drv.write => file.exists)
    BY <2>1 DEF NczarrInv, NczarrControl
  <2>3. SUFFICES NczarrInv'
    BY DEF NczarrIInv
  <2>4. ASSUME NEW m \in NZ!Manifests, NZ!open_write(m) PROVE NczarrInv'
    BY <2>1, <2>4, NczarrOpenWrite
  <2>5. ASSUME NEW m \in NZ!Manifests, NZ!open_read(m) PROVE NczarrInv'
    <3>1. /\ UNCHANGED <<file, cb, started, log, threw>>
          /\ drv' = [open |-> TRUE, write |-> FALSE, diagnosed |-> TRUE]
      BY <2>5 DEF NZ!open_read, NZ!NoTransfer
    <3>2. DOMAIN drv' = DOMAIN drv /\ ~drv'.write
      BY <2>2, <3>1
    <3>3. QED
      BY <2>1, <3>1, <3>2, NczarrNoTransfer, Zenon
  <2>6. ASSUME NEW v \in Vars, NEW l \in Layouts[v], NZ!begin_write(v, l) PROVE NczarrInv'
    BY <2>1, <2>6, NczarrBegin
  <2>7. ASSUME NEW v \in Vars,
               NZ!redef(v) \/ NZ!define(v) \/ NZ!attributes(v) \/ NZ!filter(v) \/ NZ!enddef(v)
        PROVE  NczarrInv'
    BY <2>1, <2>7, NczarrDefinition
  <2>8. ASSUME NEW v \in Vars, NZ!put(v) PROVE NczarrInv'
    BY <2>1, <2>8, NczarrPut
  <2>9. CASE NZ!flush
    <3>1. /\ UNCHANGED <<drv, cb, started, log, threw>>
          /\ file' = IF drv.write THEN DataMode(file) ELSE file
      BY <2>9, NczarrNames DEF NZ!flush, NZ!NoTransfer
    <3>2. QED
      BY <2>1, <2>2, <3>1, NczarrNoTransfer, Zenon
  <2>10. CASE NZ!close
    <3>1. /\ UNCHANGED <<cb, started, log, threw>>
          /\ \/ drv' = drv /\ file' = file
             \/ /\ file' = IF drv.write THEN DataMode(file) ELSE file
                /\ drv' = [drv EXCEPT !.open = FALSE, !.write = FALSE]
      BY <2>10, NczarrNames DEF NZ!close, NZ!NoTransfer
    <3>2. DOMAIN drv' = DOMAIN drv /\ (drv'.write => drv.write)
      BY <2>2, <3>1
    <3>3. file' = file \/ (file.exists /\ file' = DataMode(file))
      BY <2>2, <3>1, Zenon
    <3>4. QED
      BY <2>1, <3>1, <3>2, <3>3, NczarrNoTransfer, Zenon
  <2>11. QED
    BY <2>1, <2>4, <2>5, <2>6, <2>7, <2>8, <2>9, <2>10, NczarrNames DEF NZ!Next
<1>4. QED
  BY <1>1, <1>2, <1>3

\* NCZarr, for any variables and layouts, also of different ranks, and any number of
\* writes and faults: however the calls of the callbacks alternate, a variable that
\* was written and never failed has its attributes and its filter; and if its writes
\* had one rank, it has every element of every write, with the last value.
THEOREM NczarrOkMeansStoredHolds == Spec => []NczarrOkMeansStored
<1>1. Init => NczarrIInv
  BY NczarrInit DEF NczarrIInv
<1>2. NczarrIInv /\ [Next]_vars => NczarrIInv'
  BY NczarrStep
<1>3. NczarrIInv => NczarrOkMeansStored
  <2>1. SUFFICES ASSUME backend = "nczarr", NczarrInv,
                        NEW v \in {log[k].var : k \in DOMAIN log} \ threw
                 PROVE  LET cells == file.vars[v].cells IN
                        /\ file.vars[v].attrs /\ file.vars[v].filter /\ file.vars[v].committed
                        /\ OneRank(v) => \A k \in DOMAIN log :
                             log[k].var = v => Cells(log[k].ext) \subseteq DOMAIN cells
                        /\ \A i \in DOMAIN cells : Kept(v, i, cells[i])
    BY DEF NczarrIInv, NczarrOkMeansStored
  <2>2. log \in Seq(Entries) /\ v \in Vars \ threw /\ Logged(v)
    BY <2>1, EntryFacts DEF NczarrInv, CommonType, Logged
  <2>3. NczarrVar(v)
    BY <2>1, <2>2 DEF NczarrInv
  <2> DEFINE x == file.vars[v]
  <2>4. /\ x.attrs /\ x.filter /\ x.committed
        /\ \E s \in Offered(v) : Len(s) = Len(x.dims)
        /\ \A s \in Shapes(v) : Len(s) = Len(x.dims) => Cells(s) \subseteq DOMAIN x.cells
        /\ RowMajorOnly(v) /\ Ranked(v, Len(x.dims)) =>
             \A i \in DOMAIN x.cells : x.cells[i] = LastWritten(v, i)
    BY <2>2, <2>3 DEF NczarrVar
  <2> HIDE DEF x
  <2>5. OneRank(v) => Ranked(v, Len(x.dims))
    <3>1. Offered(v) = Shapes(v)
      BY <2>2 DEF Offered, Shapes, Logged
    <3>2. QED
      BY <2>4, <3>1, RankedFacts
  <2>6. OneRank(v) => \A k \in DOMAIN log :
          log[k].var = v => Cells(log[k].ext) \subseteq DOMAIN x.cells
    BY <2>4, <2>5 DEF Ranked, Shapes
  <2>7. \A i \in DOMAIN x.cells : Kept(v, i, x.cells[i])
    BY <2>4, <2>5 DEF Kept
  <2>8. QED
    BY <2>4, <2>6, <2>7 DEF x
<1>4. QED
  BY <1>1, <1>2, <1>3, PTL DEF Spec

-----------------------------------------------------------------------------
(* netCDF.                                                                 *)

\* A variable that never failed is in the file once a write of it has returned:
\* complete, on dimensions at least as long as each of its fields of that rank, and
\* if all have it, every element the last write of it.
NetcdfVar(v) ==
  LET have == file.exists /\ v \in DOMAIN file.vars
      x == file.vars[v]
      r == Len(x.dims)
  IN  /\ have <=> Logged(v)
      /\ have =>
           /\ x.attrs /\ (x.filter <=> drv.codec)
           /\ x.dims \in [1 .. r -> DOMAIN file.dims] /\ r \in Nat
           /\ \E s \in Shapes(v) : Len(s) = r
           /\ \A s \in Shapes(v) : Len(s) = r =>
                \A d \in Dims(s) : s[d] <= file.dims[x.dims[d]].len
           /\ RowMajorOnly(v) /\ (\A s \in Shapes(v) : Len(s) = r) =>
                \A i : NcElement(file, v, i) = LastWritten(v, i)

\* Which sessions and files there can be together.
NetcdfControl ==
  /\ DOMAIN drv = {"open", "write", "codec", "leaked"}
  /\ file.exists => IsFile(file)
  /\ drv.open \/ drv.write => file.exists
  /\ started = 0 => log = <<>>

\* The inductive invariant of the NetCDF driver.
NetcdfInv == CommonType /\ NetcdfControl /\ \A v \in Vars \ threw : NetcdfVar(v)

\* The instance of the driver works with the shapes of BackendDriver and the calls
\* of NetcdfLibrary.
LEMMA NetcdfNames ==
  /\ \A s : NC!Cells(s) = Cells(s)
  /\ \A l, n : NC!Snapshot(l, n) = Snapshot(l, n)
  /\ \A s : NC!Boxes(s) = Boxes(s)
  /\ \A b, k : NC!BoxIndex(b, k) = BoxIndex(b, k)
  /\ NC!Idle = Idle /\ NC!NotFound = NotFound /\ NC!Fill = Fill
  /\ \A c : NC!nc_create(c) = nc_create(c)
  /\ \A f : NC!nc_redef(f) = nc_redef(f)
  /\ \A f, s, n, u : NC!nc_def_dim(f, s, n, u) = nc_def_dim(f, s, n, u)
  /\ \A f, v, s : NC!nc_def_var(f, v, s) = nc_def_var(f, v, s)
  /\ \A f, v : NC!nc_put_att(f, v) = nc_put_att(f, v)
  /\ \A f, v : NC!nc_def_var_filter(f, v) = nc_def_var_filter(f, v)
  /\ \A f : NC!nc_enddef(f) = nc_enddef(f)
  /\ \A f : NC!nc_sync(f) = DataMode(f) /\ NC!nc_close(f) = DataMode(f)
  /\ \A f, v, s : NC!Regions(f, v, s) = Regions(f, v, s)
  /\ \A f, v, g : NC!Fits(f, v, g) = Fits(f, v, g)
  /\ \A f, v, g, x : NC!nc_put_vara(f, v, g, x) = nc_put_vara(f, v, g, x)
  /\ \A f, v, i : NC!NcElement(f, v, i) = NcElement(f, v, i)
  /\ \A f, v : NC!HasVar(f, v) = (v \in DOMAIN f.vars)
  /\ \A f, s : NC!DimIds(f, s) = DimIds(f, s)
  /\ \A b : NC!Size(b) = Size(b)
  /\ \A v, n, l : NC!Returned(v, n, l) = Returned(v, n, l)
<1> USE DEF Dims, NC!Dims, RowMajorStrides, NC!RowMajorStrides
<1>1. \A s : NC!Cells(s) = Cells(s)
  BY DEF Cells, NC!Cells, Size, NC!Size, IndexAt, NC!IndexAt
<1>2. \A l, n : NC!Snapshot(l, n) = Snapshot(l, n)
  BY DEF Snapshot, NC!Snapshot, Cells, NC!Cells, Size, NC!Size, IndexAt, NC!IndexAt,
         ActualStrides, NC!ActualStrides, Offset, NC!Offset, Junk, NC!Junk
<1>3. \A s : NC!Boxes(s) = Boxes(s)
  BY DEF Boxes, NC!Boxes, Max, NC!Max
<1>4. \A b, k : NC!BoxIndex(b, k) = BoxIndex(b, k)
  BY DEF BoxIndex, NC!BoxIndex, IndexAt, NC!IndexAt
<1>5. NC!Idle = Idle /\ NC!NotFound = NotFound /\ NC!Fill = Fill
  BY DEF Idle, NC!Idle, NotFound, NC!NotFound, Fill, NC!Fill
<1>6. \A c : NC!nc_create(c) = nc_create(c)
  BY DEF nc_create, NC!nc_create, Fill, NC!Fill
<1>7. \A f : NC!nc_redef(f) = nc_redef(f) /\ NC!nc_enddef(f) = nc_enddef(f)
  BY DEF nc_redef, NC!nc_redef, nc_enddef, NC!nc_enddef
<1>8. \A f, s, n, u : NC!nc_def_dim(f, s, n, u) = nc_def_dim(f, s, n, u)
  BY DEF nc_def_dim, NC!nc_def_dim
<1>9. \A f, v, s : NC!nc_def_var(f, v, s) = nc_def_var(f, v, s)
  BY DEF nc_def_var, NC!nc_def_var, Fill, NC!Fill
<1>10. \A f, v : /\ NC!nc_put_att(f, v) = nc_put_att(f, v)
                 /\ NC!nc_def_var_filter(f, v) = nc_def_var_filter(f, v)
  BY DEF nc_put_att, NC!nc_put_att, nc_def_var_filter, NC!nc_def_var_filter
<1>11. \A f : NC!nc_sync(f) = DataMode(f) /\ NC!nc_close(f) = DataMode(f)
  BY DEF NC!nc_sync, NC!nc_close, DataMode, NC!DataMode, nc_enddef, NC!nc_enddef
<1>12. /\ \A f, v, s : NC!Regions(f, v, s) = Regions(f, v, s)
       /\ \A f, v, g : NC!Fits(f, v, g) = Fits(f, v, g)
  BY DEF Regions, NC!Regions, Fits, NC!Fits, VarDim, NC!VarDim
<1>13. \A f, v, g, x : NC!nc_put_vara(f, v, g, x) = nc_put_vara(f, v, g, x)
  BY DEF nc_put_vara, NC!nc_put_vara, DataMode, NC!DataMode, nc_enddef, NC!nc_enddef,
         Offset, NC!Offset, Cells, NC!Cells, Size, NC!Size, IndexAt, NC!IndexAt,
         Max, NC!Max, Area, NC!Area, Junk, NC!Junk
<1>14. /\ \A f, v, i : NC!NcElement(f, v, i) = NcElement(f, v, i)
       /\ \A f, v : NC!HasVar(f, v) = (v \in DOMAIN f.vars)
       /\ \A f, s : NC!DimIds(f, s) = DimIds(f, s)
       /\ \A b : NC!Size(b) = Size(b)
       /\ \A v, n, l : NC!Returned(v, n, l) = Returned(v, n, l)
  BY DEF NcElement, NC!NcElement, Fill, NC!Fill, NC!HasVar, DimIds, NC!DimIds, Size, NC!Size,
         Returned, NC!Returned
<1>15. QED
  BY <1>1, <1>2, <1>3, <1>4, <1>5, <1>6, <1>7, <1>8, <1>9, <1>10, <1>11, <1>12, <1>13, <1>14,
     Zenon

\* A field that fits a file fits it when its dimensions have grown.
LEMMA FieldFits ==
  ASSUME NEW f, IsFile(f), NEW h, IsFile(h), Grows(f, h), NEW s, Shape(s),
         NEW dims \in [1 .. Len(s) -> DOMAIN f.dims],
         \A d \in Dims(s) : s[d] <= f.dims[dims[d]].len
  PROVE  \A d \in Dims(s) : s[d] <= h.dims[dims[d]].len
<1> TAKE d \in Dims(s)
<1>1. PICK j : j = dims[d]
  OBVIOUS
<1>2. d \in 1 .. Len(s) /\ s[d] \in Nat
  BY ShapeFacts DEF Dims
<1>3. j \in DOMAIN f.dims
  BY <1>1, <1>2
<1>4. /\ j \in DOMAIN h.dims /\ f.dims[j].len <= h.dims[j].len
      /\ f.dims[j].len \in Nat /\ h.dims[j].len \in Nat
  BY <1>3 DEF Grows, IsFile, IsDim
<1>5. s[d] <= f.dims[j].len
  BY <1>1
<1>6. \A a, b, c \in Nat : a <= b /\ b <= c => a <= c
  OBVIOUS
<1>7. QED
  BY <1>1, <1>2, <1>4, <1>5, <1>6

\* The calls for another variable leave v complete.
LEMMA NetcdfOther ==
  ASSUME NEW v, NetcdfVar(v), file'.exists = file.exists, drv'.codec = drv.codec,
         file.exists => IsFile(file) /\ IsFile(file') /\ Keeps(file, file', v) /\ Grows(file, file'),
         log \in Seq(Entries), LogKept(v)
  PROVE  NetcdfVar(v)'
<1> DEFINE x == file.vars[v]
           y == file'.vars[v]
           have == file.exists /\ v \in DOMAIN file.vars
<1> PICK r : r = Len(x.dims)
  OBVIOUS
<1>1. /\ (file'.exists /\ v \in DOMAIN file'.vars) <=> have
      /\ have => /\ y.dims = x.dims /\ y.attrs = x.attrs /\ y.filter = x.filter
                 /\ y.cells = x.cells
  BY DEF Keeps
<1>2. /\ (Logged(v)' <=> Logged(v)) /\ Shapes(v)' = Shapes(v)
      /\ RowMajorOnly(v)' => RowMajorOnly(v)
      /\ \A i : LastWritten(v, i)' = LastWritten(v, i)
  BY DEF LogKept
<1>3. have <=> Logged(v)'
  BY <1>2 DEF NetcdfVar
<1>4. SUFFICES ASSUME have
               PROVE  /\ y.attrs /\ (y.filter <=> drv'.codec) /\ Len(y.dims) = r
                      /\ y.dims \in [1 .. r -> DOMAIN file'.dims] /\ r \in Nat
                      /\ \E s \in Shapes(v)' : Len(s) = r
                      /\ \A s \in Shapes(v)' : Len(s) = r =>
                           \A d \in Dims(s) : s[d] <= file'.dims[y.dims[d]].len
                      /\ RowMajorOnly(v)' /\ (\A s \in Shapes(v)' : Len(s) = r) =>
                           \A i : NcElement(file', v, i) = LastWritten(v, i)'
  <2> HIDE DEF x, y
  <2>1. QED
    BY <1>1, <1>3 DEF NetcdfVar, y
<1>5. /\ x.attrs /\ (x.filter <=> drv.codec)
      /\ x.dims \in [1 .. r -> DOMAIN file.dims] /\ r \in Nat
      /\ \E s \in Shapes(v) : Len(s) = r
      /\ \A s \in Shapes(v) : Len(s) = r =>
           \A d \in Dims(s) : s[d] <= file.dims[x.dims[d]].len
      /\ RowMajorOnly(v) /\ (\A s \in Shapes(v) : Len(s) = r) =>
           \A i : NcElement(file, v, i) = LastWritten(v, i)
  BY <1>4 DEF NetcdfVar
<1>6. \A i : NcElement(file', v, i) = NcElement(file, v, i)
  BY <1>1, <1>4 DEF NcElement
<1>7. Grows(file, file') /\ IsFile(file) /\ IsFile(file') /\ y.dims = x.dims /\ Len(y.dims) = r
  BY <1>1, <1>4
<1> HIDE DEF x, y, have
<1>8. y.attrs /\ (y.filter <=> drv'.codec)
  BY <1>1, <1>4, <1>5
<1>9. x.dims \in [1 .. r -> DOMAIN file'.dims]
  BY <1>5, <1>7 DEF Grows
<1>10. ASSUME NEW s \in Shapes(v), Len(s) = r
       PROVE  \A d \in Dims(s) : s[d] <= file'.dims[x.dims[d]].len
  <2>1. Shape(s)
    BY ShapesFacts
  <2>2. x.dims \in [1 .. Len(s) -> DOMAIN file.dims]
    BY <1>5, <1>10
  <2>3. \A d \in Dims(s) : s[d] <= file.dims[x.dims[d]].len
    BY <1>5, <1>10
  <2>4. QED
    BY <1>7, <2>1, <2>2, <2>3, FieldFits
<1>11. QED
  BY <1>2, <1>5, <1>6, <1>7, <1>8, <1>9, <1>10

\* There is a best match.
LEMMA NetcdfBestMatch ==
  ASSUME NEW f, IsFile(f), NEW ids \in SUBSET DOMAIN f.dims, ids # {}, NEW role
  PROVE  NC!BestMatch(f, ids, role) \in ids
<1> DEFINE score(i) == NC!Score(f.dims[i].name, role)
           S == {3 - score(i) : i \in ids}
<1>1. \A i : score(i) \in 0 .. 3
  BY DEF NC!Score
<1>2. ids \in SUBSET Nat
  BY DEF IsFile
<1> HIDE DEF score
<1>3. S \in SUBSET Nat /\ S # {}
  BY <1>1
<1>4. PICK s \in S : \A y \in S : s <= y
  BY <1>3, LeastNat
<1> DEFINE T == {i \in ids : 3 - score(i) = s}
<1>5. T \in SUBSET Nat /\ T # {}
  BY <1>2, <1>4
<1>6. PICK t \in T : \A y \in T : t <= y
  BY <1>5, LeastNat
<1>7. ASSUME NEW j \in ids PROVE score(j) < score(t) \/ (score(j) = score(t) /\ t <= j)
  <2>1. s <= 3 - score(j) /\ 3 - score(t) = s
    BY <1>4, <1>6
  <2>2. score(j) < score(t) \/ score(j) = score(t)
    BY <1>1, <2>1
  <2>3. score(j) = score(t) => t <= j
    BY <1>6, <2>1
  <2>4. QED
    BY <2>2, <2>3
<1>8. t \in ids
  BY <1>6
<1> HIDE DEF T, S
<1>9. \E i \in ids : \A j \in ids : score(j) < score(i) \/ (score(j) = score(i) /\ i <= j)
  BY <1>7, <1>8
<1>10. QED
  BY <1>9 DEF NC!BestMatch, score

\* The dimension of one axis of a new variable.
LEMMA NetcdfPlaceDim ==
  ASSUME NEW f, IsFile(f), NEW v, NEW ext, NEW d, ext[d] \in Nat, NEW w
  PROVE  LET q == NC!PlaceDim(f, v, ext, d) IN
         Changes(f, q.f, w) /\ q.f.vars = f.vars /\ q.id \in DOMAIN q.f.dims
<1> DEFINE matching == IF v \in NC!Coordinates THEN {} ELSE NC!MatchingDims(f, ext[d])
           name == NC!DimName(v, ext, d)
           default == DimIds(f, name)
           q == NC!PlaceDim(f, v, ext, d)
           best == NC!BestMatch(f, matching, NC!AxisRole(ext, d))
           g == nc_def_dim(f, name, ext[d], name = <<"time">>)
<1>1. \/ matching # {} /\ q = [f |-> f, id |-> best]
      \/ default # {} /\ q = [f |-> f, id |-> CHOOSE i \in default : TRUE]
      \/ q = [f |-> g, id |-> Len(f.dims) + 1]
  <2>1. NC!DimIds(f, name) = default /\ NC!nc_def_dim(f, name, ext[d], name = <<"time">>) = g
    BY NetcdfNames, Zenon
  <2> HIDE DEF default, g, best, name, matching
  <2>2. q = IF matching # {} THEN [f |-> f, id |-> best]
            ELSE IF NC!DimIds(f, name) # {} THEN [f |-> f, id |-> CHOOSE i \in NC!DimIds(f, name) : TRUE]
            ELSE [f |-> NC!nc_def_dim(f, name, ext[d], name = <<"time">>), id |-> Len(f.dims) + 1]
    BY Zenon DEF NC!PlaceDim, matching, best, name
  <2>3. QED
    BY <2>1, <2>2
<1>2. matching \in SUBSET DOMAIN f.dims /\ default \in SUBSET DOMAIN f.dims
  BY DEF NC!MatchingDims, DimIds
<1>3. Changes(f, f, w)
  BY ChangesNothing
<1>4. Changes(f, g, w) /\ g.vars = f.vars /\ Len(f.dims) + 1 \in DOMAIN g.dims
  <2>1. ASSUME NEW s, NEW n \in Nat, NEW u
        PROVE  LET h == nc_def_dim(f, s, n, u)
               IN  Changes(f, h, w) /\ h.vars = f.vars /\ Len(f.dims) + 1 \in DOMAIN h.dims
    BY DefDimFacts
  <2> HIDE DEF name
  <2>2. QED
    BY <2>1, Zenon
<1> HIDE DEF name, default, g
<1>5. CASE matching # {} /\ q = [f |-> f, id |-> best]
  <2>1. best \in matching
    <3> HIDE DEF matching
    <3>1. QED
      BY <1>2, <1>5, NetcdfBestMatch
  <2> HIDE DEF matching, best
  <2>2. QED
    BY <1>2, <1>3, <1>5, <2>1
<1>6. CASE default # {} /\ q = [f |-> f, id |-> CHOOSE i \in default : TRUE]
  <2>1. (CHOOSE i \in default : TRUE) \in default
    BY <1>6
  <2> HIDE DEF q
  <2>2. QED
    BY <1>2, <1>3, <1>6, <2>1 DEF q
<1>7. CASE q = [f |-> g, id |-> Len(f.dims) + 1]
  BY <1>4, <1>7
<1>8. QED
  <2> HIDE DEF matching, q, best
  <2>1. QED
    BY <1>1, <1>5, <1>6, <1>7 DEF q

\* The dimensions of a new variable, one after the other: the recursive function
\* exists, adds dimensions at most and has an id of each.
LEMMA NetcdfPlaceDims ==
  ASSUME NEW f, IsFile(f), NEW v, NEW ext, Shape(ext), NEW w
  PROVE  \A m \in 0 .. Len(ext) :
           LET p == NC!PlaceDims(f, v, ext)[m] IN
           /\ Changes(f, p.f, w) /\ p.f.vars = f.vars
           /\ p.ids \in [1 .. m -> DOMAIN p.f.dims]
<1> DEFINE next(p, d) == LET q == NC!PlaceDim(p.f, v, ext, d)
                         IN  [f |-> q.f, ids |-> Append(p.ids, q.id)]
           first == [f |-> NC!nc_redef(f), ids |-> <<>>]
           Upto(m, s) == s = [d \in 0 .. m |-> IF d = 0 THEN first ELSE next(s[d - 1], d)]
           S == {m \in Nat : \E s : Upto(m, s)}
<1>1. Len(ext) \in Nat /\ \A d \in 1 .. Len(ext) : ext[d] \in Nat
  BY ShapeFacts
<1> DEFINE place == CHOOSE s : Upto(Len(ext), s)
<1>2. NC!PlaceDims(f, v, ext) = place
  BY DEF NC!PlaceDims
<1>3. /\ \A p, d : /\ next(p, d).f = NC!PlaceDim(p.f, v, ext, d).f
                   /\ next(p, d).ids = Append(p.ids, NC!PlaceDim(p.f, v, ext, d).id)
      /\ first.f = nc_redef(f) /\ first.ids = <<>>
  BY NetcdfNames
<1> HIDE DEF next, first
<1>4. 0 \in S
  <2> DEFINE s == [d \in 0 .. 0 |-> first]
  <2>1. Upto(0, s)
    OBVIOUS
  <2>2. QED
    BY <2>1
<1>5. ASSUME NEW m \in Nat, m \in S PROVE m + 1 \in S
  <2>1. PICK s : Upto(m, s)
    BY <1>5
  <2> DEFINE t == [d \in 0 .. m + 1 |-> IF d = m + 1 THEN next(s[m], m + 1) ELSE s[d]]
  <2>2. ASSUME NEW d \in 0 .. m + 1
        PROVE  t[d] = IF d = 0 THEN first ELSE next(t[d - 1], d)
    <3>1. CASE d = m + 1
      <4>1. m \in 0 .. m + 1 /\ m # m + 1 /\ (m + 1) - 1 = m /\ m + 1 # 0
        OBVIOUS
      <4>2. t[m] = s[m]
        BY <4>1
      <4>3. QED
        BY <3>1, <4>1, <4>2
    <3>2. CASE d # m + 1
      <4>1. d \in 0 .. m /\ (d # 0 => d - 1 \in 0 .. m + 1 /\ d - 1 # m + 1)
        BY <3>2
      <4>2. s[d] = IF d = 0 THEN first ELSE next(s[d - 1], d)
        BY <2>1, <4>1
      <4>3. t[d] = s[d] /\ (d # 0 => t[d - 1] = s[d - 1])
        BY <3>2, <4>1
      <4>4. QED
        BY <4>2, <4>3
    <3>3. QED
      BY <3>1, <3>2
  <2>3. t = [d \in 0 .. m + 1 |-> IF d = 0 THEN first ELSE next(t[d - 1], d)]
    BY <2>2
  <2> HIDE DEF t
  <2>4. Upto(m + 1, t)
    BY <2>3
  <2> HIDE DEF Upto
  <2>5. QED
    BY <2>4
<1>6. \A m \in Nat : m \in S
  <2> HIDE DEF S
  <2>1. QED
    BY <1>4, <1>5, NatInduct
<1>7. Upto(Len(ext), place)
  <2>1. \E s : Upto(Len(ext), s)
    BY <1>1, <1>6
  <2> HIDE DEF Upto
  <2>2. QED
    BY <2>1
<1> HIDE DEF S, place
<1>8. place[0] = first /\ \A d \in 1 .. Len(ext) : place[d] = next(place[d - 1], d)
  BY <1>1, <1>7
<1> DEFINE Good(m, p) == /\ Changes(f, p.f, w) /\ p.f.vars = f.vars
                         /\ p.ids \in [1 .. m -> DOMAIN p.f.dims]
           T == {m \in Nat : m <= Len(ext) => Good(m, place[m])}
<1>9. 0 \in T
  <2>1. Changes(f, nc_redef(f), w) /\ nc_redef(f).vars = f.vars
    BY RedefFacts
  <2>2. <<>> \in [1 .. 0 -> DOMAIN nc_redef(f).dims]
    OBVIOUS
  <2>3. QED
    BY <1>3, <1>8, <2>1, <2>2
<1>10. ASSUME NEW m \in Nat, m \in T PROVE m + 1 \in T
  <2>1. SUFFICES ASSUME m + 1 <= Len(ext) PROVE Good(m + 1, place[m + 1])
    OBVIOUS
  <2>2. m <= Len(ext) /\ m + 1 \in 1 .. Len(ext) /\ (m + 1) - 1 = m
    BY <1>1, <2>1
  <2> DEFINE p == place[m]
             q == NC!PlaceDim(p.f, v, ext, m + 1)
  <2>3. Good(m, p) /\ IsFile(p.f)
    BY <1>10, <2>2 DEF Changes
  <2>4. place[m + 1].f = q.f /\ place[m + 1].ids = Append(p.ids, q.id)
    <3>1. place[m + 1] = next(p, m + 1)
      BY <1>8, <2>2
    <3>2. QED
      BY <1>3, <3>1, Zenon
  <2>5. Changes(p.f, q.f, w) /\ q.f.vars = p.f.vars /\ q.id \in DOMAIN q.f.dims
    <3>1. ext[m + 1] \in Nat
      BY <1>1, <2>2
    <3> HIDE DEF p
    <3>2. ASSUME NEW d, ext[d] \in Nat
          PROVE  LET r == NC!PlaceDim(p.f, v, ext, d) IN
                 Changes(p.f, r.f, w) /\ r.f.vars = p.f.vars /\ r.id \in DOMAIN r.f.dims
      BY <2>3, <3>2, NetcdfPlaceDim
    <3>3. QED
      BY <3>1, <3>2, Zenon
  <2> HIDE DEF p, q
  <2>6. Changes(f, q.f, w) /\ q.f.vars = f.vars
    BY <2>3, <2>5, ChangesTransitive
  <2>7. Append(p.ids, q.id) \in [1 .. m + 1 -> DOMAIN q.f.dims]
    <3>1. p.ids \in [1 .. m -> DOMAIN q.f.dims]
      BY <2>3, <2>5 DEF Changes, Grows
    <3>2. ASSUME NEW D, NEW s \in [1 .. m -> D], NEW e \in D
          PROVE  Append(s, e) \in [1 .. m + 1 -> D]
      <4>1. s \in Seq(D) /\ Len(s) = m
        BY <3>2
      <4>2. Append(s, e) \in Seq(D) /\ Len(Append(s, e)) = m + 1
        BY <3>2, <4>1
      <4>3. \A z \in Seq(D) : z \in [1 .. Len(z) -> D]
        OBVIOUS
      <4>4. QED
        BY <4>2, <4>3, Zenon
    <3>3. QED
      BY <2>5, <3>1, <3>2
  <2>8. QED
    BY <2>4, <2>6, <2>7
<1>11. \A m \in Nat : m \in T
  <2> HIDE DEF T
  <2>1. QED
    BY <1>9, <1>10, NatInduct
<1>12. ASSUME NEW m \in 0 .. Len(ext) PROVE Good(m, place[m])
  <2> HIDE DEF Good
  <2>1. m \in T /\ m <= Len(ext)
    BY <1>1, <1>11, <1>12
  <2>2. QED
    BY <2>1
<1>13. QED
  BY <1>2, <1>12

\* Every stage of the definition of v changes nothing but v; the last one has the
\* whole variable and no data.
LEMMA NetcdfDefinition ==
  ASSUME IsFile(file), NEW v, v \notin DOMAIN file.vars, NEW ext, Shape(ext)
  PROVE  LET stages == NC!Definition(file, v, ext)
             n == Len(stages)
             f == stages[n]
             x == f.vars[v]
         IN  /\ n = Len(ext) + 4 /\ n \in Nat /\ \A k \in 1 .. n : Changes(file, stages[k], v)
             /\ v \in DOMAIN f.vars /\ x.attrs /\ (x.filter <=> drv.codec)
             /\ x.dims \in [1 .. Len(ext) -> DOMAIN f.dims] /\ DOMAIN x.cells = {}
<1> DEFINE place == NC!PlaceDims(file, v, ext)
           rank == Len(ext)
           g == place[rank].f
           ids == place[rank].ids
           var == nc_def_var(g, v, ids)
           att == nc_put_att(var, v)
           flt == IF drv.codec THEN nc_def_var_filter(att, v) ELSE att
           end == nc_enddef(flt)
           head == [d \in 1 .. rank |-> place[d].f]
           stages == head \o <<var, att, flt, end>>
<1>1. NC!Definition(file, v, ext) = stages
  <2>1. /\ \A h, i : NC!nc_def_var(h, v, i) = nc_def_var(h, v, i)
        /\ \A h : NC!nc_put_att(h, v) = nc_put_att(h, v)
        /\ \A h : NC!nc_def_var_filter(h, v) = nc_def_var_filter(h, v)
        /\ \A h : NC!nc_enddef(h) = nc_enddef(h)
    BY NetcdfNames, Zenon
  <2>2. QED
    BY <2>1 DEF NC!Definition
<1>2. rank \in Nat /\ rank \in 0 .. rank
  BY ShapeFacts
<1>3. \A d \in 0 .. rank : Changes(file, place[d].f, v)
  BY NetcdfPlaceDims
<1>4. Changes(file, g, v) /\ IsFile(g) /\ ids \in [1 .. rank -> DOMAIN g.dims]
  <2>1. /\ Changes(file, place[rank].f, v)
        /\ place[rank].ids \in [1 .. rank -> DOMAIN place[rank].f.dims]
    BY <1>2, NetcdfPlaceDims, Zenon
  <2> HIDE DEF place
  <2>2. QED
    BY <2>1 DEF Changes
<1> HIDE DEF place, g, ids
<1>5. /\ Changes(g, var, v) /\ var.dims = g.dims /\ v \in DOMAIN var.vars
      /\ var.vars[v].dims = ids /\ DOMAIN var.vars[v].cells = {} /\ IsFile(var)
      /\ var.vars[v].filter = FALSE
  <2>1. /\ Changes(g, var, v) /\ var.dims = g.dims /\ v \in DOMAIN var.vars
        /\ var.vars[v].dims = ids /\ DOMAIN var.vars[v].cells = {}
    <3>1. Len(ids) = rank
      BY <1>2, <1>4
    <3>2. QED
      BY <1>2, <1>4, <3>1, DefVarFacts
  <2>2. IsFile(var)
    BY <2>1 DEF Changes
  <2>3. var.vars[v].filter = FALSE
    BY <1>4 DEF nc_def_var, IsFile
  <2>4. QED
    BY <2>1, <2>2, <2>3
<1> HIDE DEF var
<1>6. /\ Changes(var, att, v) /\ att.dims = var.dims /\ v \in DOMAIN att.vars
      /\ att.vars[v].dims = ids /\ att.vars[v].attrs /\ att.vars[v].filter = FALSE
      /\ DOMAIN att.vars[v].cells = {} /\ IsFile(att)
  <2>1. /\ Changes(var, att, v) /\ att.dims = var.dims /\ v \in DOMAIN att.vars
        /\ att.vars[v].dims = ids /\ att.vars[v].attrs
        /\ att.vars[v].filter = var.vars[v].filter /\ att.vars[v].cells = var.vars[v].cells
    BY <1>5, AttributeFacts
  <2>2. QED
    BY <1>5, <2>1 DEF Changes
<1> HIDE DEF att
<1>7. /\ Changes(att, flt, v) /\ flt.dims = att.dims /\ v \in DOMAIN flt.vars
      /\ flt.vars[v].dims = ids /\ flt.vars[v].attrs /\ (flt.vars[v].filter <=> drv.codec)
      /\ DOMAIN flt.vars[v].cells = {} /\ IsFile(flt)
  <2>1. CASE drv.codec
    <3>1. flt = nc_def_var_filter(att, v)
      BY <2>1
    <3> HIDE DEF flt
    <3>2. /\ Changes(att, flt, v) /\ flt.dims = att.dims /\ v \in DOMAIN flt.vars
          /\ flt.vars[v].dims = ids /\ flt.vars[v].attrs = att.vars[v].attrs
          /\ flt.vars[v].filter /\ flt.vars[v].cells = att.vars[v].cells
      BY <1>6, <3>1, FilterFacts
    <3>3. QED
      BY <1>6, <2>1, <3>2 DEF Changes
  <2>2. CASE ~drv.codec
    <3>1. flt = att
      BY <2>2
    <3> HIDE DEF flt
    <3>2. QED
      BY <1>6, <2>2, <3>1, ChangesNothing
  <2>3. QED
    BY <2>1, <2>2
<1> HIDE DEF flt
<1>8. /\ Changes(flt, end, v) /\ end.dims = flt.dims /\ Keeps(flt, end, v)
  BY <1>7, EndDefFacts
<1> HIDE DEF end
<1>9. /\ v \in DOMAIN end.vars /\ end.vars[v].dims = ids /\ end.vars[v].attrs
      /\ (end.vars[v].filter <=> drv.codec) /\ DOMAIN end.vars[v].cells = {}
      /\ end.dims = g.dims
  BY <1>5, <1>6, <1>7, <1>8 DEF Keeps
<1>10. /\ Changes(file, var, v) /\ Changes(file, att, v) /\ Changes(file, flt, v)
       /\ Changes(file, end, v)
  <2>1. Changes(file, var, v)
    BY <1>4, <1>5, ChangesTransitive
  <2>2. Changes(file, att, v)
    BY <1>6, <2>1, ChangesTransitive
  <2>3. Changes(file, flt, v)
    BY <1>7, <2>2, ChangesTransitive
  <2>4. QED
    BY <1>8, <2>1, <2>2, <2>3, ChangesTransitive
<1>11. /\ Len(stages) = rank + 4 /\ stages[rank + 4] = end
       /\ \A k \in 1 .. rank : stages[k] = place[k].f
       /\ stages[rank + 1] = var /\ stages[rank + 2] = att /\ stages[rank + 3] = flt
  <2>1. PICK D : /\ \A k \in 1 .. rank : place[k].f \in D
                 /\ var \in D /\ att \in D /\ flt \in D /\ end \in D
    <3>1. LET D == {place[k].f : k \in 1 .. rank} \cup {var, att, flt, end}
          IN  /\ \A k \in 1 .. rank : place[k].f \in D
              /\ var \in D /\ att \in D /\ flt \in D /\ end \in D
      OBVIOUS
    <3>2. QED
      BY <3>1
  <2>2. head \in Seq(D) /\ Len(head) = rank /\ \A k \in 1 .. rank : head[k] = place[k].f
    BY <1>2, <2>1
  <2>3. ASSUME NEW h \in Seq(D), Len(h) = rank, NEW a \in D, NEW b \in D, NEW c \in D, NEW e \in D
        PROVE  LET s == h \o <<a, b, c, e>> IN
               /\ Len(s) = rank + 4 /\ s[rank + 4] = e /\ \A k \in 1 .. rank : s[k] = h[k]
               /\ s[rank + 1] = a /\ s[rank + 2] = b /\ s[rank + 3] = c
    BY <1>2, <2>3
  <2> HIDE DEF head
  <2>4. QED
    BY <2>1, <2>2, <2>3
<1> HIDE DEF stages
<1>12. ASSUME NEW k \in 1 .. rank + 4 PROVE Changes(file, stages[k], v)
  <2>1. k \in 1 .. rank \/ k = rank + 1 \/ k = rank + 2 \/ k = rank + 3 \/ k = rank + 4
    BY <1>2, <1>12
  <2>2. k \in 1 .. rank => k \in 0 .. rank
    OBVIOUS
  <2>3. QED
    BY <1>3, <1>10, <1>11, <2>1, <2>2
<1>13. QED
  BY <1>1, <1>2, <1>4, <1>9, <1>11, <1>12

\* The dataset as it is before it is opened.
LEMMA NetcdfInit ==
  ASSUME Init, backend = "netcdf"
  PROVE  NetcdfInv
<1>1. NC!Init
  BY DEF Init
<1>2. /\ DOMAIN drv = {"open", "write", "codec", "leaked"}
      /\ drv.open = FALSE /\ drv.write = FALSE /\ file.exists = FALSE
  BY <1>1 DEF NC!Init, NC!Closed, NC!NoFile
<1>3. cb = [v \in Vars |-> Idle] /\ started = 0 /\ log = <<>>
  BY DEF Init
<1>4. log \in Seq(Entries) /\ \A v : ~Logged(v)
  BY <1>3 DEF Logged
<1>5. \A v \in Vars : NetcdfVar(v)
  BY <1>2, <1>4 DEF NetcdfVar
<1>6. QED
  BY <1>2, <1>3, <1>4, <1>5 DEF NetcdfInv, CommonType, NetcdfControl

\* Opening for writing, even when it fails, leaves an empty file.
LEMMA NetcdfOpenWrite ==
  ASSUME NetcdfInv, NEW m, NC!open_write(m)
  PROVE  NetcdfInv' /\ got' = got
<1>1. started = 0 /\ UNCHANGED <<cb, started, log, threw, got>>
  BY Zenon DEF NC!open_write, NC!NoTransfer
<1>2. PICK c : file' = nc_create(c)
  BY NetcdfNames, Zenon DEF NC!open_write
<1>3. PICK a : \/ drv' = [drv EXCEPT !.open = TRUE, !.write = TRUE, !.codec = a]
               \/ drv' = [drv EXCEPT !.leaked = TRUE]
  BY Zenon DEF NC!open_write
<1>4. IsFile(file') /\ file'.exists /\ DOMAIN file'.vars = {}
  BY <1>2, CreateFacts
<1>5. /\ CommonType' /\ log' = <<>> /\ DOMAIN drv' = {"open", "write", "codec", "leaked"}
  BY <1>1, <1>3 DEF NetcdfInv, NetcdfControl, CommonType
<1>6. NetcdfControl'
  BY <1>4, <1>5 DEF NetcdfControl
<1>7. ASSUME NEW v PROVE NetcdfVar(v)'
  <2>1. ~Logged(v)'
    BY <1>5 DEF Logged
  <2>2. v \notin DOMAIN file'.vars
    BY <1>4
  <2>3. QED
    BY <2>1, <2>2 DEF NetcdfVar
<1>8. QED
  BY <1>1, <1>5, <1>6, <1>7 DEF NetcdfInv

\* Opening for reading, reading, flushing and closing.
LEMMA NetcdfNoTransfer ==
  ASSUME NetcdfInv, UNCHANGED <<cb, started, log, threw>>,
         DOMAIN drv' = DOMAIN drv, drv'.codec = drv.codec,
         drv'.open \/ drv'.write => file.exists,
         file' = file \/ (file.exists /\ file' = DataMode(file))
  PROVE  NetcdfInv'
<1>1. CommonType /\ NetcdfControl /\ (file.exists => IsFile(file))
  BY DEF NetcdfInv, NetcdfControl
<1>2. /\ file'.exists = file.exists
      /\ file.exists => IsFile(file') /\ Grows(file, file')
      /\ \A w : file.exists => Keeps(file, file', w)
  <2>1. CASE file' = file /\ ~file.exists
    BY <2>1
  <2>2. CASE file' = file /\ file.exists
    <3>1. \A w : Changes(file, file, w) /\ Keeps(file, file, w)
      BY <1>1, <2>2, ChangesNothing
    <3>2. QED
      BY <2>2, <3>1 DEF Changes
  <2>3. CASE file.exists /\ file' = DataMode(file)
    <3>1. \A w : Changes(file, file', w) /\ Keeps(file, file', w)
      BY <1>1, <2>3, DataModeFacts
    <3>2. QED
      BY <3>1 DEF Changes
  <2>4. QED
    BY <2>1, <2>2, <2>3
<1>3. CommonType'
  BY <1>1 DEF CommonType
<1>4. NetcdfControl'
  <2>1. drv'.open \/ drv'.write => file'.exists
    BY <1>2, Zenon
  <2>2. QED
    BY <1>1, <1>2, <2>1 DEF NetcdfControl
<1>5. ASSUME NEW w \in Vars \ threw' PROVE NetcdfVar(w)'
  <2>1. NetcdfVar(w) /\ log \in Seq(Entries) /\ DOMAIN log' = DOMAIN log
    BY <1>5 DEF NetcdfInv, CommonType
  <2>2. LogKept(w)
    BY LogUnchanged
  <2>3. QED
    BY <1>1, <1>2, <2>1, <2>2, NetcdfOther
<1>6. QED
  BY <1>3, <1>4, <1>5 DEF NetcdfInv

\* A write that throws.
LEMMA NetcdfThrow ==
  ASSUME NetcdfInv, NEW v, file.exists, Changes(file, file', v), started' = started + 1,
         UNCHANGED <<drv, cb, log>>, threw' = threw \cup {v}
  PROVE  NetcdfInv'
<1>1. CommonType /\ NetcdfControl /\ IsFile(file)
  BY DEF NetcdfInv, NetcdfControl
<1>2. /\ file'.exists = file.exists /\ IsFile(file') /\ Grows(file, file')
      /\ \A w : w # v => Keeps(file, file', w)
  BY DEF Changes
<1>3. CommonType' /\ started' # 0
  BY <1>1 DEF CommonType
<1>4. NetcdfControl'
  BY <1>1, <1>2, <1>3 DEF NetcdfControl
<1>5. ASSUME NEW w \in Vars \ threw' PROVE NetcdfVar(w)'
  <2>1. NetcdfVar(w) /\ log \in Seq(Entries) /\ DOMAIN log' = DOMAIN log /\ w # v
    BY <1>5 DEF NetcdfInv, CommonType
  <2>2. LogKept(w)
    BY LogUnchanged
  <2>3. QED
    BY <1>1, <1>2, <2>1, <2>2, NetcdfOther
<1>6. QED
  BY <1>3, <1>4, <1>5 DEF NetcdfInv

\* What holds of v in a file that is ready to take its data, a field of shape ext.
NetcdfReady(g, v, ext) ==
  LET x == g.vars[v]
      r == Len(x.dims)
  IN  /\ x.attrs /\ (x.filter <=> drv.codec)
      /\ x.dims \in [1 .. r -> DOMAIN g.dims] /\ r \in Nat
      /\ \E s \in Shapes(v) \cup {ext} : Len(s) = r
      /\ \A s \in Shapes(v) : Len(s) = r => \A d \in Dims(s) : s[d] <= g.dims[x.dims[d]].len
      /\ RowMajorOnly(v) /\ (\A s \in Shapes(v) : Len(s) = r) =>
           \A i : NcElement(g, v, i) = LastWritten(v, i)

\* The file a write puts its data in: the variable is found or defined.
LEMMA NetcdfDefined ==
  ASSUME NetcdfInv, file.exists, NEW v \in Vars, NEW l \in Layouts[v]
  PROVE  LET new == v \notin DOMAIN file.vars
             stages == IF new THEN NC!Definition(file, v, l.ext) ELSE <<file>>
             g == stages[Len(stages)]
         IN  /\ Changes(file, g, v) /\ v \in DOMAIN g.vars
             /\ v \in threw \/ NetcdfReady(g, v, l.ext)
             /\ new => \A k \in 1 .. Len(stages) - 1 : Changes(file, stages[k], v)
<1>1. IsFile(file) /\ Shape(l.ext) /\ (v \in threw \/ NetcdfVar(v))
  BY LayoutFacts DEF NetcdfInv, NetcdfControl, IsLayout
<1>2. CASE v \notin DOMAIN file.vars
  <2> DEFINE stages == NC!Definition(file, v, l.ext)
             n == Len(stages)
             g == stages[n]
  <2>1. /\ n \in Nat /\ \A k \in 1 .. n : Changes(file, stages[k], v)
        /\ v \in DOMAIN g.vars /\ g.vars[v].attrs /\ (g.vars[v].filter <=> drv.codec)
        /\ g.vars[v].dims \in [1 .. Len(l.ext) -> DOMAIN g.dims]
        /\ DOMAIN g.vars[v].cells = {} /\ n # 0
    <3>1. /\ n \in Nat /\ \A k \in 1 .. n : Changes(file, stages[k], v)
          /\ v \in DOMAIN g.vars /\ g.vars[v].attrs /\ (g.vars[v].filter <=> drv.codec)
          /\ g.vars[v].dims \in [1 .. Len(l.ext) -> DOMAIN g.dims]
          /\ DOMAIN g.vars[v].cells = {}
      BY <1>1, <1>2, NetcdfDefinition, Zenon
    <3>2. n # 0
      <4>1. n = Len(l.ext) + 4
        BY <1>1, <1>2, NetcdfDefinition, Zenon
      <4>2. Len(l.ext) \in Nat
        BY <1>1, ShapeFacts
      <4> HIDE DEF n
      <4>3. QED
        BY <4>1, <4>2
    <3>3. QED
      BY <3>1, <3>2
  <2>2. Changes(file, g, v) /\ \A k \in 1 .. n - 1 : Changes(file, stages[k], v)
    <3>1. n \in 1 .. n /\ \A k \in 1 .. n - 1 : k \in 1 .. n
      BY <2>1
    <3> HIDE DEF stages, n
    <3>2. QED
      BY <2>1, <3>1
  <2>3. ASSUME v \notin threw PROVE NetcdfReady(g, v, l.ext)
    <3>1. ~Logged(v)
      BY <1>1, <1>2, <2>3 DEF NetcdfVar
    <3>2. Shapes(v) = {} /\ \A i : LastWritten(v, i) = Fill
      BY <3>1 DEF LastWritten, Logged, Shapes
    <3>3. \A i : NcElement(g, v, i) = Fill
      BY <2>1 DEF NcElement
    <3>4. Len(g.vars[v].dims) = Len(l.ext) /\ Len(l.ext) \in Nat
      <4>1. Len(l.ext) \in Nat
        BY <1>1, ShapeFacts
      <4>2. \A m \in Nat : \A D : \A s \in [1 .. m -> D] : Len(s) = m
        OBVIOUS
      <4>3. QED
        BY <2>1, <4>1, <4>2
    <3> HIDE DEF g
    <3>5. QED
      BY <2>1, <3>2, <3>3, <3>4 DEF NetcdfReady
  <2> HIDE DEF n, stages, g
  <2>4. QED
    BY <1>2, <2>1, <2>2, <2>3 DEF g, n, stages
<1>3. CASE v \in DOMAIN file.vars
  <2> DEFINE stages == <<file>>
             g == stages[Len(stages)]
  <2>1. g = file
    OBVIOUS
  <2>2. Changes(file, file, v)
    BY <1>1, ChangesNothing
  <2>3. v \in threw \/ NetcdfReady(file, v, l.ext)
    BY <1>1, <1>3 DEF NetcdfVar, NetcdfReady
  <2> HIDE DEF g
  <2>4. QED
    BY <1>3, <2>1, <2>2, <2>3 DEF g
<1>4. QED
  BY <1>2, <1>3

\* The write itself, of the variable's rank or another.
LEMMA NetcdfPut ==
  ASSUME NetcdfInv, file.exists, NEW v \in Vars, NEW l \in Layouts[v], NEW n \in Nat,
         NEW g, Changes(file, g, v), v \in DOMAIN g.vars, v \in threw \/ NetcdfReady(g, v, l.ext),
         PutOf(g, v, l.ext, Snapshot(l, n), file'),
         Returned(v, n, l), started' = started + 1, UNCHANGED <<drv, cb, threw>>
  PROVE  NetcdfInv'
<1>1. /\ CommonType /\ NetcdfControl /\ IsFile(file) /\ IsFile(g) /\ log \in Seq(Entries)
      /\ IsLayout(l) /\ Shape(l.ext)
  BY LayoutFacts DEF NetcdfInv, NetcdfControl, CommonType, Changes, IsLayout
<1>2. Changes(g, file', v)
  BY DEF PutOf
<1>3. Changes(file, file', v)
  BY <1>1, <1>2, ChangesTransitive
<1>4. /\ file'.exists = file.exists /\ IsFile(file') /\ Grows(file, file') /\ Grows(g, file')
      /\ \A w : w # v => Keeps(file, file', w)
  BY <1>2, <1>3 DEF Changes
<1>5. /\ log' \in Seq(Entries) /\ Logged(v)'
      /\ RowMajorOnly(v)' => RowMajorOnly(v) /\ RowMajorLayout(l)
      /\ Shapes(v)' = Shapes(v) \cup {l.ext}
      /\ \A u : u # v => LogKept(u)
  BY <1>1, ReturnedFacts, LoggedFacts
<1>6. \A i : LastWritten(v, i)' = IF i \in Cells(l.ext) THEN <<n, i>> ELSE LastWritten(v, i)
  BY <1>1, LastWrittenFacts
<1>7. CommonType' /\ started' # 0
  BY <1>1, <1>5 DEF CommonType
<1>8. NetcdfControl'
  BY <1>1, <1>4, <1>7 DEF NetcdfControl
<1>9. ASSUME NEW w \in Vars \ threw', w # v PROVE NetcdfVar(w)'
  <2>1. NetcdfVar(w) /\ Keeps(file, file', w) /\ LogKept(w)
    BY <1>4, <1>5, <1>9 DEF NetcdfInv
  <2>2. QED
    BY <1>1, <1>4, <2>1, NetcdfOther
<1>10. ASSUME v \notin threw' PROVE NetcdfVar(v)'
  <2> DEFINE x == g.vars[v]
             y == file'.vars[v]
  <2> PICK r : r = Len(x.dims)
    OBVIOUS
  <2>1. /\ x.attrs /\ (x.filter <=> drv.codec)
        /\ x.dims \in [1 .. r -> DOMAIN g.dims] /\ r \in Nat
        /\ \E s \in Shapes(v) \cup {l.ext} : Len(s) = r
        /\ \A s \in Shapes(v) : Len(s) = r => \A d \in Dims(s) : s[d] <= g.dims[x.dims[d]].len
        /\ RowMajorOnly(v) /\ (\A s \in Shapes(v) : Len(s) = r) =>
             \A i : NcElement(g, v, i) = LastWritten(v, i)
    BY <1>10 DEF NetcdfReady
  <2>2. /\ y.dims = x.dims /\ y.attrs /\ (y.filter <=> drv.codec) /\ v \in DOMAIN file'.vars
    BY <2>1 DEF PutOf
  <2>3. ASSUME Len(l.ext) = r
        PROVE  /\ DOMAIN y.cells = Cells(l.ext) \cup DOMAIN x.cells
               /\ \A i \in Cells(l.ext) :
                    y.cells[i] = Snapshot(l, n)[Offset(i, RowMajorStrides(l.ext)) + 1]
               /\ \A i \in DOMAIN x.cells \ Cells(l.ext) : y.cells[i] = x.cells[i]
               /\ \A d \in Dims(l.ext) : x.dims[d] \in DOMAIN g.dims =>
                    l.ext[d] <= file'.dims[x.dims[d]].len
    BY <2>3 DEF PutOf
  <2>4. ASSUME RowMajorOnly(v)', \A s \in Shapes(v)' : Len(s) = r, NEW i
        PROVE  NcElement(file', v, i) = LastWritten(v, i)'
    <3>1. Len(l.ext) = r /\ \A s \in Shapes(v) : Len(s) = r
      BY <1>5, <2>4
    <3>2. CASE i \in Cells(l.ext)
      <4>1. Snapshot(l, n)[Offset(i, RowMajorStrides(l.ext)) + 1] = <<n, i>>
        BY <1>1, <1>5, <2>4, <3>2, SnapshotRowMajor
      <4>2. NcElement(file', v, i) = <<n, i>>
        BY <2>3, <3>1, <3>2, <4>1 DEF NcElement
      <4>3. QED
        BY <1>6, <3>2, <4>2
    <3>3. CASE i \notin Cells(l.ext)
      <4>1. NcElement(file', v, i) = NcElement(g, v, i)
        BY <2>3, <3>1, <3>3 DEF NcElement
      <4>2. QED
        BY <1>5, <1>6, <2>1, <2>4, <3>1, <3>3, <4>1
    <3>4. QED
      BY <3>2, <3>3
  <2>5. ASSUME NEW s \in Shapes(v)', Len(s) = r
        PROVE  \A d \in Dims(s) : s[d] <= file'.dims[x.dims[d]].len
    <3>1. CASE s = l.ext
      <4>1. \A d \in Dims(l.ext) : x.dims[d] \in DOMAIN g.dims
        BY <2>1, <2>5, <3>1 DEF Dims
      <4>2. QED
        BY <2>3, <2>5, <3>1, <4>1
    <3>2. CASE s \in Shapes(v)
      <4>1. Shape(s) /\ x.dims \in [1 .. Len(s) -> DOMAIN g.dims]
        BY <1>1, <2>1, <2>5, <3>2, ShapesFacts
      <4>2. \A d \in Dims(s) : s[d] <= g.dims[x.dims[d]].len
        BY <2>1, <2>5, <3>2
      <4> HIDE DEF x
      <4>3. QED
        BY <1>1, <1>4, <4>1, <4>2, FieldFits
    <3>3. QED
      BY <1>5, <2>5, <3>1, <3>2
  <2>6. x.dims \in [1 .. r -> DOMAIN file'.dims]
    BY <1>4, <2>1 DEF Grows
  <2>7. file'.exists /\ drv' = drv /\ Len(y.dims) = r /\ \E s \in Shapes(v)' : Len(s) = r
    BY <1>4, <1>5, <2>1, <2>2
  <2> HIDE DEF x, y
  <2>8. QED
    BY <1>5, <2>1, <2>2, <2>4, <2>5, <2>6, <2>7 DEF NetcdfVar, y
<1>11. QED
  BY <1>7, <1>8, <1>9, <1>10 DEF NetcdfInv

\* A write, whichever of its calls fails.
LEMMA NetcdfWrite ==
  ASSUME NetcdfInv, NEW v \in Vars, NEW l \in Layouts[v], NC!write(v, l)
  PROVE  NetcdfInv' /\ got' = got
<1> DEFINE n == started + 1
           new == v \notin DOMAIN file.vars
           stages == IF new THEN NC!Definition(file, v, l.ext) ELSE <<file>>
           g == stages[Len(stages)]
           put(z) == nc_put_vara(g, v, z, Snapshot(l, n))
<1>1. /\ drv.open /\ drv.write /\ started' = n /\ UNCHANGED <<drv, cb, got>>
      /\ \E z \in Regions(g, v, l.ext) :
           \/ Fits(g, v, z) /\ file' = put(z) /\ Returned(v, n, l) /\ threw' = threw
           \/ file' = g /\ threw' = threw \cup {v} /\ log' = log
           \/ /\ \/ file' = file
                 \/ new /\ file' \in {nc_redef(file)} \cup {stages[k] : k \in 1 .. Len(stages) - 1}
                 \/ Fits(g, v, z) /\ file' \in {g, put(z)}
              /\ threw' = threw \cup {v} /\ log' = log
  <2>1. /\ \A f, s : NC!Regions(f, v, s) = Regions(f, v, s)
        /\ \A f, s : NC!Fits(f, v, s) = Fits(f, v, s)
        /\ \A f, s, x : NC!nc_put_vara(f, v, s, x) = nc_put_vara(f, v, s, x)
        /\ NC!Snapshot(l, n) = Snapshot(l, n) /\ NC!Returned(v, n, l) = Returned(v, n, l)
        /\ NC!nc_redef(file) = nc_redef(file) /\ (~NC!HasVar(file, v)) = new
    <3> HIDE DEF n
    <3>1. QED
      BY NetcdfNames
  <2>2. QED
    BY <2>1 DEF NC!write
<1>2. file.exists /\ IsFile(file) /\ n \in Nat /\ Shape(l.ext)
  BY <1>1, LayoutFacts DEF NetcdfInv, NetcdfControl, CommonType, IsLayout
<1>3. /\ Changes(file, g, v) /\ v \in DOMAIN g.vars
      /\ v \in threw \/ NetcdfReady(g, v, l.ext)
      /\ new => \A k \in 1 .. Len(stages) - 1 : Changes(file, stages[k], v)
  BY <1>2, NetcdfDefined, Zenon
<1> HIDE DEF stages, g, n
<1>4. PICK z \in Regions(g, v, l.ext) :
           \/ Fits(g, v, z) /\ file' = put(z) /\ Returned(v, n, l) /\ threw' = threw
           \/ file' = g /\ threw' = threw \cup {v} /\ log' = log
           \/ /\ \/ file' = file
                 \/ new /\ file' \in {nc_redef(file)} \cup {stages[k] : k \in 1 .. Len(stages) - 1}
                 \/ Fits(g, v, z) /\ file' \in {g, put(z)}
              /\ threw' = threw \cup {v} /\ log' = log
  BY <1>1
<1>5. Fits(g, v, z) => PutOf(g, v, l.ext, Snapshot(l, n), put(z))
  <2>1. IsFile(g)
    BY <1>3 DEF Changes
  <2>2. DOMAIN Snapshot(l, n) = 1 .. Size(l.ext)
    BY DEF Snapshot
  <2>3. QED
    BY <1>2, <1>3, <2>1, <2>2, PutVaraFacts
<1>6. CASE Fits(g, v, z) /\ file' = put(z) /\ Returned(v, n, l) /\ threw' = threw
  <2>1. started' = started + 1 /\ PutOf(g, v, l.ext, Snapshot(l, n), file')
    BY <1>1, <1>5, <1>6 DEF n
  <2>2. QED
    BY <1>1, <1>2, <1>3, <1>6, <2>1, NetcdfPut
<1>7. ASSUME threw' = threw \cup {v}, log' = log, Changes(file, file', v) PROVE NetcdfInv'
  <2>1. started' = started + 1
    BY <1>1 DEF n
  <2>2. QED
    BY <1>1, <1>2, <1>7, <2>1, NetcdfThrow
<1>8. Changes(file, nc_redef(file), v) /\ Changes(file, file, v)
  BY <1>2, RedefFacts, ChangesNothing
<1>9. Fits(g, v, z) => Changes(file, put(z), v)
  <2>1. Fits(g, v, z) => Changes(g, put(z), v)
    BY <1>5 DEF PutOf
  <2> HIDE DEF put
  <2>2. QED
    BY <1>2, <1>3, <2>1, ChangesTransitive
<1> HIDE DEF put, new
<1>10. QED
  BY <1>1, <1>3, <1>4, <1>6, <1>7, <1>8, <1>9

\* What describe_variable reports of a variable that never failed.
LEMMA NetcdfInfo ==
  ASSUME NetcdfInv, NEW v \in Vars \ threw, NC!describe_variable(v).found
  PROVE  LET info == NC!describe_variable(v)
             r == Len(file.vars[v].dims)
         IN  \E e : /\ Shape(e) /\ Len(e) = r /\ r \in Nat
                    /\ \E s \in Shapes(v) : Len(s) = r
                    /\ \A s \in Shapes(v) : Len(s) = r => \A d \in 1 .. r : s[d] <= e[d]
                    /\ \/ info.shape = e
                       \/ r > 1 /\ info.shape = Tail(e) /\ info.steps = e[1]
                    /\ RowMajorOnly(v) /\ (\A s \in Shapes(v) : Len(s) = r) =>
                         \A i : NcElement(file, v, i) = LastWritten(v, i)
<1> DEFINE info == NC!describe_variable(v)
           x == file.vars[v]
           r == Len(x.dims)
           e == [d \in 1 .. r |-> file.dims[x.dims[d]].len]
<1>1. drv.open /\ v \in DOMAIN file.vars
  BY NetcdfNames DEF NC!describe_variable, NC!NotFound
<1>2. file.exists /\ IsFile(file) /\ NetcdfVar(v) /\ log \in Seq(Entries)
  BY <1>1 DEF NetcdfInv, NetcdfControl, CommonType
<1>3. /\ x.dims \in [1 .. r -> DOMAIN file.dims] /\ r \in Nat
      /\ \E s \in Shapes(v) : Len(s) = r
      /\ \A s \in Shapes(v) : Len(s) = r => \A d \in Dims(s) : s[d] <= file.dims[x.dims[d]].len
      /\ RowMajorOnly(v) /\ (\A s \in Shapes(v) : Len(s) = r) =>
           \A i : NcElement(file, v, i) = LastWritten(v, i)
  BY <1>1, <1>2 DEF NetcdfVar
<1> HIDE DEF r
<1>4. e \in Seq(Nat) /\ Len(e) = r /\ DOMAIN e = 1 .. r
  <2>1. e \in [1 .. r -> Nat]
    BY <1>2, <1>3 DEF IsFile, IsDim
  <2>2. QED
    BY <1>3, <2>1
<1>5. PICK t \in Shapes(v) : Len(t) = r
  BY <1>3
<1>6. Shape(t)
  BY <1>2, ShapesFacts
<1>7. r \in Nat \ {0} /\ Dims(t) = 1 .. r /\ \A d \in 1 .. r : t[d] \in Nat \ {0}
  BY <1>5, <1>6, ShapeFacts
<1>8. ASSUME NEW d \in 1 .. r PROVE e[d] \in Nat \ {0}
  <2>1. t[d] <= e[d] /\ e[d] \in Nat /\ t[d] \in Nat \ {0}
    BY <1>3, <1>4, <1>5, <1>7
  <2> HIDE DEF e
  <2>2. QED
    BY <2>1
<1>9. \A s \in Shapes(v) : Len(s) = r => \A d \in 1 .. r : s[d] <= e[d]
  BY <1>3 DEF Dims
<1>10. NC!Extents(file, v) = e
  BY <1>3 DEF NC!Extents, NC!VarDim
<1> HIDE DEF e
<1>11. Shape(e)
  BY <1>4, <1>7, <1>8 DEF Shape
<1>12. info.shape = e \/ (r > 1 /\ info.shape = Tail(e) /\ info.steps = e[1])
  <2>1. \/ info = NC!Found(e, 1)
        \/ Len(e) > 1 /\ info = NC!Found(Tail(e), NC!Max({e[1], 1}))
    BY <1>10, NetcdfNames DEF NC!describe_variable, NC!NotFound
  <2>2. NC!Max({e[1], 1}) = e[1]
    <3>1. e[1] \in Nat \ {0}
      BY <1>7, <1>8
    <3>2. \A a \in Nat \ {0} : NC!Max({a, 1}) = a
      BY DEF NC!Max
    <3>3. QED
      BY <3>1, <3>2
  <2>3. QED
    BY <1>4, <2>1, <2>2 DEF NC!Found
<1> HIDE DEF info
<1>13. QED
  BY <1>3, <1>4, <1>9, <1>11, <1>12 DEF info, r

\* What was read of a variable that never failed is what the file has.
NetcdfGot ==
  got # NoRead /\ got.var \notin threw =>
    /\ got.var \in Vars /\ file.exists /\ got.var \in DOMAIN file.vars
    /\ \A k \in DOMAIN got.data :
         LET i == BoxIndex(got.box, k)
             stored == IF Len(file.vars[got.var].dims) > Len(i) THEN <<got.t>> \o i ELSE i
         IN  got.data[k] = NcElement(file, got.var, stored)

\* The shape of a field of a record variable.
LEMMA TailFacts ==
  ASSUME NEW e, Shape(e), Len(e) > 1
  PROVE  /\ Shape(Tail(e)) /\ Len(Tail(e)) = Len(e) - 1 /\ Len(Tail(e)) < Len(e)
         /\ <<e[1]>> \o Tail(e) = e
<1>1. e \in Seq(Nat \ {0}) /\ Len(e) \in Nat
  BY DEF Shape
<1>2. Tail(e) \in Seq(Nat \ {0}) /\ Len(Tail(e)) = Len(e) - 1
  BY <1>1
<1>3. Tail(e) # <<>>
  <2>1. PICK t : t = Tail(e)
    OBVIOUS
  <2>2. Len(t) # 0
    BY <1>1, <1>2, <2>1
  <2>3. QED
    BY <2>1, <2>2
<1>4. <<e[1]>> \o Tail(e) = e
  <2>1. e[1] \in Nat \ {0} /\ \A d \in 1 .. Len(e) - 1 : Tail(e)[d] = e[d + 1]
    BY <1>1
  <2>2. PICK t \in Seq(Nat \ {0}) : t = Tail(e)
    BY <1>2
  <2>3. PICK a \in Nat \ {0} : a = e[1]
    BY <2>1
  <2>4. /\ <<a>> \o t \in Seq(Nat \ {0}) /\ Len(<<a>> \o t) = Len(e)
        /\ (<<a>> \o t)[1] = a /\ \A d \in 2 .. Len(e) : (<<a>> \o t)[d] = t[d - 1]
    BY <1>1, <1>2, <2>2
  <2>5. \A d \in 1 .. Len(e) : (<<a>> \o t)[d] = e[d]
    <3>1. ASSUME NEW d \in 2 .. Len(e) PROVE t[d - 1] = e[d]
      <4>1. d - 1 \in 1 .. Len(e) - 1 /\ (d - 1) + 1 = d
        BY <1>1
      <4>2. QED
        BY <2>1, <2>2, <4>1
    <3>2. \A d \in 1 .. Len(e) : d = 1 \/ d \in 2 .. Len(e)
      BY <1>1
    <3>3. QED
      BY <2>3, <2>4, <3>1, <3>2
  <2>6. <<a>> \o t = e
    <3>1. PICK c : c = <<a>> \o t
      OBVIOUS
    <3>2. /\ c \in Seq(Nat \ {0}) /\ Len(c) = Len(e)
          /\ \A d \in 1 .. Len(e) : c[d] = e[d]
      BY <2>4, <2>5, <3>1
    <3>3. \A m \in Nat : \A x, y \in [1 .. m -> Nat] : (\A d \in 1 .. m : x[d] = y[d]) => x = y
      OBVIOUS
    <3>4. c \in [1 .. Len(e) -> Nat] /\ e \in [1 .. Len(e) -> Nat]
      BY <1>1, <3>2
    <3>5. QED
      BY <1>1, <3>1, <3>2, <3>3, <3>4
  <2>7. QED
    BY <2>2, <2>3, <2>6
<1>5. QED
  BY <1>1, <1>2, <1>3, <1>4 DEF Shape

\* A field lies in every shape that is at least as long in each dimension.
LEMMA CellsInside ==
  ASSUME NEW s, Shape(s), NEW e, Shape(e), Len(s) = Len(e), \A d \in 1 .. Len(e) : s[d] <= e[d]
  PROVE  Cells(s) \subseteq Cells(e)
<1>1. Cells(s) = Bounded(s) /\ Cells(e) = Bounded(e) /\ Dims(s) = 1 .. Len(e) /\ Dims(e) = 1 .. Len(e)
  BY CellsAre DEF Dims
<1>2. \A d \in 1 .. Len(e) : s[d] \in Nat /\ e[d] \in Nat
  BY <1>1, ShapeFacts
<1>3. \A a, b, c \in Nat : a < b /\ b <= c => a < c
  OBVIOUS
<1>4. QED
  BY <1>1, <1>2, <1>3 DEF Bounded

\* The invariant says of a variable what the property does.
LEMMA NetcdfDescribed ==
  ASSUME NetcdfInv, NEW v \in Vars \ threw, Logged(v)
  PROVE  /\ NC!HasVar(file, v)
         /\ file.vars[v].attrs /\ (file.vars[v].filter <=> drv.codec)
         /\ LET info == NC!describe_variable(v)
                whole == IF Len(file.vars[v].dims) > Len(info.shape)
                         THEN <<info.steps>> \o info.shape ELSE info.shape
            IN  info.found /\ OneRank(v) => \A k \in DOMAIN log :
                  log[k].var = v => Cells(log[k].ext) \subseteq Cells(whole)
<1>1. NetcdfVar(v) /\ log \in Seq(Entries)
  BY DEF NetcdfInv, CommonType
<1>2. v \in DOMAIN file.vars /\ file.vars[v].attrs /\ (file.vars[v].filter <=> drv.codec)
  BY <1>1 DEF NetcdfVar
<1> DEFINE info == NC!describe_variable(v)
           r == Len(file.vars[v].dims)
           whole == IF r > Len(info.shape) THEN <<info.steps>> \o info.shape ELSE info.shape
<1>3. ASSUME info.found, OneRank(v), NEW k \in DOMAIN log, log[k].var = v
      PROVE  Cells(log[k].ext) \subseteq Cells(whole)
  <2>1. PICK e : /\ Shape(e) /\ Len(e) = r /\ r \in Nat
                 /\ \E s \in Shapes(v) : Len(s) = r
                 /\ \A s \in Shapes(v) : Len(s) = r => \A d \in 1 .. r : s[d] <= e[d]
                 /\ \/ info.shape = e
                    \/ r > 1 /\ info.shape = Tail(e) /\ info.steps = e[1]
    BY <1>3, NetcdfInfo
  <2> HIDE DEF info
  <2>2. whole = e
    <3>1. CASE info.shape = e
      <4>1. ~(r > Len(info.shape))
        BY <2>1, <3>1
      <4>2. QED
        BY <3>1, <4>1
    <3>2. CASE r > 1 /\ info.shape = Tail(e) /\ info.steps = e[1]
      <4>1. r > Len(info.shape) /\ <<e[1]>> \o Tail(e) = e
        <5>1. Len(Tail(e)) < Len(e) /\ <<e[1]>> \o Tail(e) = e /\ Len(Tail(e)) = Len(e) - 1
          BY <2>1, <3>2, TailFacts
        <5>2. Len(Tail(e)) < r
          BY <2>1, <5>1
        <5>3. QED
          BY <2>1, <3>2, <5>1, <5>2
      <4> HIDE DEF r
      <4>2. whole = <<info.steps>> \o info.shape
        BY <4>1
      <4>3. QED
        BY <3>2, <4>1, <4>2
    <3>3. QED
      BY <2>1, <3>1, <3>2
  <2> HIDE DEF whole, r
  <2>3. Shape(log[k].ext) /\ Len(log[k].ext) = r /\ \A d \in 1 .. r : log[k].ext[d] <= e[d]
    <3>1. log[k].ext \in Shapes(v) /\ Shape(log[k].ext)
      BY <1>1, <1>3, EntryFacts DEF Shapes
    <3>2. Len(log[k].ext) = r
      BY <1>3, <2>1, <3>1, RankedFacts DEF Ranked
    <3>3. QED
      BY <2>1, <3>1, <3>2
  <2>4. Cells(log[k].ext) \subseteq Cells(e)
    BY <2>1, <2>3, CellsInside
  <2>5. QED
    BY <2>2, <2>4
<1>4. QED
  <2>1. NC!HasVar(file, v)
    BY <1>2, NetcdfNames
  <2>2. QED
    BY <1>2, <1>3, <2>1

\* And of a read.
LEMMA NetcdfDelivered ==
  ASSUME NetcdfInv, NetcdfGot, got # NoRead, got.var \notin threw, NEW k \in DOMAIN got.data
  PROVE  LET i == BoxIndex(got.box, k)
             stored == IF Len(file.vars[got.var].dims) > Len(i) THEN <<got.t>> \o i ELSE i
         IN  Kept(got.var, stored, got.data[k])
<1> DEFINE i == BoxIndex(got.box, k)
           stored == IF Len(file.vars[got.var].dims) > Len(i) THEN <<got.t>> \o i ELSE i
<1>1. /\ got.var \in Vars \ threw /\ file.exists /\ got.var \in DOMAIN file.vars
      /\ got.data[k] = NcElement(file, got.var, stored)
  BY Zenon DEF NetcdfGot
<1> HIDE DEF stored
<1>2. RowMajorOnly(got.var) /\ OneRank(got.var) =>
        \A j : NcElement(file, got.var, j) = LastWritten(got.var, j)
  <2> DEFINE r == Len(file.vars[got.var].dims)
  <2>1. /\ \E s \in Shapes(got.var) : Len(s) = r
        /\ RowMajorOnly(got.var) /\ (\A s \in Shapes(got.var) : Len(s) = r) =>
             \A j : NcElement(file, got.var, j) = LastWritten(got.var, j)
    BY <1>1 DEF NetcdfInv, NetcdfVar
  <2> HIDE DEF r
  <2>2. OneRank(got.var) => \A s \in Shapes(got.var) : Len(s) = r
    BY <2>1, RankedFacts DEF Ranked
  <2>3. QED
    BY <2>1, <2>2
<1>3. Kept(got.var, stored, got.data[k])
  BY <1>1, <1>2 DEF Kept
<1>4. QED
  BY <1>3 DEF stored

\* The timestep leads in the index of the element exactly when the file has one
\* more dimension than the box.
LEMMA NetcdfStored ==
  ASSUME NetcdfInv, NEW v \in Vars \ threw, NC!describe_variable(v).found, NEW t,
         NEW b \in Boxes(NC!describe_variable(v).shape), NEW k
  PROVE  LET i == BoxIndex(b, k)
             stored == IF Len(file.vars[v].dims) > Len(i) THEN <<t>> \o i ELSE i
         IN  NC!ReadIndex(v, NC!describe_variable(v), t, i) = stored
<1> DEFINE info == NC!describe_variable(v)
           i == BoxIndex(b, k)
           r == Len(file.vars[v].dims)
           stored == IF r > Len(i) THEN <<t>> \o i ELSE i
<1>1. PICK e : /\ Shape(e) /\ Len(e) = r /\ r \in Nat
               /\ \/ info.shape = e
                  \/ r > 1 /\ info.shape = Tail(e) /\ info.steps = e[1]
  BY NetcdfInfo
<1> HIDE DEF info
<1>2. Shape(info.shape) /\ (r > Len(info.shape) <=> r = Len(info.shape) + 1)
      /\ Len(info.shape) \in Nat
  <2>1. CASE info.shape = e
    BY <1>1, <2>1, ShapeFacts
  <2>2. CASE r > 1 /\ info.shape = Tail(e)
    <3>1. Shape(Tail(e)) /\ Len(Tail(e)) = Len(e) - 1
      BY <1>1, <2>2, TailFacts
    <3>2. Len(Tail(e)) \in Nat /\ r = Len(Tail(e)) + 1
      BY <1>1, <3>1, ShapeFacts
    <3>3. QED
      BY <2>2, <3>1, <3>2
  <2>3. QED
    BY <1>1, <2>1, <2>2
<1>3. Len(i) = Len(info.shape)
  <2>1. Shape(b.ext) /\ Len(b.ext) = Len(info.shape)
    BY <1>2, BoxFacts DEF info
  <2>2. DOMAIN i = 1 .. Len(info.shape) /\ i = [d \in 1 .. Len(info.shape) |-> i[d]]
    BY <2>1 DEF BoxIndex, Dims
  <2> HIDE DEF i
  <2>3. \A m \in Nat : \A s : s = [d \in 1 .. m |-> s[d]] => Len(s) = m
    OBVIOUS
  <2>4. QED
    BY <1>2, <2>2, <2>3
<1> HIDE DEF i
<1>4. NC!ReadIndex(v, info, t, i) = IF r = Len(info.shape) + 1 THEN <<t>> \o i ELSE i
  BY DEF NC!ReadIndex
<1>5. r > Len(i) <=> r = Len(info.shape) + 1
  BY <1>2, <1>3
<1> HIDE DEF r
<1>6. NC!ReadIndex(v, info, t, i) = stored
  BY <1>4, <1>5
<1>7. QED
  BY <1>6 DEF info, i, r

\* A read.
LEMMA NetcdfRead ==
  ASSUME NetcdfInv, NEW v \in Vars, NEW t, NEW b \in Boxes(NC!describe_variable(v).shape),
         NC!read(v, t, b)
  PROVE  NetcdfInv' /\ NetcdfGot'
<1> DEFINE info == NC!describe_variable(v)
           el(k) == NcElement(file, v, NC!ReadIndex(v, info, t, BoxIndex(b, k)))
           size == Size(b.ext)
<1>1. /\ info.found /\ UNCHANGED <<drv, file, cb, started, log, threw>>
      /\ got' = [var |-> v, t |-> t, info |-> info, box |-> b, data |-> [k \in 1 .. size |-> el(k)]]
  <2>1. /\ \A i : NC!NcElement(file, v, i) = NcElement(file, v, i)
        /\ \A k : NC!BoxIndex(b, k) = BoxIndex(b, k)
        /\ NC!Size(b.ext) = Size(b.ext)
    BY NetcdfNames
  <2>2. /\ info.found /\ UNCHANGED <<drv, file, cb, started, log, threw>>
        /\ got' = [var |-> v, t |-> t, info |-> info, box |-> b,
                   data |-> [k \in 1 .. NC!Size(b.ext) |->
                              NC!NcElement(file, v, NC!ReadIndex(v, info, t, NC!BoxIndex(b, k)))]]
    BY DEF NC!read
  <2> HIDE DEF info
  <2>3. [k \in 1 .. NC!Size(b.ext) |-> NC!NcElement(file, v, NC!ReadIndex(v, info, t, NC!BoxIndex(b, k)))]
          = [k \in 1 .. size |-> el(k)]
    BY <2>1
  <2> HIDE DEF size, el
  <2>4. QED
    BY <2>2, <2>3
<1>2. NetcdfInv'
  <2>1. drv.open \/ drv.write => file.exists
    BY DEF NetcdfInv, NetcdfControl
  <2>2. QED
    BY <1>1, <2>1, NetcdfNoTransfer, Zenon
<1>3. /\ got'.var = v /\ got'.t = t /\ got'.box = b /\ got'.data = [k \in 1 .. size |-> el(k)]
      /\ DOMAIN got'.data = 1 .. size /\ \A k \in 1 .. size : got'.data[k] = el(k)
  <2> HIDE DEF info, size, el
  <2>1. QED
    BY <1>1
<1>4. drv.open /\ v \in DOMAIN file.vars
  BY <1>1, NetcdfNames DEF NC!describe_variable, NC!NotFound
<1>5. file.exists
  BY <1>4 DEF NetcdfInv, NetcdfControl
<1>6. ASSUME v \notin threw, NEW k \in DOMAIN got'.data
      PROVE  LET i == BoxIndex(got'.box, k)
                 stored == IF Len(file'.vars[got'.var].dims) > Len(i) THEN <<got'.t>> \o i ELSE i
             IN  got'.data[k] = NcElement(file', got'.var, stored)
  <2> DEFINE i == BoxIndex(b, k)
             stored == IF Len(file.vars[v].dims) > Len(i) THEN <<t>> \o i ELSE i
  <2>1. NC!ReadIndex(v, info, t, i) = stored
    BY <1>1, <1>6, NetcdfStored
  <2> HIDE DEF info, stored
  <2>2. got'.data[k] = NcElement(file, v, stored)
    BY <1>3, <1>6, <2>1
  <2> USE DEF stored
  <2> HIDE DEF size, el
  <2>3. QED
    BY <1>1, <1>3, <2>2
<1>7. NetcdfGot'
  <2> HIDE DEF info, size, el
  <2>1. QED
    BY <1>1, <1>3, <1>4, <1>5, <1>6 DEF NetcdfGot
<1>8. QED
  BY <1>2, <1>7

\* The inductive invariant.
NetcdfIInv == backend = "netcdf" => NetcdfInv /\ NetcdfGot

\* Every step keeps it.
LEMMA NetcdfStep ==
  ASSUME NetcdfIInv, [Next]_vars
  PROVE  NetcdfIInv'
<1>1. CASE UNCHANGED vars
  <2>1. UNCHANGED <<backend, drv, file, cb, started, log, threw, got>>
    BY <1>1 DEF vars
  <2>2. ASSUME NetcdfInv PROVE NetcdfInv'
    <3>1. drv.open \/ drv.write => file.exists
      BY <2>2 DEF NetcdfInv, NetcdfControl
    <3>2. QED
      BY <2>1, <2>2, <3>1, NetcdfNoTransfer, Zenon
  <2>3. ASSUME NetcdfGot PROVE NetcdfGot'
    BY <2>1, <2>3 DEF NetcdfGot, BoxIndex, Dims, NcElement
  <2>4. QED
    BY <2>1, <2>2, <2>3 DEF NetcdfIInv
<1>2. CASE Next /\ backend # "netcdf"
  BY <1>2 DEF Next, NetcdfIInv
<1>3. CASE Next /\ backend = "netcdf"
  <2>1. NC!Next /\ backend' = backend /\ NetcdfInv /\ got = NoRead
    BY <1>3 DEF Next, NetcdfIInv
  <2>2. /\ DOMAIN drv = {"open", "write", "codec", "leaked"}
        /\ drv.open \/ drv.write => file.exists
    BY <2>1 DEF NetcdfInv, NetcdfControl
  <2>3. SUFFICES NetcdfInv' /\ (got' = NoRead \/ NetcdfGot')
    BY DEF NetcdfIInv, NetcdfGot
  <2>4. ASSUME NEW m, NC!open_write(m) PROVE NetcdfInv' /\ got' = NoRead
    BY <2>1, <2>4, NetcdfOpenWrite
  <2>5. ASSUME NEW m, NC!open_read(m) PROVE NetcdfInv' /\ got' = NoRead
    <3>1. /\ UNCHANGED <<file, cb, started, log, threw, got>> /\ file.exists
          /\ drv' = [drv EXCEPT !.open = TRUE, !.write = FALSE]
      BY <2>5, Zenon DEF NC!open_read, NC!NoTransfer
    <3>2. DOMAIN drv' = DOMAIN drv /\ drv'.codec = drv.codec
      BY <2>2, <3>1
    <3>3. QED
      BY <2>1, <3>1, <3>2, NetcdfNoTransfer, Zenon
  <2>6. ASSUME NEW v \in Vars, NEW l \in Layouts[v], NC!write(v, l)
        PROVE  NetcdfInv' /\ got' = NoRead
    BY <2>1, <2>6, NetcdfWrite
  <2>7. ASSUME NEW v \in Vars, NEW t, NEW b \in Boxes(NC!describe_variable(v).shape),
               NC!read(v, t, b)
        PROVE  NetcdfInv' /\ NetcdfGot'
    BY <2>1, <2>7, NetcdfRead
  <2>8. CASE NC!flush
    <3>1. /\ UNCHANGED <<drv, cb, started, log, threw, got>>
          /\ file' = IF drv.write /\ NC!InDataMode(file) THEN DataMode(file) ELSE file
      BY <2>8, NetcdfNames DEF NC!flush, NC!NoTransfer
    <3>2. file' = file \/ (file.exists /\ file' = DataMode(file))
      BY <2>2, <3>1, Zenon
    <3>3. QED
      BY <2>1, <2>2, <3>1, <3>2, NetcdfNoTransfer, Zenon
  <2>9. CASE NC!close
    <3>1. /\ UNCHANGED <<cb, started, log, threw, got>> /\ drv.open
          /\ \/ drv' = drv /\ file' = file
             \/ /\ file' = IF drv.write THEN DataMode(file) ELSE file
                /\ drv' = [drv EXCEPT !.open = FALSE, !.write = FALSE]
      BY <2>9, NetcdfNames DEF NC!close, NC!NoTransfer
    <3>2. DOMAIN drv' = DOMAIN drv /\ drv'.codec = drv.codec /\ file.exists
      BY <2>2, <3>1
    <3>3. file' = file \/ (file.exists /\ file' = DataMode(file))
      BY <2>2, <3>1, Zenon
    <3>4. QED
      BY <2>1, <3>1, <3>2, <3>3, NetcdfNoTransfer, Zenon
  <2>10. \/ \E m \in NC!Manifests : NC!open_write(m) \/ NC!open_read(m)
         \/ \E v \in Vars : \E l \in Layouts[v] : NC!write(v, l)
         \/ \E v \in Vars : \E t \in 0 .. NC!describe_variable(v).steps - 1 :
              \E b \in Boxes(NC!describe_variable(v).shape) : NC!read(v, t, b)
         \/ NC!flush \/ NC!close
    BY <2>1, NetcdfNames DEF NC!Next
  <2>11. QED
    BY <2>4, <2>5, <2>6, <2>7, <2>8, <2>9, <2>10
<1>4. QED
  BY <1>1, <1>2, <1>3

\* netCDF, for any variables and layouts, also of different ranks, and any number of
\* writes and faults: whatever dimensions the variables came to share and whichever
\* calls failed, a variable none of whose writes threw is complete; and if its writes
\* had one rank, its description covers its fields and a read delivers the last write
\* of each element.
THEOREM NetcdfReadBackHolds == Spec => []NetcdfReadBack
<1>1. Init => NetcdfIInv
  <2>1. Init => got = NoRead
    BY DEF Init
  <2>2. QED
    BY <2>1, NetcdfInit DEF NetcdfIInv, NetcdfGot
<1>2. NetcdfIInv /\ [Next]_vars => NetcdfIInv'
  BY NetcdfStep
<1>3. NetcdfIInv => NetcdfReadBack
  <2>1. SUFFICES ASSUME backend = "netcdf", NetcdfInv, NetcdfGot PROVE NetcdfReadBack
    BY DEF NetcdfIInv, NetcdfReadBack
  <2>2. ASSUME NEW v \in {log[k].var : k \in DOMAIN log} \ threw
        PROVE  v \in Vars \ threw /\ Logged(v)
    BY <2>1, <2>2, EntryFacts DEF NetcdfInv, CommonType, Logged
  <2>3. \A v \in {log[k].var : k \in DOMAIN log} \ threw :
          /\ NC!HasVar(file, v)
          /\ file.vars[v].attrs /\ (file.vars[v].filter <=> drv.codec)
          /\ LET info == NC!describe_variable(v)
                 whole == IF Len(file.vars[v].dims) > Len(info.shape)
                          THEN <<info.steps>> \o info.shape ELSE info.shape
             IN  info.found /\ OneRank(v) => \A k \in DOMAIN log :
                   log[k].var = v => Cells(log[k].ext) \subseteq Cells(whole)
    BY <2>1, <2>2, NetcdfDescribed
  <2>4. (got # NoRead /\ got.var \notin threw) =>
          \A k \in DOMAIN got.data :
            LET i == BoxIndex(got.box, k)
                stored == IF Len(file.vars[got.var].dims) > Len(i) THEN <<got.t>> \o i ELSE i
            IN  Kept(got.var, stored, got.data[k])
    BY <2>1, NetcdfDelivered
  <2>5. QED
    BY <2>3, <2>4, Zenon DEF NetcdfReadBack
<1>4. QED
  BY <1>1, <1>2, <1>3, PTL DEF Spec

-----------------------------------------------------------------------------
(* GRIB2.                                                                  *)

\* The message of entry e of the log, written with settings s.
Grib2Matches(m, e, s) ==
  /\ m.discipline = s.discipline /\ m.number = s.pdt_number
  /\ m.pdt = G2!ProductTemplate(s)
  /\ m.gdt = G2!GridTemplate(s, G2!Ni(e.ext), G2!Nj(e.ext))
  /\ m.npts = G2!Ni(e.ext) * G2!Nj(e.ext)
  /\ m.fld = G2!Encode(Snapshot(e, e.n), e)

\* No message of f was cut off by a failing write.
AllWhole(f) == \A k \in DOMAIN f.msgs : f.msgs[k].whole

\* A scan that finds n whole messages and nothing but broken ones behind them has
\* found the log.
Grib2Scanned(f, lg, n) ==
  (/\ \A k \in 1 .. n : f.msgs[k].whole
   /\ \A k \in n + 1 .. Len(f.msgs) : ~f.msgs[k].whole) =>
     n = Len(lg) /\ \A k \in 1 .. n : Grib2Matches(f.msgs[k], lg[k], f.by)

\* The index of n records in the order of the file, all under the name of the host.
Grib2Index(f, n) ==
  [name \in {G2!HostName(f.by)} |->
     [grid |-> G2!GridShape(f.msgs[1].gdt, f.msgs[1].npts), recs |-> [j \in 1 .. n |-> j]]]

\* Which sessions, files and settings there can be together.
Grib2Control ==
  /\ DOMAIN drv = {"init", "read", "out", "settings", "records"}
  /\ DOMAIN file = {"exists", "msgs", "synced", "lost", "by"}
  /\ Len(file.msgs) \in Nat /\ file.msgs = [k \in 1 .. Len(file.msgs) |-> file.msgs[k]]
  /\ file.synced \in Nat
  /\ \A k \in DOMAIN file.msgs : file.msgs[k].whole \in BOOLEAN
  /\ file.lost \in BOOLEAN /\ drv.init \in BOOLEAN /\ drv.read \in BOOLEAN /\ drv.out \in BOOLEAN
  /\ drv.read => drv.init /\ ~drv.out
  /\ drv.out => drv.init
  /\ drv.init => drv.settings = file.by
  /\ \E p, g : file.by = G2!read_settings(p, g)
  /\ started = 0 => log = <<>> /\ Len(file.msgs) = 0
  /\ \A k \in DOMAIN log : Len(log[k].str) = Len(log[k].ext)
  /\ log # <<>> => /\ file.by.gdt_number \in G2!SupportedGdts
                   /\ file.by.pdt_number \in G2!SupportedPdts

\* The inductive invariant of the GRIB2 driver, without what was read.
Grib2Inv ==
  /\ CommonType /\ Grib2Control
  /\ ~file.lost => \A n \in 0 .. Len(file.msgs) : Grib2Scanned(file, log, n)
  /\ (drv.read /\ ~file.lost /\ AllWhole(file)) =>
       log # <<>> /\ drv.records = Grib2Index(file, Len(log))

\* The instance of the driver works with the shapes of BackendDriver.
LEMMA Grib2Names ==
  /\ \A s : G2!Dims(s) = Dims(s)
  /\ \A s : G2!RowMajorStrides(s) = RowMajorStrides(s)
  /\ \A s : G2!Size(s) = Size(s)
  /\ \A i, s : G2!Offset(i, s) = Offset(i, s)
  /\ \A k, s : G2!IndexAt(k, s) = IndexAt(k, s)
  /\ \A l : G2!ActualStrides(l) = ActualStrides(l)
  /\ \A l, n : G2!Snapshot(l, n) = Snapshot(l, n)
  /\ \A s : G2!Boxes(s) = Boxes(s)
  /\ \A s : G2!FullBox(s) = FullBox(s)
  /\ \A b, k : G2!BoxIndex(b, k) = BoxIndex(b, k)
  /\ \A v, n, l : G2!Returned(v, n, l) = Returned(v, n, l)
  /\ G2!Junk = Junk
<1> USE DEF Dims, G2!Dims, RowMajorStrides, G2!RowMajorStrides
<1>1. \A s : G2!Dims(s) = Dims(s) /\ G2!RowMajorStrides(s) = RowMajorStrides(s)
  OBVIOUS
<1>2. \A s : G2!Size(s) = Size(s)
  BY DEF Size, G2!Size
<1>3. \A i, s : G2!Offset(i, s) = Offset(i, s)
  BY DEF Offset, G2!Offset
<1>4. \A k, s : G2!IndexAt(k, s) = IndexAt(k, s)
  BY DEF IndexAt, G2!IndexAt
<1>5. \A l : G2!ActualStrides(l) = ActualStrides(l)
  BY DEF ActualStrides, G2!ActualStrides
<1>6. \A l, n : G2!Snapshot(l, n) = Snapshot(l, n)
  BY DEF Snapshot, G2!Snapshot, Cells, G2!Cells, Size, G2!Size, IndexAt, G2!IndexAt,
         ActualStrides, G2!ActualStrides, Offset, G2!Offset, Junk, G2!Junk
<1>7. \A s : G2!Boxes(s) = Boxes(s) /\ G2!FullBox(s) = FullBox(s)
  BY DEF Boxes, G2!Boxes, Max, G2!Max, FullBox, G2!FullBox
<1>8. \A b, k : G2!BoxIndex(b, k) = BoxIndex(b, k)
  BY DEF BoxIndex, G2!BoxIndex, IndexAt, G2!IndexAt
<1>9. \A v, n, l : G2!Returned(v, n, l) = Returned(v, n, l)
  BY DEF Returned, G2!Returned
<1>10. G2!Junk = Junk
  BY DEF Junk, G2!Junk
<1>11. QED
  BY <1>1, <1>2, <1>3, <1>4, <1>5, <1>6, <1>7, <1>8, <1>9, <1>10, Zenon

\* An entry of a template is set.
IsSet(f, i) == i \in DOMAIN f

\* The entries of a template that is put together from others.
LEMMA EntryRules ==
  /\ \A i, x, j : IsSet(G2!:>(i, x), j) <=> j = i
  /\ \A f, g, j : IsSet(G2!@@(f, g), j) <=> IsSet(f, j) \/ IsSet(g, j)
  /\ \A i, x : G2!:>(i, x)[i] = x
  /\ \A f, g, j : IsSet(f, j) => G2!@@(f, g)[j] = f[j]
  /\ \A f, g, j : ~IsSet(f, j) /\ IsSet(g, j) => G2!@@(f, g)[j] = g[j]
BY DEF G2!:>, G2!@@, IsSet

\* What the decoder finds at the indices it looks at is what the encoder was given,
\* template by template.
LEMMA Grib2Values ==
  ASSUME NEW s
  PROVE  LET at(pdt, i, x) == G2!pdt_value(pdt, i) = x IN
         /\ LET pdt == G2!build_pdt_4_0(s) IN
            /\ at(pdt, 0, s.parameter_category) /\ at(pdt, 1, s.parameter_number)
            /\ at(pdt, 9, s.type_of_first_fixed_surface) /\ at(pdt, 11, s.scaled_value_first_surface)
         /\ LET pdt == G2!build_pdt_4_8(s) IN
            /\ at(pdt, 0, s.parameter_category) /\ at(pdt, 1, s.parameter_number)
            /\ at(pdt, 9, s.type_of_first_fixed_surface) /\ at(pdt, 11, s.scaled_value_first_surface)
            /\ at(pdt, 23, s.statistical_process)
         /\ LET pdt == G2!build_pdt_4_40(s) IN
            /\ at(pdt, 0, s.parameter_category) /\ at(pdt, 1, s.parameter_number)
            /\ at(pdt, 2, s.chemical_constituent_type) /\ at(pdt, 10, s.type_of_first_fixed_surface)
            /\ at(pdt, 12, s.scaled_value_first_surface)
         /\ LET pdt == G2!build_pdt_4_44(s) IN
            /\ at(pdt, 0, s.parameter_category) /\ at(pdt, 1, s.parameter_number)
            /\ at(pdt, 2, s.aerosol_type) /\ at(pdt, 15, s.type_of_first_fixed_surface)
            /\ at(pdt, 17, s.scaled_value_first_surface)
         /\ LET pdt == G2!build_pdt_4_45(s) IN
            /\ at(pdt, 0, s.parameter_category) /\ at(pdt, 1, s.parameter_number)
            /\ at(pdt, 2, s.aerosol_type) /\ at(pdt, 16, s.ensemble_perturbation_number)
            /\ at(pdt, 18, s.type_of_first_fixed_surface) /\ at(pdt, 20, s.scaled_value_first_surface)
         /\ LET pdt == G2!build_pdt_4_46(s) IN
            /\ at(pdt, 0, s.parameter_category) /\ at(pdt, 1, s.parameter_number)
            /\ at(pdt, 2, s.aerosol_type) /\ at(pdt, 15, s.type_of_first_fixed_surface)
            /\ at(pdt, 17, s.scaled_value_first_surface) /\ at(pdt, 29, s.statistical_process)
         /\ LET pdt == G2!build_pdt_4_48(s) IN
            /\ at(pdt, 0, s.parameter_category) /\ at(pdt, 1, s.parameter_number)
            /\ at(pdt, 2, s.aerosol_type) /\ at(pdt, 8, s.optical_property_type)
            /\ at(pdt, 10, s.wavelength_first_nm) /\ at(pdt, 12, s.wavelength_last_nm)
            /\ at(pdt, 20, s.type_of_first_fixed_surface) /\ at(pdt, 22, s.scaled_value_first_surface)
         /\ LET pdt == G2!build_pdt_4_49(s) IN
            /\ at(pdt, 0, s.parameter_category) /\ at(pdt, 1, s.parameter_number)
            /\ at(pdt, 2, s.aerosol_type) /\ at(pdt, 8, s.optical_property_type)
            /\ at(pdt, 10, s.wavelength_first_nm) /\ at(pdt, 12, s.wavelength_last_nm)
            /\ at(pdt, 21, s.ensemble_perturbation_number) /\ at(pdt, 23, s.type_of_first_fixed_surface)
            /\ at(pdt, 25, s.scaled_value_first_surface)
<1> DEFINE at(pdt, i, x) == G2!pdt_value(pdt, i) = x
<1>1. \A pdt, i : IsSet(pdt, i) => G2!pdt_value(pdt, i) = pdt[i]
  BY DEF IsSet, G2!pdt_value
<1>2. LET pdt == G2!build_pdt_4_0(s) IN
      /\ at(pdt, 0, s.parameter_category) /\ at(pdt, 1, s.parameter_number)
      /\ at(pdt, 9, s.type_of_first_fixed_surface) /\ at(pdt, 11, s.scaled_value_first_surface)
  <2> DEFINE pdt == G2!build_pdt_4_0(s)
  <2>1. /\ IsSet(pdt, 0) /\ IsSet(pdt, 1) /\ IsSet(pdt, 9) /\ IsSet(pdt, 11)
        /\ pdt[0] = s.parameter_category /\ pdt[1] = s.parameter_number
        /\ pdt[9] = s.type_of_first_fixed_surface /\ pdt[11] = s.scaled_value_first_surface
    BY EntryRules DEF G2!build_pdt_4_0, G2!Template, G2!Parameter, G2!Process,
                         G2!Surface
  <2>2. QED
    BY <1>1, <2>1
<1>3. LET pdt == G2!build_pdt_4_8(s) IN
      /\ at(pdt, 0, s.parameter_category) /\ at(pdt, 1, s.parameter_number)
      /\ at(pdt, 9, s.type_of_first_fixed_surface) /\ at(pdt, 11, s.scaled_value_first_surface)
      /\ at(pdt, 23, s.statistical_process)
  <2> DEFINE pdt == G2!build_pdt_4_8(s)
  <2>1. /\ IsSet(pdt, 0) /\ IsSet(pdt, 1) /\ IsSet(pdt, 9) /\ IsSet(pdt, 11)
        /\ IsSet(pdt, 23)
        /\ pdt[0] = s.parameter_category /\ pdt[1] = s.parameter_number
        /\ pdt[9] = s.type_of_first_fixed_surface /\ pdt[11] = s.scaled_value_first_surface
        /\ pdt[23] = s.statistical_process
    BY EntryRules DEF G2!build_pdt_4_8, G2!Template, G2!Parameter, G2!Process,
                         G2!Surface, G2!Statistics
  <2>2. QED
    BY <1>1, <2>1
<1>4. LET pdt == G2!build_pdt_4_40(s) IN
      /\ at(pdt, 0, s.parameter_category) /\ at(pdt, 1, s.parameter_number)
      /\ at(pdt, 2, s.chemical_constituent_type) /\ at(pdt, 10, s.type_of_first_fixed_surface)
      /\ at(pdt, 12, s.scaled_value_first_surface)
  <2> DEFINE pdt == G2!build_pdt_4_40(s)
  <2>1. /\ IsSet(pdt, 0) /\ IsSet(pdt, 1) /\ IsSet(pdt, 2) /\ IsSet(pdt, 10)
        /\ IsSet(pdt, 12)
        /\ pdt[0] = s.parameter_category /\ pdt[1] = s.parameter_number
        /\ pdt[2] = s.chemical_constituent_type /\ pdt[10] = s.type_of_first_fixed_surface
        /\ pdt[12] = s.scaled_value_first_surface
    BY EntryRules DEF G2!build_pdt_4_40, G2!Template, G2!Parameter, G2!Process,
                         G2!Surface
  <2>2. QED
    BY <1>1, <2>1
<1>5. LET pdt == G2!build_pdt_4_44(s) IN
      /\ at(pdt, 0, s.parameter_category) /\ at(pdt, 1, s.parameter_number)
      /\ at(pdt, 2, s.aerosol_type) /\ at(pdt, 15, s.type_of_first_fixed_surface)
      /\ at(pdt, 17, s.scaled_value_first_surface)
  <2> DEFINE pdt == G2!build_pdt_4_44(s)
  <2>1. /\ IsSet(pdt, 0) /\ IsSet(pdt, 1) /\ IsSet(pdt, 2) /\ IsSet(pdt, 15)
        /\ IsSet(pdt, 17)
        /\ pdt[0] = s.parameter_category /\ pdt[1] = s.parameter_number
        /\ pdt[2] = s.aerosol_type /\ pdt[15] = s.type_of_first_fixed_surface
        /\ pdt[17] = s.scaled_value_first_surface
    BY EntryRules DEF G2!build_pdt_4_44, G2!Template, G2!Parameter, G2!Process,
                         G2!Surface, G2!SizeDistribution
  <2>2. QED
    BY <1>1, <2>1
<1>6. LET pdt == G2!build_pdt_4_45(s) IN
      /\ at(pdt, 0, s.parameter_category) /\ at(pdt, 1, s.parameter_number)
      /\ at(pdt, 2, s.aerosol_type) /\ at(pdt, 16, s.ensemble_perturbation_number)
      /\ at(pdt, 18, s.type_of_first_fixed_surface) /\ at(pdt, 20, s.scaled_value_first_surface)
  <2> DEFINE pdt == G2!build_pdt_4_45(s)
  <2>1. /\ IsSet(pdt, 0) /\ IsSet(pdt, 1) /\ IsSet(pdt, 2) /\ IsSet(pdt, 16)
        /\ IsSet(pdt, 18) /\ IsSet(pdt, 20)
        /\ pdt[0] = s.parameter_category /\ pdt[1] = s.parameter_number
        /\ pdt[2] = s.aerosol_type /\ pdt[16] = s.ensemble_perturbation_number
        /\ pdt[18] = s.type_of_first_fixed_surface /\ pdt[20] = s.scaled_value_first_surface
    BY EntryRules DEF G2!build_pdt_4_45, G2!Template, G2!Parameter, G2!Process,
                         G2!Surface, G2!SizeDistribution
  <2>2. QED
    BY <1>1, <2>1
<1>7. LET pdt == G2!build_pdt_4_46(s) IN
      /\ at(pdt, 0, s.parameter_category) /\ at(pdt, 1, s.parameter_number)
      /\ at(pdt, 2, s.aerosol_type) /\ at(pdt, 15, s.type_of_first_fixed_surface)
      /\ at(pdt, 17, s.scaled_value_first_surface) /\ at(pdt, 29, s.statistical_process)
  <2> DEFINE pdt == G2!build_pdt_4_46(s)
  <2>1. /\ IsSet(pdt, 0) /\ IsSet(pdt, 1) /\ IsSet(pdt, 2) /\ IsSet(pdt, 15)
        /\ IsSet(pdt, 17) /\ IsSet(pdt, 29)
        /\ pdt[0] = s.parameter_category /\ pdt[1] = s.parameter_number
        /\ pdt[2] = s.aerosol_type /\ pdt[15] = s.type_of_first_fixed_surface
        /\ pdt[17] = s.scaled_value_first_surface /\ pdt[29] = s.statistical_process
    BY EntryRules DEF G2!build_pdt_4_46, G2!Template, G2!Parameter, G2!Process,
                         G2!Surface, G2!SizeDistribution, G2!Statistics
  <2>2. QED
    BY <1>1, <2>1
<1>8. LET pdt == G2!build_pdt_4_48(s) IN
      /\ at(pdt, 0, s.parameter_category) /\ at(pdt, 1, s.parameter_number)
      /\ at(pdt, 2, s.aerosol_type) /\ at(pdt, 8, s.optical_property_type)
      /\ at(pdt, 10, s.wavelength_first_nm) /\ at(pdt, 12, s.wavelength_last_nm)
      /\ at(pdt, 20, s.type_of_first_fixed_surface) /\ at(pdt, 22, s.scaled_value_first_surface)
  <2> DEFINE pdt == G2!build_pdt_4_48(s)
  <2>1. /\ IsSet(pdt, 0) /\ IsSet(pdt, 1) /\ IsSet(pdt, 2) /\ IsSet(pdt, 8)
        /\ IsSet(pdt, 10) /\ IsSet(pdt, 12) /\ IsSet(pdt, 20) /\ IsSet(pdt, 22)
        /\ pdt[0] = s.parameter_category /\ pdt[1] = s.parameter_number
        /\ pdt[2] = s.aerosol_type /\ pdt[8] = s.optical_property_type
        /\ pdt[10] = s.wavelength_first_nm /\ pdt[12] = s.wavelength_last_nm
        /\ pdt[20] = s.type_of_first_fixed_surface /\ pdt[22] = s.scaled_value_first_surface
    BY EntryRules DEF G2!build_pdt_4_48, G2!Template, G2!Parameter, G2!Process,
                         G2!Surface, G2!Wavelength
  <2>2. QED
    BY <1>1, <2>1
<1>9. LET pdt == G2!build_pdt_4_49(s) IN
      /\ at(pdt, 0, s.parameter_category) /\ at(pdt, 1, s.parameter_number)
      /\ at(pdt, 2, s.aerosol_type) /\ at(pdt, 8, s.optical_property_type)
      /\ at(pdt, 10, s.wavelength_first_nm) /\ at(pdt, 12, s.wavelength_last_nm)
      /\ at(pdt, 21, s.ensemble_perturbation_number) /\ at(pdt, 23, s.type_of_first_fixed_surface)
      /\ at(pdt, 25, s.scaled_value_first_surface)
  <2> DEFINE pdt == G2!build_pdt_4_49(s)
  <2>1. /\ IsSet(pdt, 0) /\ IsSet(pdt, 1) /\ IsSet(pdt, 2) /\ IsSet(pdt, 8)
        /\ IsSet(pdt, 10) /\ IsSet(pdt, 12) /\ IsSet(pdt, 21) /\ IsSet(pdt, 23)
        /\ IsSet(pdt, 25)
        /\ pdt[0] = s.parameter_category /\ pdt[1] = s.parameter_number
        /\ pdt[2] = s.aerosol_type /\ pdt[8] = s.optical_property_type
        /\ pdt[10] = s.wavelength_first_nm /\ pdt[12] = s.wavelength_last_nm
        /\ pdt[21] = s.ensemble_perturbation_number /\ pdt[23] = s.type_of_first_fixed_surface
        /\ pdt[25] = s.scaled_value_first_surface
    BY EntryRules DEF G2!build_pdt_4_49, G2!Template, G2!Parameter, G2!Process,
                         G2!Surface, G2!Wavelength
  <2>2. QED
    BY <1>1, <2>1
<1> HIDE DEF at
<1>10. QED
  BY <1>2, <1>3, <1>4, <1>5, <1>6, <1>7, <1>8, <1>9, Zenon DEF at

\* The numbers of the product templates differ.
LEMMA Grib2Numbers ==
  /\ 0 # 8 /\ 0 # 40 /\ 0 # 44 /\ 0 # 45 /\ 0 # 46 /\ 0 # 48 /\ 0 # 49
  /\ 8 # 40 /\ 8 # 44 /\ 8 # 45 /\ 8 # 46 /\ 8 # 48 /\ 8 # 49 /\ 40 # 44
  /\ 40 # 45 /\ 40 # 46 /\ 40 # 48 /\ 40 # 49 /\ 44 # 45 /\ 44 # 46 /\ 44 # 48
  /\ 44 # 49 /\ 45 # 46 /\ 45 # 48 /\ 45 # 49 /\ 46 # 48 /\ 46 # 49 /\ 48 # 49
  /\ 8 # 0 /\ 40 # 0 /\ 44 # 0 /\ 45 # 0 /\ 46 # 0 /\ 48 # 0 /\ 49 # 0
  /\ 40 # 8 /\ 44 # 8 /\ 45 # 8 /\ 46 # 8 /\ 48 # 8 /\ 49 # 8 /\ 44 # 40
  /\ 45 # 40 /\ 46 # 40 /\ 48 # 40 /\ 49 # 40 /\ 45 # 44 /\ 46 # 44 /\ 48 # 44
  /\ 49 # 44 /\ 46 # 45 /\ 48 # 45 /\ 49 # 45 /\ 48 # 46 /\ 49 # 46 /\ 49 # 48
OBVIOUS

\* Where the decoder looks for the surface.
LEMMA Grib2SurfaceIndex ==
  /\ G2!pdt_surface_type_index(0) = 9 /\ G2!pdt_surface_value_index(0) = 11
  /\ G2!pdt_surface_type_index(8) = 9 /\ G2!pdt_surface_value_index(8) = 11
  /\ G2!pdt_surface_type_index(40) = 10 /\ G2!pdt_surface_value_index(40) = 12
  /\ G2!pdt_surface_type_index(44) = 15 /\ G2!pdt_surface_value_index(44) = 17
  /\ G2!pdt_surface_type_index(45) = 18 /\ G2!pdt_surface_value_index(45) = 20
  /\ G2!pdt_surface_type_index(46) = 15 /\ G2!pdt_surface_value_index(46) = 17
  /\ G2!pdt_surface_type_index(48) = 20 /\ G2!pdt_surface_value_index(48) = 22
  /\ G2!pdt_surface_type_index(49) = 23 /\ G2!pdt_surface_value_index(49) = 25
<1>1. /\ G2!pdt_surface_type_index(0) = 9
      /\ G2!pdt_surface_type_index(8) = 9
      /\ G2!pdt_surface_type_index(40) = 10
      /\ G2!pdt_surface_type_index(44) = 15
      /\ G2!pdt_surface_type_index(45) = 18
      /\ G2!pdt_surface_type_index(46) = 15
      /\ G2!pdt_surface_type_index(48) = 20
      /\ G2!pdt_surface_type_index(49) = 23
  BY DEF G2!pdt_surface_type_index
<1>2. QED
  BY <1>1 DEF G2!pdt_surface_value_index

\* The name the decoder gives a record written with settings s is the one a host
\* derives from s.
LEMMA Grib2Name ==
  ASSUME NEW s, s.pdt_number \in G2!SupportedPdts,
         s.ensemble_perturbation_number \in Int, s.statistical_process \in Int
  PROVE  G2!RecordName(s.discipline, s.pdt_number, G2!ProductTemplate(s)) = G2!HostName(s)
<1> DEFINE meta(number, pdt) == G2!extract_composition_metadata(number, pdt)
<1>1. CASE s.pdt_number = 0
  <2> DEFINE pdt == G2!build_pdt_4_0(s)
             m == meta(0, pdt)
  <2>1. /\ G2!pdt_value(pdt, 0) = s.parameter_category
        /\ G2!pdt_value(pdt, 1) = s.parameter_number
        /\ G2!pdt_value(pdt, 9) = s.type_of_first_fixed_surface
        /\ G2!pdt_value(pdt, 11) = s.scaled_value_first_surface
    BY Grib2Values, Zenon
  <2>2. G2!ProductTemplate(s) = pdt
    BY <1>1, Grib2Numbers, Zenon DEF G2!ProductTemplate
  <2> HIDE DEF pdt
  <2> HIDE DEF m
  <2> DEFINE name(x) == G2!field_identity_name(s.discipline, s.parameter_category,
                          s.parameter_number, s.type_of_first_fixed_surface,
                          s.scaled_value_first_surface, 0, x)
             base == <<s.discipline, s.parameter_category, s.parameter_number,
                       s.type_of_first_fixed_surface, s.scaled_value_first_surface>>
  <2>3. \A x : name(x) = base \o <<>>
    BY DEF G2!field_identity_name
  <2>4. name(m) = G2!HostName(s)
    <3>1. name(m) = name(s)
      BY <2>3, Zenon
    <3>2. QED
      BY <1>1, <3>1, Zenon DEF G2!HostName
  <2>5. QED
    BY <1>1, <2>1, <2>2, <2>4, Grib2SurfaceIndex, Zenon DEF G2!RecordName, m, meta
<1>2. CASE s.pdt_number = 8
  <2> DEFINE pdt == G2!build_pdt_4_8(s)
             m == meta(8, pdt)
  <2>1. /\ G2!pdt_value(pdt, 0) = s.parameter_category
        /\ G2!pdt_value(pdt, 1) = s.parameter_number
        /\ G2!pdt_value(pdt, 9) = s.type_of_first_fixed_surface
        /\ G2!pdt_value(pdt, 11) = s.scaled_value_first_surface
        /\ G2!pdt_value(pdt, 23) = s.statistical_process
    BY Grib2Values, Zenon
  <2>2. G2!ProductTemplate(s) = pdt
    BY <1>2, Grib2Numbers, Zenon DEF G2!ProductTemplate
  <2> HIDE DEF pdt
  <2>3. /\ m.statistical_process = s.statistical_process
    BY <2>1 DEF G2!extract_composition_metadata
  <2> HIDE DEF m
  <2> DEFINE name(x) == G2!field_identity_name(s.discipline, s.parameter_category,
                          s.parameter_number, s.type_of_first_fixed_surface,
                          s.scaled_value_first_surface, 8, x)
             base == <<s.discipline, s.parameter_category, s.parameter_number,
                       s.type_of_first_fixed_surface, s.scaled_value_first_surface>>
  <2>4. \A x : name(x) = base \o <<"sp", x.statistical_process>>
    BY DEF G2!field_identity_name
  <2>5. name(m) = G2!HostName(s)
    <3>1. name(m) = name(s)
      BY <2>3, <2>4, Zenon
    <3>2. QED
      BY <1>2, <3>1, Zenon DEF G2!HostName
  <2>6. QED
    BY <1>2, <2>1, <2>2, <2>5, Grib2SurfaceIndex, Zenon DEF G2!RecordName, m, meta
<1>3. CASE s.pdt_number = 40
  <2> DEFINE pdt == G2!build_pdt_4_40(s)
             m == meta(40, pdt)
  <2>1. /\ G2!pdt_value(pdt, 0) = s.parameter_category
        /\ G2!pdt_value(pdt, 1) = s.parameter_number
        /\ G2!pdt_value(pdt, 2) = s.chemical_constituent_type
        /\ G2!pdt_value(pdt, 10) = s.type_of_first_fixed_surface
        /\ G2!pdt_value(pdt, 12) = s.scaled_value_first_surface
    BY Grib2Values, Zenon
  <2>2. G2!ProductTemplate(s) = pdt
    BY <1>3, Grib2Numbers, Zenon DEF G2!ProductTemplate
  <2> HIDE DEF pdt
  <2>3. /\ m.chemical_constituent_type = s.chemical_constituent_type
    BY <2>1 DEF G2!extract_composition_metadata
  <2> HIDE DEF m
  <2> DEFINE name(x) == G2!field_identity_name(s.discipline, s.parameter_category,
                          s.parameter_number, s.type_of_first_fixed_surface,
                          s.scaled_value_first_surface, 40, x)
             base == <<s.discipline, s.parameter_category, s.parameter_number,
                       s.type_of_first_fixed_surface, s.scaled_value_first_surface>>
  <2>4. \A x : name(x) = base \o <<"ct", x.chemical_constituent_type>>
    BY DEF G2!field_identity_name
  <2>5. name(m) = G2!HostName(s)
    <3>1. name(m) = name(s)
      BY <2>3, <2>4, Zenon
    <3>2. QED
      BY <1>3, <3>1, Zenon DEF G2!HostName
  <2>6. QED
    BY <1>3, <2>1, <2>2, <2>5, Grib2SurfaceIndex, Zenon DEF G2!RecordName, m, meta
<1>4. CASE s.pdt_number = 44
  <2> DEFINE pdt == G2!build_pdt_4_44(s)
             m == meta(44, pdt)
  <2>1. /\ G2!pdt_value(pdt, 0) = s.parameter_category
        /\ G2!pdt_value(pdt, 1) = s.parameter_number
        /\ G2!pdt_value(pdt, 2) = s.aerosol_type
        /\ G2!pdt_value(pdt, 15) = s.type_of_first_fixed_surface
        /\ G2!pdt_value(pdt, 17) = s.scaled_value_first_surface
    BY Grib2Values, Zenon
  <2>2. G2!ProductTemplate(s) = pdt
    BY <1>4, Grib2Numbers, Zenon DEF G2!ProductTemplate
  <2> HIDE DEF pdt
  <2>3. /\ m.aerosol_type = s.aerosol_type
    BY <2>1 DEF G2!extract_composition_metadata
  <2> HIDE DEF m
  <2> DEFINE name(x) == G2!field_identity_name(s.discipline, s.parameter_category,
                          s.parameter_number, s.type_of_first_fixed_surface,
                          s.scaled_value_first_surface, 44, x)
             base == <<s.discipline, s.parameter_category, s.parameter_number,
                       s.type_of_first_fixed_surface, s.scaled_value_first_surface>>
  <2>4. \A x : name(x) = base \o <<"at", x.aerosol_type>>
    BY DEF G2!field_identity_name
  <2>5. name(m) = G2!HostName(s)
    <3>1. name(m) = name(s)
      BY <2>3, <2>4, Zenon
    <3>2. QED
      BY <1>4, <3>1, Zenon DEF G2!HostName
  <2>6. QED
    BY <1>4, <2>1, <2>2, <2>5, Grib2SurfaceIndex, Zenon DEF G2!RecordName, m, meta
<1>5. CASE s.pdt_number = 45
  <2> DEFINE pdt == G2!build_pdt_4_45(s)
             m == meta(45, pdt)
  <2>1. /\ G2!pdt_value(pdt, 0) = s.parameter_category
        /\ G2!pdt_value(pdt, 1) = s.parameter_number
        /\ G2!pdt_value(pdt, 2) = s.aerosol_type
        /\ G2!pdt_value(pdt, 16) = s.ensemble_perturbation_number
        /\ G2!pdt_value(pdt, 18) = s.type_of_first_fixed_surface
        /\ G2!pdt_value(pdt, 20) = s.scaled_value_first_surface
    BY Grib2Values, Zenon
  <2>2. G2!ProductTemplate(s) = pdt
    BY <1>5, Grib2Numbers, Zenon DEF G2!ProductTemplate
  <2> HIDE DEF pdt
  <2>3. /\ m.aerosol_type = s.aerosol_type
        /\ m.ensemble_perturbation_number = s.ensemble_perturbation_number
    BY <2>1 DEF G2!extract_composition_metadata
  <2> HIDE DEF m
  <2> DEFINE name(x) == G2!field_identity_name(s.discipline, s.parameter_category,
                          s.parameter_number, s.type_of_first_fixed_surface,
                          s.scaled_value_first_surface, 45, x)
             base == <<s.discipline, s.parameter_category, s.parameter_number,
                       s.type_of_first_fixed_surface, s.scaled_value_first_surface>>
  <2>4. \A x : name(x) = base \o (<<"at", x.aerosol_type>> \o
                                  <<"ep", x.ensemble_perturbation_number>>)
    BY DEF G2!field_identity_name
  <2>5. name(m) = G2!HostName(s)
    <3>1. name(m) = name(s)
      BY <2>3, <2>4, Zenon
    <3>2. QED
      BY <1>5, <3>1, Zenon DEF G2!HostName
  <2>6. QED
    BY <1>5, <2>1, <2>2, <2>5, Grib2SurfaceIndex, Zenon DEF G2!RecordName, m, meta
<1>6. CASE s.pdt_number = 46
  <2> DEFINE pdt == G2!build_pdt_4_46(s)
             m == meta(46, pdt)
  <2>1. /\ G2!pdt_value(pdt, 0) = s.parameter_category
        /\ G2!pdt_value(pdt, 1) = s.parameter_number
        /\ G2!pdt_value(pdt, 2) = s.aerosol_type
        /\ G2!pdt_value(pdt, 15) = s.type_of_first_fixed_surface
        /\ G2!pdt_value(pdt, 17) = s.scaled_value_first_surface
        /\ G2!pdt_value(pdt, 29) = s.statistical_process
    BY Grib2Values, Zenon
  <2>2. G2!ProductTemplate(s) = pdt
    BY <1>6, Grib2Numbers, Zenon DEF G2!ProductTemplate
  <2> HIDE DEF pdt
  <2>3. /\ m.aerosol_type = s.aerosol_type
        /\ m.statistical_process = s.statistical_process
    BY <2>1 DEF G2!extract_composition_metadata
  <2> HIDE DEF m
  <2> DEFINE name(x) == G2!field_identity_name(s.discipline, s.parameter_category,
                          s.parameter_number, s.type_of_first_fixed_surface,
                          s.scaled_value_first_surface, 46, x)
             base == <<s.discipline, s.parameter_category, s.parameter_number,
                       s.type_of_first_fixed_surface, s.scaled_value_first_surface>>
  <2>4. \A x : name(x) = base \o (<<"at", x.aerosol_type>> \o
                                  <<"sp", x.statistical_process>>)
    BY DEF G2!field_identity_name
  <2>5. name(m) = G2!HostName(s)
    <3>1. name(m) = name(s)
      BY <2>3, <2>4, Zenon
    <3>2. QED
      BY <1>6, <3>1, Zenon DEF G2!HostName
  <2>6. QED
    BY <1>6, <2>1, <2>2, <2>5, Grib2SurfaceIndex, Zenon DEF G2!RecordName, m, meta
<1>7. CASE s.pdt_number = 48
  <2> DEFINE pdt == G2!build_pdt_4_48(s)
             m == meta(48, pdt)
  <2>1. /\ G2!pdt_value(pdt, 0) = s.parameter_category
        /\ G2!pdt_value(pdt, 1) = s.parameter_number
        /\ G2!pdt_value(pdt, 2) = s.aerosol_type
        /\ G2!pdt_value(pdt, 8) = s.optical_property_type
        /\ G2!pdt_value(pdt, 10) = s.wavelength_first_nm
        /\ G2!pdt_value(pdt, 12) = s.wavelength_last_nm
        /\ G2!pdt_value(pdt, 20) = s.type_of_first_fixed_surface
        /\ G2!pdt_value(pdt, 22) = s.scaled_value_first_surface
    BY Grib2Values, Zenon
  <2>2. G2!ProductTemplate(s) = pdt
    BY <1>7, Grib2Numbers, Zenon DEF G2!ProductTemplate
  <2> HIDE DEF pdt
  <2>3. /\ m.aerosol_type = s.aerosol_type
        /\ m.optical_property_type = s.optical_property_type
        /\ m.wavelength_first_nm = s.wavelength_first_nm
        /\ m.wavelength_last_nm = s.wavelength_last_nm
    BY <2>1 DEF G2!extract_composition_metadata
  <2> HIDE DEF m
  <2> DEFINE name(x) == G2!field_identity_name(s.discipline, s.parameter_category,
                          s.parameter_number, s.type_of_first_fixed_surface,
                          s.scaled_value_first_surface, 48, x)
             base == <<s.discipline, s.parameter_category, s.parameter_number,
                       s.type_of_first_fixed_surface, s.scaled_value_first_surface>>
  <2>4. \A x : name(x) = base \o (<<"at", x.aerosol_type>> \o
                                  <<"op", x.optical_property_type>> \o
                                  <<"wl", x.wavelength_first_nm, x.wavelength_last_nm>>)
    BY DEF G2!field_identity_name
  <2>5. name(m) = G2!HostName(s)
    <3>1. name(m) = name(s)
      BY <2>3, <2>4, Zenon
    <3>2. QED
      BY <1>7, <3>1, Zenon DEF G2!HostName
  <2>6. QED
    BY <1>7, <2>1, <2>2, <2>5, Grib2SurfaceIndex, Zenon DEF G2!RecordName, m, meta
<1>8. CASE s.pdt_number = 49
  <2> DEFINE pdt == G2!build_pdt_4_49(s)
             m == meta(49, pdt)
  <2>1. /\ G2!pdt_value(pdt, 0) = s.parameter_category
        /\ G2!pdt_value(pdt, 1) = s.parameter_number
        /\ G2!pdt_value(pdt, 2) = s.aerosol_type
        /\ G2!pdt_value(pdt, 8) = s.optical_property_type
        /\ G2!pdt_value(pdt, 10) = s.wavelength_first_nm
        /\ G2!pdt_value(pdt, 12) = s.wavelength_last_nm
        /\ G2!pdt_value(pdt, 21) = s.ensemble_perturbation_number
        /\ G2!pdt_value(pdt, 23) = s.type_of_first_fixed_surface
        /\ G2!pdt_value(pdt, 25) = s.scaled_value_first_surface
    BY Grib2Values, Zenon
  <2>2. G2!ProductTemplate(s) = pdt
    BY <1>8, Grib2Numbers, Zenon DEF G2!ProductTemplate
  <2> HIDE DEF pdt
  <2>3. /\ m.aerosol_type = s.aerosol_type
        /\ m.optical_property_type = s.optical_property_type
        /\ m.wavelength_first_nm = s.wavelength_first_nm
        /\ m.wavelength_last_nm = s.wavelength_last_nm
        /\ m.ensemble_perturbation_number = s.ensemble_perturbation_number
    BY <2>1 DEF G2!extract_composition_metadata
  <2> HIDE DEF m
  <2> DEFINE name(x) == G2!field_identity_name(s.discipline, s.parameter_category,
                          s.parameter_number, s.type_of_first_fixed_surface,
                          s.scaled_value_first_surface, 49, x)
             base == <<s.discipline, s.parameter_category, s.parameter_number,
                       s.type_of_first_fixed_surface, s.scaled_value_first_surface>>
  <2>4. \A x : name(x) = base \o (<<"at", x.aerosol_type>> \o
                                  <<"op", x.optical_property_type>> \o
                                  <<"wl", x.wavelength_first_nm, x.wavelength_last_nm>> \o
                                  <<"ep", x.ensemble_perturbation_number>>)
    BY DEF G2!field_identity_name
  <2>5. name(m) = G2!HostName(s)
    <3>1. name(m) = name(s)
      BY <2>3, <2>4, Zenon
    <3>2. QED
      BY <1>8, <3>1, Zenon DEF G2!HostName
  <2>6. QED
    BY <1>8, <2>1, <2>2, <2>5, Grib2SurfaceIndex, Zenon DEF G2!RecordName, m, meta
<1>9. QED
  BY <1>1, <1>2, <1>3, <1>4, <1>5, <1>6, <1>7, <1>8 DEF G2!SupportedPdts

\* The shape of the grid is found in the grid template as it was put there.
LEMMA Grib2Grid ==
  ASSUME NEW s, NEW ni \in Nat \ {0}, NEW nj \in Nat \ {0}
  PROVE  G2!GridShape(G2!GridTemplate(s, ni, nj), ni * nj) = [ni |-> ni, nj |-> nj]
<1> DEFINE gdt == G2!GridTemplate(s, ni, nj)
<1>1. gdt[7] = ni /\ gdt[8] = nj
  <2>1. LET f == G2!build_gdt_3_0(s, ni, nj) IN
        f[7] = ni /\ f[8] = nj /\ IsSet(f, 7) /\ IsSet(f, 8)
    BY EntryRules DEF G2!build_gdt_3_0, G2!Template
  <2>2. LET f == G2!build_gdt_3_40(s, ni, nj) IN f[7] = ni /\ f[8] = nj
    BY <2>1, EntryRules DEF G2!build_gdt_3_40
  <2>3. QED
    BY <2>1, <2>2 DEF G2!GridTemplate
<1> HIDE DEF gdt
<1>2. ~(ni <= 0 \/ nj <= 0 \/ ni * nj # ni * nj)
  OBVIOUS
<1>3. G2!GridShape(gdt, ni * nj) = [ni |-> ni, nj |-> nj]
  BY <1>1, <1>2 DEF G2!GridShape
<1>4. QED
  BY <1>3 DEF gdt

\* A field of one or two dimensions is one plane, and the shape a record of it is
\* described with has as many elements.
LEMMA Grib2Plane ==
  ASSUME NEW ext, Shape(ext)
  PROVE  LET ni == G2!Ni(ext)
             nj == G2!Nj(ext)
             shape == IF nj > 1 THEN <<nj, ni>> ELSE <<ni>> IN
         /\ ni \in Nat \ {0} /\ nj \in Nat \ {0} /\ ni * nj \in Nat \ {0}
         /\ Len(ext) <= 2 => ni * nj = Size(ext)
         /\ Shape(shape) /\ Size(shape) = ni * nj
         /\ nj <= 1 => ni * nj = ni
<1> DEFINE ni == G2!Ni(ext)
           nj == G2!Nj(ext)
           n == Len(ext)
           shape == IF nj > 1 THEN <<nj, ni>> ELSE <<ni>>
<1>1. /\ n \in Nat \ {0} /\ \A d \in 1 .. n : ext[d] \in Nat \ {0}
      /\ Size(ext) \in Nat \ {0} /\ Size(ext) = RowMajorStrides(ext)[1] * ext[1]
      /\ RowMajorStrides(ext)[n] = 1
      /\ \A d \in 1 .. n - 1 : RowMajorStrides(ext)[d] = RowMajorStrides(ext)[d + 1] * ext[d + 1]
  BY ShapeFacts, StridesPositive, StridesDef DEF Dims
<1>2. /\ n >= 2 => ni = ext[n] /\ nj = ext[n - 1]
      /\ ~(n >= 2) => ni = Size(ext) /\ nj = 1
  BY Grib2Names DEF G2!Ni, G2!Nj
<1> HIDE DEF ni, nj, n
<1>3. ni \in Nat \ {0} /\ nj \in Nat \ {0}
  <2>1. CASE n >= 2
    BY <1>1, <1>2, <2>1
  <2>2. CASE ~(n >= 2)
    BY <1>1, <1>2, <2>2
  <2>3. QED
    BY <2>1, <2>2
<1>4. ni * nj \in Nat \ {0} /\ (nj <= 1 => ni * nj = ni)
  <2>1. ni * nj \in Nat /\ ni * nj # 0
    BY <1>3, Times
  <2>2. ASSUME nj <= 1 PROVE ni * nj = ni
    <3>1. nj = 1
      BY <1>3, <2>2
    <3>2. QED
      BY <1>3, <3>1
  <2>3. QED
    BY <2>1, <2>2
<1>5. ASSUME n <= 2 PROVE ni * nj = Size(ext)
  <2>1. CASE n = 2
    <3>1. RowMajorStrides(ext)[1] = RowMajorStrides(ext)[2] * ext[2] /\ RowMajorStrides(ext)[2] = 1
      BY <1>1, <2>1
    <3>2. ni = ext[2] /\ nj = ext[1]
      BY <1>2, <2>1
    <3>3. RowMajorStrides(ext)[1] = ext[2]
      BY <3>1, <1>1, <2>1
    <3>4. QED
      BY <1>1, <3>2, <3>3
  <2>2. CASE n = 1
    BY <1>1, <1>2, <1>3, <2>2
  <2>3. QED
    BY <1>1, <1>5, <2>1, <2>2
<1>6. Shape(shape) /\ Size(shape) = ni * nj
  <2>1. CASE nj > 1
    <3> DEFINE z == <<nj, ni>>
    <3>1. z \in Seq(Nat \ {0}) /\ z # <<>> /\ Len(z) = 2 /\ z[1] = nj /\ z[2] = ni
      BY <1>3
    <3>2. shape = z
      BY <2>1
    <3> HIDE DEF z
    <3>3. Shape(z)
      BY <3>1 DEF Shape
    <3>4. RowMajorStrides(z)[2] = 1 /\ RowMajorStrides(z)[1] = RowMajorStrides(z)[2] * z[2]
      <4>1. RowMajorStrides(z)[Len(z)] = 1
        BY <3>3, StridesDef
      <4>2. \A d \in 1 .. Len(z) - 1 : RowMajorStrides(z)[d] = RowMajorStrides(z)[d + 1] * z[d + 1]
        BY <3>3, StridesDef
      <4>3. QED
        BY <3>1, <4>1, <4>2
    <3>5. Size(z) = RowMajorStrides(z)[1] * z[1]
      BY <3>3, StridesPositive
    <3>6. Size(z) = ni * nj
      BY <1>3, <3>1, <3>4, <3>5
    <3>7. QED
      BY <3>2, <3>3, <3>6
  <2>2. CASE ~(nj > 1)
    <3> DEFINE z == <<ni>>
    <3>1. z \in Seq(Nat \ {0}) /\ z # <<>> /\ Len(z) = 1 /\ z[1] = ni
      BY <1>3
    <3>2. shape = z
      BY <2>2
    <3> HIDE DEF z
    <3>3. Shape(z)
      BY <3>1 DEF Shape
    <3>4. RowMajorStrides(z)[Len(z)] = 1 /\ Size(z) = RowMajorStrides(z)[1] * z[1]
      BY <3>3, StridesDef, StridesPositive
    <3>5. Size(z) = ni
      BY <1>3, <3>1, <3>4
    <3>6. ni * nj = ni
      BY <1>3, <1>4, <2>2
    <3>7. QED
      BY <3>2, <3>3, <3>5, <3>6
  <2>3. QED
    BY <2>1, <2>2
<1>7. QED
  BY <1>3, <1>4, <1>5, <1>6 DEF ni, nj, n

\* Section 7 of a message has the elements of a compact field in row-major order,
\* whatever the strides.
LEMMA Grib2Encoded ==
  ASSUME NEW l, Shape(l.ext), l.str \in Seq(Nat), Len(l.str) = Len(l.ext), Compact(l),
         NEW n, NEW p \in 1 .. Size(l.ext)
  PROVE  G2!Encode(Snapshot(l, n), l)[p] = <<n, IndexAt(p - 1, l.ext)>>
<1> DEFINE i == IndexAt(p - 1, l.ext)
<1>1. Size(l.ext) \in Nat \ {0} /\ p - 1 \in 0 .. Size(l.ext) - 1 /\ p - 1 \in Nat
  BY StridesPositive
<1>2. i \in Cells(l.ext) /\ i \in Bounded(l.ext)
  BY <1>1, IndexAtBounded DEF Cells
<1>3. CASE G2!is_contiguous_row_major(l)
  <2>1. G2!Encode(Snapshot(l, n), l) = Snapshot(l, n)
    BY <1>3 DEF G2!Encode
  <2>2. RowMajorLayout(l)
    <3>1. RowMajorStrides(l.ext) = [d \in Dims(l.ext) |-> RowMajorStrides(l.ext)[d]]
      BY StridesDef
    <3>2. \A d \in Dims(l.ext) : l.str[d] = 0 \/ l.str[d] = RowMajorStrides(l.ext)[d]
      BY <1>3, Grib2Names DEF G2!is_contiguous_row_major
    <3>3. QED
      BY <3>1, <3>2 DEF RowMajorLayout, ActualStrides
  <2>3. Snapshot(l, n)[Offset(i, RowMajorStrides(l.ext)) + 1] = <<n, i>>
    BY <1>2, <2>2, SnapshotRowMajor
  <2>4. Offset(i, RowMajorStrides(l.ext)) = p - 1
    BY <1>1, OffsetOfIndexAt
  <2>5. (p - 1) + 1 = p
    BY <1>1
  <2>6. QED
    BY <2>1, <2>3, <2>4, <2>5
<1>4. CASE ~G2!is_contiguous_row_major(l)
  <2> DEFINE str == ActualStrides(l)
             o == Offset(i, str)
             data == Snapshot(l, n)
  <2>1. str \in Seq(Nat) /\ Len(str) = Len(l.ext)
    <3>1. /\ Len(l.ext) \in Nat /\ Dims(l.ext) = 1 .. Len(l.ext)
          /\ RowMajorStrides(l.ext) \in [Dims(l.ext) -> Nat \ {0}]
      BY ShapeFacts, StridesPositive
    <3>2. \A d \in Dims(l.ext) : l.str[d] \in Nat
      BY <3>1
    <3>3. str \in [1 .. Len(l.ext) -> Nat]
      BY <3>1, <3>2 DEF ActualStrides
    <3> HIDE DEF str
    <3>4. QED
      BY <3>1, <3>3
  <2>2. o \in Nat
    <3>1. \A d \in Dims(str) : i[d] \in Nat
      <4>1. Dims(str) = Dims(l.ext)
        BY <2>1 DEF Dims
      <4>2. QED
        BY <1>2, <4>1 DEF Bounded
    <3> HIDE DEF i, str
    <3>2. PICK sum \in [0 .. Len(str) -> Nat] : Offset(i, str) = sum[Len(str)]
      BY <2>1, <3>1, OffsetSums
    <3>3. Len(str) \in 0 .. Len(str)
      BY <2>1
    <3>4. QED
      BY <3>2, <3>3
  <2>3. o < Size(l.ext) /\ \A j \in Cells(l.ext) : Offset(j, str) = o => j = i
    BY <1>2 DEF Compact
  <2>4. G2!Encode(data, l)[p] = IF o + 1 \in DOMAIN data THEN data[o + 1] ELSE Junk
    BY <1>4, Grib2Names DEF G2!Encode, G2!pack_row_major, G2!total_elements
  <2>5. data[o + 1] = <<n, i>> /\ o + 1 \in DOMAIN data
    <3> HIDE DEF i, o
    <3>1. o + 1 \in 1 .. Size(l.ext) /\ (o + 1) - 1 = o
      BY <1>1, <2>2, <2>3
    <3> DEFINE at == {j \in Cells(l.ext) : Offset(j, str) = (o + 1) - 1}
    <3>2. DOMAIN data = 1 .. Size(l.ext)
      BY DEF Snapshot
    <3>3. data[o + 1] = IF at = {} THEN Junk ELSE <<n, CHOOSE j \in at : TRUE>>
      BY <3>1 DEF Snapshot
    <3>4. at = {i}
      BY <1>2, <2>3, <3>1 DEF o
    <3>5. (CHOOSE j \in {i} : TRUE) = i
      OBVIOUS
    <3>6. QED
      BY <3>1, <3>2, <3>3, <3>4, <3>5
  <2> HIDE DEF o, data
  <2>6. QED
    BY <2>4, <2>5 DEF data
<1>5. QED
  BY <1>3, <1>4

\* The shape a record of a field of shape ext is described with.
Grib2Shape(ext) == IF G2!Nj(ext) > 1 THEN <<G2!Nj(ext), G2!Ni(ext)>> ELSE <<G2!Ni(ext)>>

\* Without a loss the messages are those of the log.
LEMMA Grib2Whole ==
  ASSUME Grib2Inv, ~file.lost, AllWhole(file)
  PROVE  /\ Len(file.msgs) = Len(log) /\ Len(log) \in Nat
         /\ DOMAIN file.msgs = 1 .. Len(log) /\ DOMAIN log = 1 .. Len(log)
         /\ \A k \in 1 .. Len(log) : Grib2Matches(file.msgs[k], log[k], file.by)
<1>1. /\ Len(file.msgs) \in Nat /\ file.msgs = [k \in 1 .. Len(file.msgs) |-> file.msgs[k]]
      /\ log \in Seq(Entries)
      /\ \A n \in 0 .. Len(file.msgs) : Grib2Scanned(file, log, n)
  BY DEF Grib2Inv, Grib2Control, CommonType
<1>2. PICK n \in Nat : n = Len(file.msgs)
  BY <1>1
<1>3. DOMAIN file.msgs = 1 .. n
  BY <1>1, <1>2
<1>4. /\ \A k \in 1 .. n : file.msgs[k].whole
      /\ \A k \in n + 1 .. n : ~file.msgs[k].whole
  BY <1>2, <1>3 DEF AllWhole
<1>5. n \in 0 .. Len(file.msgs)
  BY <1>2
<1>6. n = Len(log) /\ \A k \in 1 .. n : Grib2Matches(file.msgs[k], log[k], file.by)
  BY <1>1, <1>2, <1>4, <1>5, Zenon DEF Grib2Scanned
<1>7. DOMAIN log = 1 .. Len(log)
  BY <1>1
<1>8. QED
  BY <1>2, <1>3, <1>6, <1>7

\* The settings of the writer.
LEMMA Grib2Settings ==
  ASSUME Grib2Inv
  PROVE  file.by.ensemble_perturbation_number \in Int /\ file.by.statistical_process \in Int
<1>1. PICK p, g : file.by = G2!read_settings(p, g)
  BY DEF Grib2Inv, Grib2Control
<1>2. QED
  BY <1>1 DEF G2!read_settings

\* A record of the log has the grid of its field.
LEMMA Grib2GridOf ==
  ASSUME Grib2Inv, NEW k \in DOMAIN log, NEW m, Grib2Matches(m, log[k], file.by)
  PROVE  /\ G2!GridShape(m.gdt, m.npts) = [ni |-> G2!Ni(log[k].ext), nj |-> G2!Nj(log[k].ext)]
         /\ m.npts = G2!Ni(log[k].ext) * G2!Nj(log[k].ext)
<1>1. Shape(log[k].ext)
  BY EntryFacts DEF Grib2Inv, CommonType
<1>2. G2!Ni(log[k].ext) \in Nat \ {0} /\ G2!Nj(log[k].ext) \in Nat \ {0}
  BY <1>1, Grib2Plane
<1>3. /\ m.gdt = G2!GridTemplate(file.by, G2!Ni(log[k].ext), G2!Nj(log[k].ext))
      /\ m.npts = G2!Ni(log[k].ext) * G2!Nj(log[k].ext)
  BY DEF Grib2Matches
<1>4. QED
  BY <1>2, <1>3, Grib2Grid, Zenon

\* What the index of a file without a loss says of it.
LEMMA Grib2Described ==
  ASSUME Grib2Inv, drv.read, ~file.lost, AllWhole(file)
  PROVE  LET name == G2!HostName(file.by)
             e == drv.records[name]
             info == G2!describe_variable(name) IN
         /\ log # <<>> /\ Len(log) \in Nat \ {0} /\ DOMAIN drv.records = {name}
         /\ e.recs = [j \in 1 .. Len(log) |-> j] /\ Len(e.recs) = Len(log)
         /\ e.grid = [ni |-> G2!Ni(log[1].ext), nj |-> G2!Nj(log[1].ext)]
         /\ info.shape = Grib2Shape(log[1].ext) /\ info.steps = Len(log)
<1> DEFINE name == G2!HostName(file.by)
           e == drv.records[name]
           info == G2!describe_variable(name)
           n == Len(log)
           x == [grid |-> G2!GridShape(file.msgs[1].gdt, file.msgs[1].npts), recs |-> [j \in 1 .. n |-> j]]
<1>1. log # <<>> /\ drv.records = [z \in {name} |-> x]
  BY DEF Grib2Inv, Grib2Index
<1>2. n \in Nat \ {0} /\ DOMAIN log = 1 .. n
  <2>1. log \in Seq(Entries)
    BY DEF Grib2Inv, CommonType
  <2>2. QED
    BY <1>1, <2>1
<1>3. DOMAIN drv.records = {name} /\ e = x
  <2> HIDE DEF name, x
  <2>1. QED
    BY <1>1
<1>4. e.recs = [j \in 1 .. n |-> j] /\ e.grid = G2!GridShape(file.msgs[1].gdt, file.msgs[1].npts)
  <2> HIDE DEF name, e, n
  <2>1. QED
    BY <1>3
<1>5. Len(e.recs) = n
  <2> HIDE DEF e, n
  <2>1. QED
    BY <1>2, <1>4
<1>6. e.grid = [ni |-> G2!Ni(log[1].ext), nj |-> G2!Nj(log[1].ext)]
  <2>1. 1 \in 1 .. n
    BY <1>2
  <2>2. Grib2Matches(file.msgs[1], log[1], file.by)
    BY <2>1, Grib2Whole
  <2> HIDE DEF e, name, x, n
  <2>3. QED
    BY <1>2, <1>4, <2>1, <2>2, Grib2GridOf
<1>7. drv.init
  BY DEF Grib2Inv, Grib2Control
<1>8. info = Found(IF e.grid.nj > 1 THEN <<e.grid.nj, e.grid.ni>> ELSE <<e.grid.ni>>, Len(e.recs))
  <2> HIDE DEF name
  <2>1. QED
    BY <1>3, <1>7, Zenon DEF G2!describe_variable, G2!Found, Found
<1>9. info.shape = Grib2Shape(log[1].ext) /\ info.steps = n
  <2>1. e.grid.nj = G2!Nj(log[1].ext) /\ e.grid.ni = G2!Ni(log[1].ext)
    <3> HIDE DEF e
    <3>1. QED
      BY <1>6
  <2> HIDE DEF e, info, n
  <2>2. QED
    BY <1>5, <1>8, <2>1 DEF Found, Grib2Shape
<1>10. QED
  BY <1>1, <1>2, <1>3, <1>4, <1>5, <1>6, <1>9, Zenon

\* A read that came back with the t-th record of a file without a loss has the
\* elements of the t-th write, if that has the grid of the first and one plane.
Grib2Returned(g, lg) ==
  LET w == lg[g.t + 1]
      at(k) == Offset(BoxIndex(g.box, k), RowMajorStrides(Grib2Shape(lg[1].ext)))
  IN  (G2!Ni(w.ext) = G2!Ni(lg[1].ext) /\ G2!Nj(w.ext) = G2!Nj(lg[1].ext) /\
       Len(w.ext) <= 2 /\ Compact(w)) =>
        \A k \in DOMAIN g.data : g.data[k] = <<w.n, IndexAt(at(k), w.ext)>>

\* What the last read delivered is what its timestep has to deliver.
Grib2Got ==
  (got # NoRead /\ drv.read /\ ~file.lost /\ AllWhole(file)) =>
    got.name = G2!HostName(file.by) /\ (got.t < Len(log) => Grib2Returned(got, log))

\* Element p of a message is the one at p of the row-major order of its field.
LEMMA Grib2Element ==
  ASSUME Grib2Inv, NEW j \in DOMAIN log, NEW m, Grib2Matches(m, log[j], file.by),
         Len(log[j].ext) <= 2, Compact(log[j]), NEW p \in 1 .. m.npts
  PROVE  m.fld[p] = <<log[j].n, IndexAt(p - 1, log[j].ext)>>
<1>1. Shape(log[j].ext) /\ log[j].str \in Seq(Nat) /\ Len(log[j].str) = Len(log[j].ext)
  BY EntryFacts DEF Grib2Inv, CommonType, Grib2Control
<1>2. m.npts = Size(log[j].ext)
  BY <1>1, Grib2Plane, Grib2GridOf
<1>3. m.fld = G2!Encode(Snapshot(log[j], log[j].n), log[j])
  BY DEF Grib2Matches
<1>4. QED
  BY <1>1, <1>2, <1>3, Grib2Encoded

\* A read delivers it.
LEMMA Grib2Read ==
  ASSUME Grib2Inv, NEW name \in DOMAIN drv.records,
         NEW t \in 0 .. G2!describe_variable(name).steps - 1, NEW b, NEW boxed \in BOOLEAN,
         IF boxed THEN b \in Boxes(G2!describe_variable(name).shape)
                  ELSE b = FullBox(G2!describe_variable(name).shape),
         G2!read(name, t, b, boxed)
  PROVE  Grib2Got'
<1>1. UNCHANGED <<drv, file, log>>
  BY DEF G2!read
<1>2. SUFFICES ASSUME drv.read, ~file.lost, AllWhole(file)
               PROVE  got'.name = G2!HostName(file.by) /\ (got'.t < Len(log) => Grib2Returned(got', log))
  BY <1>1 DEF Grib2Got, AllWhole
<1> DEFINE e == drv.records[name]
           j == t + 1
           msg == file.msgs[e.recs[j]]
           shape == Grib2Shape(log[1].ext)
           grid == IF e.grid.nj > 1 THEN <<e.grid.nj, e.grid.ni>> ELSE <<msg.npts>>
           at(k) == Offset(BoxIndex(b, k), RowMajorStrides(grid)) + 1
           full(k) == IF k <= msg.npts THEN msg.fld[k] ELSE Junk
           data == IF boxed THEN [k \in 1 .. Size(b.ext) |-> full(at(k))]
                            ELSE [k \in 1 .. msg.npts |-> full(k)]
           w == log[j]
<1>3. /\ name = G2!HostName(file.by) /\ Len(log) \in Nat \ {0}
      /\ e.recs = [i \in 1 .. Len(log) |-> i]
      /\ e.grid = [ni |-> G2!Ni(log[1].ext), nj |-> G2!Nj(log[1].ext)]
      /\ G2!describe_variable(name).shape = shape /\ G2!describe_variable(name).steps = Len(log)
  <2>1. name = G2!HostName(file.by)
    BY <1>2, Grib2Described
  <2>2. QED
    BY <1>2, <2>1, Grib2Described, Zenon
<1>4. /\ j \in 1 .. Len(log) /\ t \in Nat /\ 1 \in 1 .. Len(log)
  BY <1>3
<1>5. /\ j \in DOMAIN log /\ 1 \in DOMAIN log /\ e.recs[j] = j
      /\ Grib2Matches(file.msgs[j], w, file.by)
  <2>1. DOMAIN log = 1 .. Len(log)
    BY <1>2, Grib2Whole
  <2>2. e.recs[j] = j
    <3> HIDE DEF e, j
    <3>1. QED
      BY <1>3, <1>4
  <2>3. QED
    BY <1>2, <1>4, <2>1, <2>2, Grib2Whole
<1>6. got' = [var |-> "record", name |-> name, t |-> t, box |-> b, data |-> data]
  <2>1. /\ \A i, s : G2!Offset(i, s) = Offset(i, s)
        /\ \A s : G2!RowMajorStrides(s) = RowMajorStrides(s)
        /\ \A k : G2!BoxIndex(b, k) = BoxIndex(b, k)
        /\ G2!Size(b.ext) = Size(b.ext) /\ G2!Junk = Junk
    BY Grib2Names
  <2> DEFINE gat(k) == G2!Offset(G2!BoxIndex(b, k), G2!RowMajorStrides(grid)) + 1
             gfull(k) == IF k <= msg.npts THEN msg.fld[k] ELSE G2!Junk
             gdata == IF boxed THEN [k \in 1 .. G2!Size(b.ext) |-> gfull(gat(k))]
                               ELSE [k \in 1 .. msg.npts |-> gfull(k)]
  <2>2. got' = [var |-> "record", name |-> name, t |-> t, box |-> b, data |-> gdata]
    BY Zenon DEF G2!read
  <2>3. \A k : gat(k) = at(k) /\ gfull(k) = full(k)
    <3> HIDE DEF grid, msg
    <3>1. QED
      BY <2>1
  <2>4. gdata = data
    <3> HIDE DEF gat, at, gfull, full
    <3>1. QED
      BY <2>1, <2>3
  <2> HIDE DEF gdata, data
  <2>5. QED
    BY <2>2, <2>4
<1>7. got'.name = name /\ got'.t = t /\ got'.box = b /\ got'.data = data
  <2> HIDE DEF data
  <2>1. QED
    BY <1>6
<1>8. Shape(log[1].ext) /\ Shape(w.ext)
  BY <1>5, EntryFacts DEF Grib2Inv, CommonType
<1>9. ASSUME G2!Ni(w.ext) = G2!Ni(log[1].ext), G2!Nj(w.ext) = G2!Nj(log[1].ext),
             Len(w.ext) <= 2, Compact(w), NEW k \in DOMAIN data
      PROVE  data[k] = <<w.n, IndexAt(Offset(BoxIndex(b, k), RowMajorStrides(shape)), w.ext)>>
  <2> DEFINE ni == G2!Ni(w.ext)
             nj == G2!Nj(w.ext)
             o == Offset(BoxIndex(b, k), RowMajorStrides(shape))
  <2>1. /\ Shape(shape) /\ Size(shape) = ni * nj /\ (nj <= 1 => ni * nj = ni)
        /\ ni \in Nat /\ nj \in Nat /\ ni * nj \in Nat \ {0}
    BY <1>8, <1>9, Grib2Plane DEF Grib2Shape
  <2>2. msg = file.msgs[j] /\ msg.npts = ni * nj
    BY <1>5, Grib2GridOf
  <2>3. grid = shape
    <3>1. e.grid.nj = nj /\ e.grid.ni = ni
      <4> HIDE DEF e
      <4>1. QED
        BY <1>3, <1>9
    <3>2. shape = IF nj > 1 THEN <<nj, ni>> ELSE <<ni>>
      BY <1>9 DEF Grib2Shape
    <3> HIDE DEF e, shape, ni, nj, msg
    <3>3. CASE nj > 1
      BY <3>1, <3>2, <3>3
    <3>4. CASE ~(nj > 1)
      <4>1. nj <= 1
        BY <2>1, <3>4
      <4>2. QED
        BY <2>1, <2>2, <3>1, <3>2, <3>4, <4>1
    <3>5. QED
      BY <3>3, <3>4
  <2>4. o \in 0 .. Size(shape) - 1 /\ data[k] = full(o + 1)
    <3>1. CASE boxed
      <4>1. b \in Boxes(shape) /\ k \in 1 .. Size(b.ext)
        BY <1>3, <1>9, <3>1
      <4>2. BoxIndex(b, k) \in Bounded(shape)
        BY <2>1, <4>1, BoxIndexInside, CellsAre
      <4>3. o \in 0 .. Size(shape) - 1
        BY <2>1, <4>2, IndexAtOfOffset
      <4>4. data[k] = full(at(k)) /\ at(k) = o + 1
        <5>1. at(k) = o + 1
          BY <2>3
        <5> HIDE DEF at, full, o
        <5>2. data[k] = full(at(k))
          BY <3>1, <4>1
        <5>3. QED
          BY <5>1, <5>2
      <4>5. QED
        BY <4>3, <4>4
    <3>2. CASE ~boxed
      <4>1. b = FullBox(shape) /\ k \in 1 .. msg.npts /\ data[k] = full(k)
        <5> HIDE DEF full, msg
        <5>1. QED
          BY <1>3, <1>9, <3>2
      <4>2. k \in 1 .. Size(shape)
        BY <2>1, <2>2, <4>1
      <4>3. BoxIndex(b, k) = IndexAt(k - 1, shape)
        BY <2>1, <4>1, <4>2, FullBoxFacts
      <4>4. k - 1 \in 0 .. Size(shape) - 1 /\ (k - 1) + 1 = k
        BY <2>1, <4>2
      <4>5. o = k - 1
        BY <2>1, <4>3, <4>4, OffsetOfIndexAt
      <4> HIDE DEF o, full
      <4>6. QED
        BY <4>1, <4>4, <4>5
    <3>3. QED
      BY <3>1, <3>2
  <2>5. o + 1 \in 1 .. msg.npts /\ (o + 1) - 1 = o
    <3>1. o \in 0 .. Size(shape) - 1 /\ Size(shape) = msg.npts /\ Size(shape) \in Nat
      BY <2>1, <2>2, <2>4, Zenon
    <3> HIDE DEF o, msg, shape
    <3>2. QED
      BY <3>1
  <2>6. full(o + 1) = msg.fld[o + 1]
    <3> HIDE DEF o, msg
    <3>1. o + 1 <= msg.npts
      BY <2>1, <2>2, <2>5
    <3>2. QED
      BY <3>1
  <2>7. msg.fld[o + 1] = <<w.n, IndexAt((o + 1) - 1, w.ext)>>
    <3> HIDE DEF o
    <3>1. QED
      BY <1>5, <1>9, <2>2, <2>5, Grib2Element
  <2>8. data[k] = <<w.n, IndexAt(o, w.ext)>>
    <3> HIDE DEF o, data, full, msg, w
    <3>1. QED
      BY <2>4, <2>5, <2>6, <2>7
  <2>9. QED
    BY <2>8
<1>10. Grib2Returned(got', log)
  <2> HIDE DEF data
  <2>1. QED
    BY <1>7, <1>9, Zenon DEF Grib2Returned
<1>11. QED
  BY <1>3, <1>7, <1>10

\* s is a list of its elements.
IsList(s) == Len(s) \in Nat /\ s = [k \in 1 .. Len(s) |-> s[k]]

\* A list with one more element.
LEMMA AppendAt ==
  ASSUME NEW s, IsList(s), NEW x
  PROVE  /\ IsList(Append(s, x)) /\ Len(Append(s, x)) = Len(s) + 1
         /\ \A k \in 1 .. Len(s) : Append(s, x)[k] = s[k]
         /\ Append(s, x)[Len(s) + 1] = x
<1> DEFINE S == {s[k] : k \in 1 .. Len(s)} \cup {x}
<1>1. s \in [1 .. Len(s) -> S]
  BY DEF IsList
<1> HIDE DEF S
<1>2. s \in Seq(S)
  BY <1>1 DEF IsList
<1>3. x \in S
  BY DEF S
<1>4. /\ Append(s, x) \in Seq(S) /\ Len(Append(s, x)) = Len(s) + 1 /\ Len(s) \in Nat
      /\ \A k \in 1 .. Len(s) : Append(s, x)[k] = s[k]
      /\ Append(s, x)[Len(s) + 1] = x
  BY <1>2, <1>3
<1>5. \A r \in Seq(S) : IsList(r)
  BY DEF IsList
<1>6. QED
  BY <1>4, <1>5, Zenon

\* The first j elements of a list.
LEMMA SubSeqAt ==
  ASSUME NEW s, IsList(s), NEW j \in 0 .. Len(s)
  PROVE  /\ IsList(SubSeq(s, 1, j)) /\ Len(SubSeq(s, 1, j)) = j
         /\ \A k \in 1 .. j : SubSeq(s, 1, j)[k] = s[k]
<1> DEFINE S == {s[k] : k \in 1 .. Len(s)}
<1>1. s \in [1 .. Len(s) -> S]
  BY DEF IsList
<1> HIDE DEF S
<1>2. s \in Seq(S)
  BY <1>1 DEF IsList
<1>3. /\ SubSeq(s, 1, j) \in Seq(S) /\ Len(SubSeq(s, 1, j)) = j
      /\ \A k \in 1 .. j : SubSeq(s, 1, j)[k] = s[k]
  BY <1>2 DEF IsList
<1>4. \A r \in Seq(S) : IsList(r)
  BY DEF IsList
<1>5. QED
  BY <1>3, <1>4, Zenon

\* Nothing has been written yet.
LEMMA Grib2Init ==
  ASSUME Init, backend = "grib2"
  PROVE  Grib2Inv
<1>1. G2!Init
  BY DEF Init
<1>2. cb = [v \in Vars |-> Idle] /\ started = 0 /\ log = <<>>
  BY DEF Init
<1>3. CommonType /\ Len(log) = 0 /\ DOMAIN log = {}
  BY <1>2 DEF CommonType
<1>4. /\ DOMAIN drv = {"init", "read", "out", "settings", "records"}
      /\ DOMAIN file = {"exists", "msgs", "synced", "lost", "by"}
      /\ file.msgs = <<>> /\ file.synced = 0 /\ file.lost = FALSE
      /\ file.by = G2!read_settings(0, 0)
      /\ drv.init = FALSE /\ drv.read = FALSE /\ drv.out = FALSE
  BY <1>1 DEF G2!Init, G2!Closed, G2!NoFile
<1>5. Len(file.msgs) = 0 /\ file.msgs = [k \in 1 .. Len(file.msgs) |-> file.msgs[k]]
      /\ DOMAIN file.msgs = {}
  BY <1>4
<1>6. Grib2Control
  <2>1. \E p, g : file.by = G2!read_settings(p, g)
    BY <1>4, Zenon
  <2>2. Len(file.msgs) \in Nat /\ file.synced \in Nat
    BY <1>4, <1>5
  <2>3. QED
    BY <1>2, <1>3, <1>4, <1>5, <2>1, <2>2, Zenon DEF Grib2Control
<1>7. \A n \in 0 .. Len(file.msgs) : Grib2Scanned(file, log, n)
  BY <1>3, <1>5 DEF Grib2Scanned
<1>8. QED
  BY <1>3, <1>4, <1>6, <1>7 DEF Grib2Inv

\* Opening for writing: the file is still empty.
LEMMA Grib2OpenWrite ==
  ASSUME Grib2Inv, NEW m \in G2!Manifests, G2!open_write(m)
  PROVE  Grib2Inv' /\ got' = got
<1>1. PICK p, g :
        /\ ~drv.init /\ started = 0 /\ UNCHANGED <<cb, started, log, threw, got>>
        /\ drv' = [drv EXCEPT !.init = TRUE, !.out = m.path, !.settings = G2!read_settings(p, g)]
        /\ file' = [file EXCEPT !.exists = m.path, !.by = G2!read_settings(p, g)]
  BY Zenon DEF G2!open_write, G2!NoTransfer
<1>2. m.path \in BOOLEAN
  BY DEF G2!Manifests
<1>3. /\ CommonType /\ Grib2Control /\ log = <<>> /\ Len(file.msgs) = 0 /\ ~drv.read
  BY <1>1 DEF Grib2Inv, Grib2Control
<1>4. /\ DOMAIN drv' = {"init", "read", "out", "settings", "records"}
      /\ DOMAIN file' = {"exists", "msgs", "synced", "lost", "by"}
      /\ file'.msgs = file.msgs /\ file'.synced = file.synced /\ file'.lost = file.lost
      /\ file'.by = G2!read_settings(p, g) /\ drv'.settings = G2!read_settings(p, g)
      /\ drv'.init = TRUE /\ drv'.read = drv.read /\ drv'.out = m.path
  BY <1>1, <1>3 DEF Grib2Control
<1>5. CommonType' /\ log' = <<>> /\ Len(log') = 0 /\ DOMAIN log' = {}
  BY <1>1, <1>3 DEF CommonType
<1>6. Grib2Control'
  BY <1>1, <1>2, <1>3, <1>4, <1>5 DEF Grib2Control
<1>7. \A n \in 0 .. Len(file'.msgs) : Grib2Scanned(file', log', n)
  BY <1>3, <1>4, <1>5 DEF Grib2Scanned
<1>8. QED
  BY <1>1, <1>3, <1>4, <1>5, <1>6, <1>7 DEF Grib2Inv

\* Steps that write nothing: they may close the driver or empty stdio's buffer.
LEMMA Grib2NoTransfer ==
  ASSUME Grib2Inv, UNCHANGED <<cb, log, file>>, started' \in Nat, started' = 0 => started = 0,
         DOMAIN drv' = DOMAIN drv, drv'.settings = drv.settings,
         \/ UNCHANGED <<drv>>
         \/ drv'.init = FALSE /\ drv'.read = FALSE /\ drv'.out = FALSE
  PROVE  Grib2Inv'
<1>1. CommonType' /\ UNCHANGED <<log, file>>
  BY DEF Grib2Inv, CommonType
<1>2. Grib2Control'
  BY <1>1 DEF Grib2Inv, Grib2Control
<1>3. file'.lost \/ \A n \in 0 .. Len(file'.msgs) : Grib2Scanned(file', log', n)
  BY <1>1 DEF Grib2Inv
<1>4. (drv'.read /\ ~file'.lost /\ AllWhole(file')) =>
        log' # <<>> /\ drv'.records = Grib2Index(file', Len(log'))
  BY <1>1 DEF Grib2Inv
<1>5. QED
  BY <1>1, <1>2, <1>3, <1>4 DEF Grib2Inv

\* The index of a file without a loss has every write of the log, in order, under the
\* name of the host.
LEMMA Grib2OpenRead ==
  ASSUME Grib2Inv, NEW m, NEW stops \in BOOLEAN, G2!open_read(m, stops)
  PROVE  Grib2Inv' /\ got' = got
<1> DEFINE s == G2!read_settings(m.templates[1], m.templates[2])
<1>1. /\ ~drv.init /\ log # <<>> /\ s = file.by /\ UNCHANGED <<cb, started, log, threw, got, file>>
      /\ drv' = [drv EXCEPT !.init = TRUE, !.read = TRUE, !.settings = s,
                            !.records = G2!build_record_index(stops)]
  BY Zenon DEF G2!open_read, G2!NoTransfer
<1>2. CommonType /\ Grib2Control /\ ~drv.out
  BY <1>1 DEF Grib2Inv, Grib2Control
<1>3. /\ DOMAIN drv' = {"init", "read", "out", "settings", "records"}
      /\ drv'.init = TRUE /\ drv'.read = TRUE /\ drv'.out = drv.out /\ drv'.settings = file.by
      /\ drv'.records = G2!build_record_index(stops)
  <2> HIDE DEF s
  <2>1. QED
    BY <1>1, <1>2 DEF Grib2Control
<1>4. CommonType' /\ UNCHANGED <<log, file, started>>
  BY <1>1, <1>2 DEF CommonType
<1>5. Grib2Control'
  BY <1>2, <1>3, <1>4 DEF Grib2Control
<1>6. file'.lost \/ \A n \in 0 .. Len(file'.msgs) : Grib2Scanned(file', log', n)
  BY <1>4 DEF Grib2Inv
<1>7. ASSUME ~file.lost, AllWhole(file)
      PROVE  G2!build_record_index(stops) = Grib2Index(file, Len(log))
  <2> DEFINE n == Len(log)
             V == G2!Visible(stops)
             host == G2!HostName(file.by)
             at(name) == {k \in V : G2!NameOf(k) = name}
             nth(name, j) == CHOOSE k \in at(name) : G2!Cardinality({i \in at(name) : i <= k}) = j
             entry(name) == [grid |-> G2!GridShape(file.msgs[nth(name, 1)].gdt, file.msgs[nth(name, 1)].npts),
                             recs |-> [j \in 1 .. G2!Cardinality(at(name)) |-> nth(name, j)]]
  <2>1. /\ n \in Nat /\ DOMAIN file.msgs = 1 .. n
        /\ \A k \in 1 .. n : Grib2Matches(file.msgs[k], log[k], file.by)
    BY <1>7, Grib2Whole
  <2>2. n \in Nat \ {0}
    BY <1>1, <1>2 DEF CommonType
  <2>3. V = 1 .. n
    <3>1. \A k \in 1 .. n : file.msgs[k].whole
      BY <1>7, <2>1 DEF AllWhole
    <3>2. \A k \in 1 .. n : \A j \in 1 .. k - 1 : j \in 1 .. n
      BY <2>1
    <3> HIDE DEF n
    <3>3. QED
      BY <2>1, <3>1, <3>2 DEF G2!Visible
  <2>4. ASSUME NEW k \in 1 .. n PROVE G2!NameOf(k) = host
    <3>1. /\ file.msgs[k].discipline = file.by.discipline
          /\ file.msgs[k].number = file.by.pdt_number
          /\ file.msgs[k].pdt = G2!ProductTemplate(file.by)
      BY <2>1, <2>4 DEF Grib2Matches
    <3>2. file.by.pdt_number \in G2!SupportedPdts
      BY <1>1, <1>2 DEF Grib2Control
    <3>3. G2!RecordName(file.by.discipline, file.by.pdt_number, G2!ProductTemplate(file.by)) = host
      BY <3>2, Grib2Settings, Grib2Name
    <3>4. QED
      BY <3>1, <3>3, Zenon DEF G2!NameOf
  <2> HIDE DEF n, host
  <2>5. at(host) = 1 .. n /\ {G2!NameOf(k) : k \in V} = {host}
    <3>1. 1 \in 1 .. n
      BY <2>2
    <3> HIDE DEF V
    <3>2. QED
      BY <2>3, <2>4, <3>1
  <2>6. G2!build_record_index(stops) = [name \in {G2!NameOf(k) : k \in V} |-> entry(name)]
    BY Zenon DEF G2!build_record_index
  <2> HIDE DEF V
  <2> \A S : G2!Cardinality(S) = Cardinality(S)
    BY DEF Cardinality, G2!Cardinality
  <2>7. G2!Cardinality(at(host)) = n
    <3>1. Cardinality(1 .. n) = IF 1 > n THEN 0 ELSE n - 1 + 1
      BY <2>2, FS_Interval
    <3>2. Cardinality(1 .. n) = n
      BY <2>2, <3>1
    <3>3. QED
      BY <2>5, <3>2
  <2>8. ASSUME NEW j \in 1 .. n PROVE nth(host, j) = j
    <3>1. \A k \in 1 .. n : {i \in 1 .. n : i <= k} = 1 .. k
      BY <2>2
    <3>2. ASSUME NEW k \in 1 .. n PROVE Cardinality(1 .. k) = k
      <4>1. k \in Nat /\ 1 \in Int /\ ~(1 > k) /\ k - 1 + 1 = k
        BY <2>2
      <4>2. Cardinality(1 .. k) = IF 1 > k THEN 0 ELSE k - 1 + 1
        BY <4>1, FS_Interval
      <4>3. QED
        BY <4>1, <4>2
    <3>3. nth(host, j) = CHOOSE k \in 1 .. n : G2!Cardinality({i \in 1 .. n : i <= k}) = j
      BY <2>5
    <3>4. \A k \in 1 .. n : G2!Cardinality({i \in 1 .. n : i <= k}) = k
      BY <3>1, <3>2
    <3> DEFINE P(k) == G2!Cardinality({i \in 1 .. n : i <= k}) = j
    <3>5. \A k \in 1 .. n : P(k) <=> k = j
      BY <3>4
    <3> HIDE DEF P
    <3>6. (CHOOSE k \in 1 .. n : P(k)) = j
      BY <2>8, <3>5
    <3>7. QED
      BY <3>3, <3>6 DEF P
  <2>9. entry(host) = [grid |-> G2!GridShape(file.msgs[1].gdt, file.msgs[1].npts),
                       recs |-> [j \in 1 .. n |-> j]]
    <3> HIDE DEF nth, at
    <3>1. nth(host, 1) = 1
      <4>1. 1 \in 1 .. n
        BY <2>2
      <4>2. QED
        BY <2>8, <4>1, Zenon
    <3>2. [j \in 1 .. G2!Cardinality(at(host)) |-> nth(host, j)] = [j \in 1 .. n |-> j]
      BY <2>7, <2>8
    <3>3. QED
      BY <3>1, <3>2
  <2> HIDE DEF entry
  <2>10. QED
    BY <2>5, <2>6, <2>9 DEF Grib2Index, host, n
<1>8. (drv'.read /\ ~file'.lost /\ AllWhole(file')) =>
        log' # <<>> /\ drv'.records = Grib2Index(file', Len(log'))
  BY <1>1, <1>3, <1>4, <1>7
<1>9. QED
  BY <1>1, <1>4, <1>5, <1>6, <1>8 DEF Grib2Inv

\* x goes to the end of the file of a driver that is writing: a message, which the
\* log then has, or a piece of one, which it has not.
Grib2Appends(x) ==
  /\ x.whole \in BOOLEAN /\ drv.out /\ drv' = drv
  /\ DOMAIN file' = DOMAIN file /\ file'.msgs = Append(file.msgs, x)
  /\ file'.synced = file.synced /\ file'.lost = file.lost /\ file'.by = file.by
  /\ started' # 0 /\ CommonType'
  /\ \A k \in DOMAIN log' : Len(log'[k].str) = Len(log'[k].ext)
  /\ log' # <<>> => /\ file.by.gdt_number \in G2!SupportedGdts
                    /\ file.by.pdt_number \in G2!SupportedPdts
  /\ \/ ~x.whole /\ log' = log
     \/ /\ x.whole /\ Len(log') = Len(log) + 1 /\ \A k \in 1 .. Len(log) : log'[k] = log[k]
        /\ Grib2Matches(x, log'[Len(log) + 1], file.by)

\* It does no harm.
LEMMA Grib2Append ==
  ASSUME Grib2Inv, NEW x, Grib2Appends(x)
  PROVE  Grib2Inv'
<1> DEFINE N == Len(file.msgs)
<1> USE DEF Grib2Appends
<1>1. /\ CommonType /\ Grib2Control /\ drv.init /\ ~drv.read
      /\ ~file.lost => \A n \in 0 .. N : Grib2Scanned(file, log, n)
  BY DEF Grib2Inv, Grib2Control
<1>2. /\ DOMAIN file' = {"exists", "msgs", "synced", "lost", "by"}
      /\ file'.msgs = Append(file.msgs, x) /\ file'.synced = file.synced
      /\ file'.lost = file.lost /\ file'.by = file.by
  BY <1>1 DEF Grib2Control
<1>3. N \in Nat /\ IsList(file.msgs) /\ DOMAIN file.msgs = 1 .. N
  BY <1>1 DEF Grib2Control, IsList
<1>4. /\ IsList(file'.msgs) /\ Len(file'.msgs) = N + 1
      /\ \A k \in 1 .. N : file'.msgs[k] = file.msgs[k]
      /\ file'.msgs[N + 1] = x
  BY <1>2, <1>3, AppendAt
<1>5. DOMAIN file'.msgs = 1 .. N + 1
  BY <1>4 DEF IsList
<1> HIDE DEF N
<1>6. \A k \in DOMAIN file'.msgs : file'.msgs[k].whole \in BOOLEAN
  <2>1. \A k \in 1 .. N : file.msgs[k].whole \in BOOLEAN
    BY <1>1, <1>3 DEF Grib2Control
  <2>2. \A k \in 1 .. N + 1 : k \in 1 .. N \/ k = N + 1
    BY <1>3
  <2>3. QED
    BY <1>4, <1>5, <2>1, <2>2, Zenon
<1>7. Grib2Control'
  <2>1. /\ Len(file'.msgs) \in Nat /\ file'.msgs = [k \in 1 .. Len(file'.msgs) |-> file'.msgs[k]]
    BY <1>4 DEF IsList
  <2>2. started' # 0 /\ drv' = drv
    OBVIOUS
  <2>3. /\ DOMAIN drv = {"init", "read", "out", "settings", "records"}
        /\ file.synced \in Nat /\ file.lost \in BOOLEAN /\ drv.init \in BOOLEAN
        /\ drv.read \in BOOLEAN /\ drv.out \in BOOLEAN
        /\ (drv.read => drv.init /\ ~drv.out) /\ (drv.out => drv.init)
        /\ (drv.init => drv.settings = file.by) /\ (\E p, g : file.by = G2!read_settings(p, g))
    BY <1>1, Zenon DEF Grib2Control
  <2>4. QED
    BY <1>2, <1>6, <2>1, <2>2, <2>3, Zenon DEF Grib2Control
<1>8. ASSUME ~file.lost, NEW n \in 0 .. N + 1,
             \A k \in 1 .. n : file'.msgs[k].whole,
             \A k \in n + 1 .. N + 1 : ~file'.msgs[k].whole
      PROVE  n = Len(log') /\ \A k \in 1 .. n : Grib2Matches(file'.msgs[k], log'[k], file'.by)
  <2>1. CASE ~x.whole /\ log' = log
    <3>1. n \in 0 .. N
      <4>1. n # N + 1
        <5>1. SUFFICES ASSUME n = N + 1 PROVE FALSE
          OBVIOUS
        <5>2. N + 1 \in 1 .. n
          BY <1>3, <5>1
        <5>3. QED
          BY <1>4, <1>8, <2>1, <5>2, Zenon
      <4>2. QED
        BY <1>3, <4>1
    <3>2. (\A k \in 1 .. n : k \in 1 .. N) /\ \A k \in n + 1 .. N : k \in 1 .. N /\ k \in n + 1 .. N + 1
      BY <1>3, <3>1
    <3>3. /\ \A k \in 1 .. n : file.msgs[k].whole
          /\ \A k \in n + 1 .. N : ~file.msgs[k].whole
      BY <1>4, <1>8, <3>2, Zenon
    <3>4. Grib2Scanned(file, log, n)
      BY <1>1, <1>8, <3>1
    <3>5. n = Len(log) /\ \A k \in 1 .. n : Grib2Matches(file.msgs[k], log[k], file.by)
      BY <3>3, <3>4 DEF Grib2Scanned, N
    <3>6. QED
      BY <1>2, <1>4, <2>1, <3>2, <3>5, Zenon
  <2>2. CASE /\ x.whole /\ Len(log') = Len(log) + 1 /\ \A k \in 1 .. Len(log) : log'[k] = log[k]
             /\ Grib2Matches(x, log'[Len(log) + 1], file.by)
    <3>1. n = N + 1
      <4>1. SUFFICES ASSUME n # N + 1 PROVE FALSE
        OBVIOUS
      <4>2. N + 1 \in n + 1 .. N + 1
        BY <1>3, <4>1
      <4>3. QED
        BY <1>4, <1>8, <2>2, <4>2, Zenon
    <3>2. N \in 0 .. N /\ (\A k \in 1 .. N : k \in 1 .. n) /\ \A k \in N + 1 .. N : FALSE
      BY <1>3, <3>1
    <3>3. /\ \A k \in 1 .. N : file.msgs[k].whole
          /\ \A k \in N + 1 .. N : ~file.msgs[k].whole
      BY <1>4, <1>8, <3>2, Zenon
    <3>4. Grib2Scanned(file, log, N)
      BY <1>1, <1>8, <3>2
    <3>5. N = Len(log) /\ \A k \in 1 .. N : Grib2Matches(file.msgs[k], log[k], file.by)
      BY <3>3, <3>4 DEF Grib2Scanned, N
    <3>6. \A k \in 1 .. n : k \in 1 .. N \/ k = N + 1
      BY <1>3, <3>1
    <3>7. QED
      BY <1>2, <1>4, <2>2, <3>1, <3>5, <3>6, Zenon
  <2>3. QED
    BY <2>1, <2>2
<1>9. ~file'.lost => \A n \in 0 .. Len(file'.msgs) : Grib2Scanned(file', log', n)
  BY <1>2, <1>4, <1>8, Zenon DEF Grib2Scanned
<1>10. QED
  BY <1>1, <1>7, <1>9 DEF Grib2Inv

\* Emptying stdio's buffer, with or without success, when the driver is writing.
LEMMA Grib2Drain ==
  ASSUME Grib2Inv, G2!Drain, drv.out, UNCHANGED <<cb, started, log>>,
         DOMAIN drv' = DOMAIN drv, drv'.settings = drv.settings,
         \/ UNCHANGED <<drv>>
         \/ drv'.init = FALSE /\ drv'.read = FALSE /\ drv'.out = FALSE
  PROVE  Grib2Inv'
<1> DEFINE N == Len(file.msgs)
<1>1. /\ CommonType /\ Grib2Control /\ drv.init /\ ~drv.read
      /\ ~file.lost => \A n \in 0 .. N : Grib2Scanned(file, log, n)
  BY DEF Grib2Inv, Grib2Control
<1>2. CommonType' /\ log' = log /\ started' = started
  BY <1>1 DEF CommonType
<1>3. N \in Nat /\ IsList(file.msgs) /\ DOMAIN file.msgs = 1 .. N
      /\ DOMAIN file = {"exists", "msgs", "synced", "lost", "by"}
  BY <1>1 DEF Grib2Control, IsList
<1>4. PICK j \in 0 .. N :
        /\ DOMAIN file' = DOMAIN file /\ file'.by = file.by /\ file'.synced \in Nat
        /\ IsList(file'.msgs) /\ Len(file'.msgs) = j
        /\ \A k \in 1 .. j : file'.msgs[k] = file.msgs[k]
        /\ file'.lost \in BOOLEAN
        /\ ~file'.lost => ~file.lost /\ \A k \in j + 1 .. N : ~file.msgs[k].whole
  <2>1. CASE file' = [file EXCEPT !.synced = N]
    <3>1. /\ DOMAIN file' = DOMAIN file /\ file'.by = file.by /\ file'.synced = N
          /\ file'.msgs = file.msgs /\ file'.lost = file.lost
      BY <1>3, <2>1
    <3>2. N \in 0 .. N /\ \A k \in N + 1 .. N : FALSE
      BY <1>3
    <3>3. file.lost \in BOOLEAN
      BY <1>1 DEF Grib2Control
    <3>4. QED
      BY <1>3, <3>1, <3>2, <3>3, Zenon DEF N
  <2>2. ASSUME NEW j \in file.synced .. N - 1,
               file' = [file EXCEPT !.msgs = SubSeq(@, 1, j), !.synced = j,
                          !.lost = @ \/ \E k \in j + 1 .. N : file.msgs[k].whole]
        PROVE  /\ j \in 0 .. N /\ DOMAIN file' = DOMAIN file /\ file'.by = file.by
               /\ file'.synced \in Nat /\ IsList(file'.msgs) /\ Len(file'.msgs) = j
               /\ \A k \in 1 .. j : file'.msgs[k] = file.msgs[k]
               /\ file'.lost \in BOOLEAN
               /\ ~file'.lost => ~file.lost /\ \A k \in j + 1 .. N : ~file.msgs[k].whole
    <3>1. file.synced \in Nat /\ file.lost \in BOOLEAN
      BY <1>1 DEF Grib2Control
    <3>2. j \in 0 .. N /\ j \in Nat
      BY <1>3, <2>2, <3>1
    <3> DEFINE gone == \E k \in j + 1 .. N : file.msgs[k].whole
    <3>3. /\ DOMAIN file' = DOMAIN file /\ file'.by = file.by /\ file'.synced = j
          /\ file'.msgs = SubSeq(file.msgs, 1, j) /\ file'.lost = (file.lost \/ gone)
      <4> HIDE DEF gone, N
      <4>1. QED
        BY <1>3, <2>2, Zenon DEF gone
    <3>4. /\ IsList(file'.msgs) /\ Len(file'.msgs) = j
          /\ \A k \in 1 .. j : file'.msgs[k] = file.msgs[k]
      BY <1>3, <3>2, <3>3, SubSeqAt
    <3>5. QED
      BY <3>1, <3>2, <3>3, <3>4, Zenon
  <2>3. \/ file' = [file EXCEPT !.synced = N]
        \/ \E j \in file.synced .. N - 1 :
             file' = [file EXCEPT !.msgs = SubSeq(@, 1, j), !.synced = j,
                        !.lost = @ \/ \E k \in j + 1 .. N : file.msgs[k].whole]
    BY Zenon DEF G2!Drain
  <2>4. QED
    BY <2>1, <2>2, <2>3, Zenon
<1>5. j \in Nat /\ DOMAIN file'.msgs = 1 .. j /\ \A k \in 1 .. j : k \in 1 .. N
  BY <1>3, <1>4 DEF IsList
<1> HIDE DEF N
<1>6. Grib2Control'
  <2>1. /\ Len(file'.msgs) \in Nat /\ file'.msgs = [k \in 1 .. Len(file'.msgs) |-> file'.msgs[k]]
    BY <1>4 DEF IsList
  <2>2. \A k \in DOMAIN file'.msgs : file'.msgs[k].whole \in BOOLEAN
    BY <1>1, <1>3, <1>4, <1>5, Zenon DEF Grib2Control
  <2>3. N = 0 => Len(file'.msgs) = 0
    BY <1>4
  <2>4. drv'.init \in BOOLEAN /\ drv'.read \in BOOLEAN /\ drv'.out \in BOOLEAN
        /\ (drv'.read => drv'.init /\ ~drv'.out) /\ (drv'.out => drv'.init)
        /\ (drv'.init => drv.init)
    BY <1>1 DEF Grib2Control
  <2>5. DOMAIN drv' = {"init", "read", "out", "settings", "records"}
    BY <1>1 DEF Grib2Control
  <2>6. /\ (drv.init => drv.settings = file.by) /\ (\E p, g : file.by = G2!read_settings(p, g))
        /\ (started = 0 => log = <<>> /\ N = 0)
        /\ (\A k \in DOMAIN log : Len(log[k].str) = Len(log[k].ext))
        /\ (log # <<>> => /\ file.by.gdt_number \in G2!SupportedGdts
                          /\ file.by.pdt_number \in G2!SupportedPdts)
    BY <1>1, Zenon DEF Grib2Control, N
  <2>7. /\ drv'.init => drv'.settings = file'.by
        /\ \E p, g : file'.by = G2!read_settings(p, g)
        /\ started' = 0 => log' = <<>> /\ Len(file'.msgs) = 0
        /\ \A k \in DOMAIN log' : Len(log'[k].str) = Len(log'[k].ext)
        /\ log' # <<>> => /\ file'.by.gdt_number \in G2!SupportedGdts
                          /\ file'.by.pdt_number \in G2!SupportedPdts
        /\ DOMAIN file' = {"exists", "msgs", "synced", "lost", "by"}
        /\ file'.synced \in Nat /\ file'.lost \in BOOLEAN
    <3>1. drv'.init => drv'.settings = file'.by
      BY <1>4, <2>4, <2>6
    <3>2. QED
      BY <1>2, <1>3, <1>4, <2>3, <2>6, <3>1, Zenon
  <2>8. QED
    BY <2>1, <2>2, <2>4, <2>5, <2>7 DEF Grib2Control
<1>7. ASSUME ~file'.lost, NEW n \in 0 .. j,
             \A k \in 1 .. n : file'.msgs[k].whole,
             \A k \in n + 1 .. j : ~file'.msgs[k].whole
      PROVE  n = Len(log) /\ \A k \in 1 .. n : Grib2Matches(file'.msgs[k], log[k], file'.by)
  <2>1. n \in 0 .. N /\ (\A k \in 1 .. n : k \in 1 .. j)
        /\ \A k \in n + 1 .. N : (k \in n + 1 .. j /\ k \in 1 .. j) \/ k \in j + 1 .. N
    BY <1>3, <1>4, <1>5, <1>7
  <2>2. (\A k \in 1 .. n : file.msgs[k].whole) /\ \A k \in n + 1 .. N : ~file.msgs[k].whole
    BY <1>4, <1>7, <2>1, Zenon
  <2>3. Grib2Scanned(file, log, n)
    BY <1>1, <1>4, <1>7, <2>1, Zenon
  <2>4. n = Len(log) /\ \A k \in 1 .. n : Grib2Matches(file.msgs[k], log[k], file.by)
    BY <2>2, <2>3 DEF Grib2Scanned, N
  <2>5. QED
    BY <1>4, <2>1, <2>4, Zenon
<1>8. ~file'.lost => \A n \in 0 .. Len(file'.msgs) : Grib2Scanned(file', log', n)
  BY <1>2, <1>4, <1>7, Zenon DEF Grib2Scanned
<1>9. ~drv'.read
  BY <1>1
<1>10. QED
  BY <1>2, <1>6, <1>8, <1>9 DEF Grib2Inv

\* A write is appended, dropped with the loss noted, or throws.
LEMMA Grib2Write ==
  ASSUME Grib2Inv, NEW v \in Vars, NEW l \in Layouts[v], G2!write(v, l)
  PROVE  Grib2Inv' /\ got' = got
<1> DEFINE n == started + 1
<1>1. /\ drv.init /\ started' = n /\ UNCHANGED <<drv, cb, got>>
      /\ \/ /\ G2!Encodable /\ Returned(v, n, l)
            /\ file' = IF drv.out THEN [file EXCEPT !.msgs = Append(@, G2!Message(l, n))]
                       ELSE [file EXCEPT !.lost = TRUE]
         \/ log' = log /\ file' = file
         \/ log' = log /\ drv.out /\ file' = [file EXCEPT !.msgs = Append(@, G2!Partial)]
  BY Grib2Names, Zenon DEF G2!write
<1>2. CommonType /\ Grib2Control /\ started \in Nat /\ drv.settings = file.by
  BY <1>1 DEF Grib2Inv, Grib2Control, CommonType
<1>3. n \in Nat \ {0} /\ started' \in Nat \ {0}
  BY <1>1, <1>2
<1> HIDE DEF n
<1>4. IsLayout(l) /\ Len(l.str) = Len(l.ext)
  BY LayoutFacts, DriverAssumption
<1>5. CASE G2!Encodable /\ Returned(v, n, l) /\
           file' = IF drv.out THEN [file EXCEPT !.msgs = Append(@, G2!Message(l, n))]
                   ELSE [file EXCEPT !.lost = TRUE]
  <2> DEFINE e == [var |-> v, n |-> n, ext |-> l.ext, str |-> l.str]
             z == Len(log) + 1
  <2>1. /\ log' \in Seq(Entries) /\ Len(log) \in Nat /\ Len(log') = Len(log) + 1
        /\ DOMAIN log = 1 .. Len(log)
        /\ \A k \in DOMAIN log : log'[k] = log[k]
        /\ log'[z] = e /\ \A k \in DOMAIN log' : k \in DOMAIN log \/ k = z
    BY <1>2, <1>3, <1>4, <1>5, ReturnedFacts DEF CommonType
  <2>2. CommonType'
    BY <1>1, <1>2, <1>3, <2>1 DEF CommonType
  <2>3. e.n = n /\ e.ext = l.ext /\ e.str = l.str
    OBVIOUS
  <2> HIDE DEF e
  <2>4. \A k \in DOMAIN log' : Len(log'[k].str) = Len(log'[k].ext)
    <3>1. \A k \in DOMAIN log : Len(log[k].str) = Len(log[k].ext)
      BY <1>2 DEF Grib2Control
    <3>2. QED
      BY <1>4, <2>1, <2>3, <3>1
  <2>5. file.by.gdt_number \in G2!SupportedGdts /\ file.by.pdt_number \in G2!SupportedPdts
    BY <1>2, <1>5 DEF G2!Encodable
  <2>6. CASE drv.out
    <3> DEFINE x == G2!Message(l, n)
    <3>1. x.whole = TRUE /\ Grib2Matches(x, e, file.by)
      <4>1. /\ x.whole = TRUE /\ x.discipline = drv.settings.discipline
            /\ x.gdt = G2!GridTemplate(drv.settings, G2!Ni(l.ext), G2!Nj(l.ext))
            /\ x.npts = G2!Ni(l.ext) * G2!Nj(l.ext)
            /\ x.number = drv.settings.pdt_number /\ x.pdt = G2!ProductTemplate(drv.settings)
            /\ x.fld = G2!Encode(G2!Snapshot(l, n), l)
        BY DEF G2!Message
      <4>2. Snapshot(e, n) = Snapshot(l, n)
        BY <2>3 DEF Snapshot, ActualStrides
      <4>3. \A d : G2!Encode(d, e) = G2!Encode(d, l)
        BY <2>3 DEF G2!Encode, G2!is_contiguous_row_major, G2!pack_row_major,
                    G2!total_elements, G2!ActualStrides
      <4>4. G2!Snapshot(l, n) = Snapshot(l, n)
        BY Grib2Names
      <4> HIDE DEF x
      <4>5. QED
        BY <1>2, <2>3, <4>1, <4>2, <4>3, <4>4, Zenon DEF Grib2Matches
    <3> HIDE DEF x
    <3>2. /\ DOMAIN file' = DOMAIN file /\ file'.msgs = Append(file.msgs, x)
          /\ file'.synced = file.synced /\ file'.lost = file.lost /\ file'.by = file.by
      <4>1. file' = [file EXCEPT !.msgs = Append(@, x)]
        BY <1>5, <2>6, Zenon DEF x
      <4>2. QED
        BY <1>2, <4>1 DEF Grib2Control
    <3>3. Grib2Matches(x, log'[Len(log) + 1], file.by)
      BY <2>1, <3>1
    <3>4. Grib2Inv'
      <4>1. x.whole \in BOOLEAN /\ x.whole
        BY <3>1
      <4>2. \A k \in 1 .. Len(log) : log'[k] = log[k]
        BY <2>1
      <4>3. drv' = drv
        BY <1>1
      <4>4. QED
        <5>1. Grib2Appends(x)
          BY <1>3, <2>1, <2>2, <2>4, <2>5, <2>6, <3>2, <3>3, <4>1, <4>2, <4>3 DEF Grib2Appends
        <5>2. QED
          BY <5>1, Grib2Append
    <3>5. QED
      BY <1>1, <3>4
  <2>7. CASE ~drv.out
    <3>1. file' = [file EXCEPT !.lost = TRUE] /\ drv' = drv /\ started' # 0
      BY <1>1, <1>3, <1>5, <2>7
    <3>2. /\ DOMAIN file' = {"exists", "msgs", "synced", "lost", "by"} /\ file'.lost = TRUE
          /\ file'.msgs = file.msgs /\ file'.synced = file.synced /\ file'.by = file.by
      BY <1>2, <3>1 DEF Grib2Control
    <3>3. Grib2Control'
      BY <1>2, <2>4, <2>5, <3>1, <3>2, Zenon DEF Grib2Control
    <3>4. QED
      BY <1>1, <2>2, <3>2, <3>3 DEF Grib2Inv
  <2>8. QED
    BY <2>6, <2>7
<1>6. CASE log' = log /\ file' = file
  <2>1. UNCHANGED <<cb, log, file>> /\ UNCHANGED <<drv>> /\ DOMAIN drv' = DOMAIN drv
        /\ drv'.settings = drv.settings /\ started' \in Nat /\ (started' = 0 => started = 0)
    BY <1>1, <1>3, <1>6
  <2>2. QED
    BY <1>1, <2>1, Grib2NoTransfer
<1>7. CASE log' = log /\ drv.out /\ file' = [file EXCEPT !.msgs = Append(@, G2!Partial)]
  <2>1. G2!Partial.whole = FALSE
    BY DEF G2!Partial
  <2>2. CommonType' /\ drv' = drv
    BY <1>1, <1>2, <1>3, <1>7 DEF CommonType
  <2>3. /\ \A k \in DOMAIN log' : Len(log'[k].str) = Len(log'[k].ext)
        /\ log' # <<>> => /\ file.by.gdt_number \in G2!SupportedGdts
                          /\ file.by.pdt_number \in G2!SupportedPdts
    BY <1>2, <1>7, Zenon DEF Grib2Control
  <2> DEFINE x == G2!Partial
  <2>4. /\ DOMAIN file' = DOMAIN file /\ file'.msgs = Append(file.msgs, x)
        /\ file'.synced = file.synced /\ file'.lost = file.lost /\ file'.by = file.by
        /\ drv.out /\ log' = log
    BY <1>2, <1>7 DEF Grib2Control
  <2>5. x.whole \in BOOLEAN /\ ~x.whole
    BY <2>1
  <2> HIDE DEF x
  <2>6. Grib2Inv'
    <3>1. Grib2Appends(x)
      BY <1>3, <2>2, <2>3, <2>4, <2>5 DEF Grib2Appends
    <3>2. QED
      BY <3>1, Grib2Append
  <2>7. QED
    BY <1>1, <2>6
<1>8. QED
  BY <1>1, <1>5, <1>6, <1>7

\* The inductive invariant.
Grib2IInv == backend = "grib2" => Grib2Inv /\ Grib2Got

\* Every step keeps it.
LEMMA Grib2Step ==
  ASSUME Grib2IInv, [Next]_vars
  PROVE  Grib2IInv'
<1>1. CASE UNCHANGED vars
  <2>1. UNCHANGED <<backend, drv, file, cb, started, log, threw, got>>
    BY <1>1 DEF vars
  <2>2. ASSUME Grib2Inv PROVE Grib2Inv'
    <3>1. started \in Nat
      BY <2>2 DEF Grib2Inv, CommonType
    <3>2. QED
      BY <2>1, <2>2, <3>1, Grib2NoTransfer
  <2>3. ASSUME Grib2Got PROVE Grib2Got'
    BY <2>1, <2>3 DEF Grib2Got
  <2>4. QED
    BY <2>1, <2>2, <2>3 DEF Grib2IInv
<1>2. CASE Next /\ backend # "grib2"
  BY <1>2 DEF Next, Grib2IInv
<1>3. CASE Next /\ backend = "grib2"
  <2>1. G2!Next /\ backend' = backend /\ Grib2Inv /\ got = NoRead
    BY <1>3 DEF Next, Grib2IInv
  <2>2. /\ DOMAIN drv = {"init", "read", "out", "settings", "records"} /\ started \in Nat
    BY <2>1 DEF Grib2Inv, Grib2Control, CommonType
  <2>3. SUFFICES Grib2Inv' /\ (got' = NoRead \/ Grib2Got')
    BY DEF Grib2IInv, Grib2Got
  <2>4. ASSUME NEW m \in G2!Manifests, G2!open_write(m) PROVE Grib2Inv' /\ got' = NoRead
    BY <2>1, <2>4, Grib2OpenWrite
  <2>5. ASSUME NEW m, NEW stops \in BOOLEAN, G2!open_read(m, stops)
        PROVE  Grib2Inv' /\ got' = NoRead
    BY <2>1, <2>5, Grib2OpenRead
  <2>6. ASSUME NEW v \in Vars, NEW l \in Layouts[v], G2!write(v, l)
        PROVE  Grib2Inv' /\ got' = NoRead
    BY <2>1, <2>6, Grib2Write
  <2>7. ASSUME NEW name \in DOMAIN drv.records,
               NEW t \in 0 .. G2!describe_variable(name).steps - 1, NEW b, NEW boxed \in BOOLEAN,
               IF boxed THEN b \in Boxes(G2!describe_variable(name).shape)
                        ELSE b = FullBox(G2!describe_variable(name).shape),
               G2!read(name, t, b, boxed)
        PROVE  Grib2Inv' /\ Grib2Got'
    <3>1. UNCHANGED <<drv, file, cb, started, log>>
      BY <2>7 DEF G2!read
    <3>2. Grib2Inv'
      BY <2>1, <2>2, <3>1, Grib2NoTransfer
    <3>3. Grib2Got'
      BY <2>1, <2>7, Grib2Read
    <3>4. QED
      BY <3>2, <3>3
  <2>8. CASE G2!flush
    <3>1. /\ UNCHANGED <<drv, cb, started, log, threw, got>>
          /\ IF drv.out THEN G2!Drain ELSE UNCHANGED <<file, faults>>
      BY <2>8 DEF G2!flush, G2!NoTransfer
    <3>2. CASE drv.out
      BY <2>1, <3>1, <3>2, Grib2Drain
    <3>3. CASE ~drv.out
      BY <2>1, <2>2, <3>1, <3>3, Grib2NoTransfer
    <3>4. QED
      BY <3>2, <3>3
  <2>9. CASE G2!close
    <3>1. /\ UNCHANGED <<cb, started, log, threw, got>>
          /\ IF drv.out THEN G2!Drain ELSE UNCHANGED <<file, faults>>
          /\ drv' = [drv EXCEPT !.init = FALSE, !.read = FALSE, !.out = FALSE, !.records = <<>>]
      BY <2>9 DEF G2!close, G2!NoTransfer
    <3>2. /\ DOMAIN drv' = DOMAIN drv /\ drv'.settings = drv.settings
          /\ drv'.init = FALSE /\ drv'.read = FALSE /\ drv'.out = FALSE
      BY <2>2, <3>1
    <3>3. CASE drv.out
      BY <2>1, <3>1, <3>2, <3>3, Grib2Drain
    <3>4. CASE ~drv.out
      BY <2>1, <2>2, <3>1, <3>2, <3>4, Grib2NoTransfer
    <3>5. QED
      BY <3>3, <3>4
  <2>10. \/ \E m \in G2!Manifests : G2!open_write(m)
         \/ \E m \in G2!Manifests : \E stops \in BOOLEAN : G2!open_read(m, stops)
         \/ \E v \in Vars : \E l \in Layouts[v] : G2!write(v, l)
         \/ \E name \in DOMAIN drv.records : \E t \in 0 .. G2!describe_variable(name).steps - 1 :
              \/ G2!read(name, t, FullBox(G2!describe_variable(name).shape), FALSE)
              \/ \E b \in Boxes(G2!describe_variable(name).shape) : G2!read(name, t, b, TRUE)
         \/ G2!flush \/ G2!close
    BY <2>1, Grib2Names, Zenon DEF G2!Next
  <2>11. ASSUME NEW name \in DOMAIN drv.records,
                NEW t \in 0 .. G2!describe_variable(name).steps - 1,
                \/ G2!read(name, t, FullBox(G2!describe_variable(name).shape), FALSE)
                \/ \E b \in Boxes(G2!describe_variable(name).shape) : G2!read(name, t, b, TRUE)
         PROVE  Grib2Inv' /\ Grib2Got'
    BY <2>7, <2>11, Zenon
  <2>12. QED
    BY <2>4, <2>5, <2>6, <2>8, <2>9, <2>10, <2>11, Zenon
<1>4. QED
  BY <1>1, <1>2, <1>3

\* GRIB2, for any variables, layouts and number of writes and faults, and each of the
\* product templates: as long as no message was lost, the file has one record for each
\* write that returned, under the name a host derives from its settings, and the t-th
\* delivers the t-th write.
THEOREM Grib2RoundTripHolds == Spec => []Grib2RoundTrip
<1>1. Init => Grib2IInv
  <2>1. Init => got = NoRead
    BY DEF Init
  <2>2. QED
    BY <2>1, Grib2Init DEF Grib2IInv, Grib2Got
<1>2. Grib2IInv /\ [Next]_vars => Grib2IInv'
  BY Grib2Step
<1>3. Grib2IInv => Grib2RoundTrip
  <2>1. SUFFICES ASSUME backend = "grib2", Grib2Inv, Grib2Got, drv.read, ~file.lost, AllWhole(file)
                 PROVE  /\ DOMAIN drv.records = {G2!HostName(file.by)}
                        /\ Len(drv.records[G2!HostName(file.by)].recs) = Len(log)
                        /\ (got # NoRead /\ got.t < Len(log)) =>
                             LET w == log[got.t + 1]
                                 grid(l) == <<G2!Nj(l.ext), G2!Ni(l.ext)>>
                                 at(k) == Offset(BoxIndex(got.box, k),
                                            RowMajorStrides(G2!describe_variable(got.name).shape))
                             IN  (grid(w) = grid(log[1]) /\ Len(w.ext) <= 2 /\ Compact(w)) =>
                                   \A k \in DOMAIN got.data :
                                     got.data[k] = <<w.n, IndexAt(at(k), w.ext)>>
    BY Zenon DEF Grib2IInv, Grib2RoundTrip, AllWhole
  <2>2. /\ DOMAIN drv.records = {G2!HostName(file.by)}
        /\ Len(drv.records[G2!HostName(file.by)].recs) = Len(log)
        /\ G2!describe_variable(G2!HostName(file.by)).shape = Grib2Shape(log[1].ext)
    BY <2>1, Grib2Described, Zenon
  <2>3. ASSUME got # NoRead, got.t < Len(log)
        PROVE  got.name = G2!HostName(file.by) /\ Grib2Returned(got, log)
    BY <2>1, <2>3 DEF Grib2Got
  <2>4. \A a, b, c, d : <<a, b>> = <<c, d>> => a = c /\ b = d
    OBVIOUS
  <2>5. QED
    BY <2>2, <2>3, <2>4, Zenon DEF Grib2Returned
<1>4. QED
  BY <1>1, <1>2, <1>3, PTL DEF Spec

=============================================================================
