----------------------------- MODULE ZarrDriver -----------------------------
(***************************************************************************)
(* The Zarr driver over TensorStore (src/src/drivers/zarr/zarr_driver.cpp).*)
(* A dataset is ONE array, of the manifest's array_shape, whatever the     *)
(* name of the variable.  The driver takes no mutex: the writes of two     *)
(* variables overlap, and TensorStore commits each chunk by chunk.         *)
(***************************************************************************)
EXTENDS BackendDriver

CONSTANTS ArrayShapes, ChunkShapes, ShardShapes    \* the shapes of the manifests

Closed == [open |-> FALSE, write |-> FALSE]
NoFile == [exists |-> FALSE]

\* missing: a required field is absent.
Manifests ==
  [missing : BOOLEAN, codec : {"blosc", "zstandard", "other"},
   array_shape : ArrayShapes, chunk_shape : ChunkShapes, shard_shape : ShardShapes]

parse_zarr_config(m) == ~m.missing

validate_sharding(m) ==
  /\ Len(m.chunk_shape) = Len(m.shard_shape)
  /\ \A d \in Dims(m.chunk_shape) :
       /\ m.chunk_shape[d] > 0 /\ m.shard_shape[d] > 0
       /\ m.shard_shape[d] % m.chunk_shape[d] = 0

validate_codec(m) == m.codec \in {"blosc", "zstandard"}

Accepted(m) == parse_zarr_config(m) /\ validate_sharding(m) /\ validate_codec(m)

\* TensorStore itself refuses a chunk grid of another rank than the array.
open_write(m) ==
  /\ ~drv.open /\ started = 0                \* bound: one generation of the array
  /\ Accepted(m) /\ Len(m.array_shape) = Len(m.shard_shape)
  /\ \/ /\ file' = [exists |-> TRUE, shape |-> m.array_shape, chunk |-> m.chunk_shape,
                    cells |-> [i \in Cells(m.array_shape) |-> Fill]]
        /\ drv' = [open |-> TRUE, write |-> TRUE]
        /\ UNCHANGED faults
     \/ MayFail /\ Fault /\ UNCHANGED <<drv, file>>
  /\ NoTransfer

\* The manifest's shapes are checked as for writing, then those of the store count.
open_read(m) ==
  /\ ~drv.open /\ file.exists /\ log # <<>>
  /\ Accepted(m)
  /\ drv' = [open |-> TRUE, write |-> FALSE]
  /\ UNCHANGED <<file, faults>>
  /\ NoTransfer

----------------------------------------------------------------------------
(* TensorStore aligns source and target from their last dimension.         *)

\* A source dimension has the target's extent or is 1; one without a
\* counterpart is 1.
Broadcasts(source, target) ==
  \A d \in Dims(source) :
    \/ source[d] = 1
    \/ LET e == d + Len(target) - Len(source) IN e >= 1 /\ source[d] = target[e]

\* The source index that supplies index i of the target.
SourceIndex(i, source) ==
  [d \in Dims(source) |->
     LET e == d + Len(i) - Len(source) IN IF source[d] = 1 THEN 0 ELSE i[e]]

Chunk(i) == [d \in Dims(i) |-> i[d] \div file.chunk[d]]

----------------------------------------------------------------------------
(* write: tensorstore::Write, then the wait for its future.                *)

begin_write(v, l) ==
  /\ drv.open /\ drv.write /\ cb[v] = Idle
  /\ started < MaxWrites /\ started' = started + 1
  /\ IF Broadcasts(l.ext, file.shape)
     THEN /\ cb' = [cb EXCEPT ![v] = [step |-> "commit", n |-> started', lay |-> l,
                                      left |-> {Chunk(i) : i \in Cells(file.shape)}]]
          /\ UNCHANGED threw
     ELSE threw' = threw \cup {v} /\ UNCHANGED cb
  /\ UNCHANGED <<drv, file, log, faults, got>>

\* One chunk reaches the store.
commit(v, c) ==
  LET l == cb[v].lay
      data == Snapshot(l, cb[v].n)
      element(i) == data[Offset(SourceIndex(i, l.ext), RowMajorStrides(l.ext)) + 1]
  IN  /\ file' = [file EXCEPT !.cells = [i \in DOMAIN @ |-> IF Chunk(i) = c THEN element(i)
                                                            ELSE @[i]]]
      /\ cb' = [cb EXCEPT ![v].left = @ \ {c}]
      /\ UNCHANGED <<drv, started, log, threw, faults, got>>

\* Wrong on purpose: the future is not waited for.
finishEarly(v) ==
  /\ cb[v] # Idle
  /\ Returned(v, cb[v].n, cb[v].lay)
  /\ cb' = [cb EXCEPT ![v] = Idle]
  /\ UNCHANGED <<drv, file, started, threw, faults, got>>

\* The future: done, or failed with part of the chunks committed.
finish(v) ==
  /\ cb[v] # Idle
  /\ \/ cb[v].left = {} /\ Returned(v, cb[v].n, cb[v].lay) /\ UNCHANGED <<threw, faults>>
     \/ MayFail /\ Fault /\ threw' = threw \cup {v} /\ UNCHANGED log
  /\ cb' = [cb EXCEPT ![v] = Idle]
  /\ UNCHANGED <<drv, file, started, got>>

----------------------------------------------------------------------------
(* Reading.                                                                *)

\* Of two or more dimensions the first is time.
describe_variable(v) ==
  IF ~drv.open \/ drv.write THEN NotFound
  ELSE IF Len(file.shape) >= 2 THEN Found(Tail(file.shape), file.shape[1])
  ELSE Found(file.shape, 1)

\* A box cuts the FIRST dimensions of the store, time included; the timestep
\* is not used.
Cut(b) ==
  [d \in Dims(file.shape) |->
     IF d \in Dims(b.ext) THEN [off |-> b.off[d], ext |-> b.ext[d], str |-> b.str[d]]
     ELSE [off |-> 0, ext |-> file.shape[d], str |-> 1]]

Inside(cut) ==
  \A d \in DOMAIN cut : cut[d].off + (cut[d].ext - 1) * cut[d].str < file.shape[d]

\* boxed: the host gave a bounding box; otherwise b is the whole shape.  A
\* cut outside the store, or a selection that does not align, throws.
read(v, t, b, boxed) ==
  LET info == describe_variable(v)
      all == FullBox(file.shape)
      cut == IF boxed THEN Cut(b) ELSE Cut(all)
      source == [d \in DOMAIN cut |-> cut[d].ext]
      stored(i) == [d \in DOMAIN cut |-> cut[d].off + SourceIndex(i, source)[d] * cut[d].str]
  IN  /\ info.found
      /\ Inside(cut) /\ Broadcasts(source, b.ext)
      /\ got' = [var |-> v, t |-> t, info |-> info, box |-> b, boxed |-> boxed,
                 data |-> [k \in 1 .. Size(b.ext) |-> file.cells[stored(IndexAt(k - 1, b.ext))]]]
      /\ UNCHANGED <<drv, file, cb, started, log, threw, faults>>

----------------------------------------------------------------------------
\* Every write waited for its future: there is nothing to flush.
flush == drv.open /\ UNCHANGED <<drv, file, faults>> /\ NoTransfer

close ==
  /\ drv.open /\ \A v \in Vars : cb[v] = Idle
  /\ drv' = Closed
  /\ UNCHANGED <<file, faults>>
  /\ NoTransfer

Init == drv = Closed /\ file = NoFile

Next ==
  \/ \E m \in Manifests : open_write(m) \/ open_read(m)
  \/ \E v \in Vars : \/ \E l \in Layouts[v] : begin_write(v, l)
                     \/ cb[v] # Idle /\ \E c \in cb[v].left : commit(v, c)
                     \/ finish(v)
  \/ \E v \in Vars : \E t \in 0 .. describe_variable(v).steps - 1 :
       \/ read(v, t, FullBox(describe_variable(v).shape), FALSE)
       \/ \E b \in Boxes(describe_variable(v).shape) : read(v, t, b, TRUE)
  \/ flush \/ close
=============================================================================
