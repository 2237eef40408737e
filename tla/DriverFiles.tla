---------------------------- MODULE DriverFiles ----------------------------
(***************************************************************************)
(* One dataset behind any of the backends: written by the workers, closed, *)
(* opened again and read.  backend is the key BackendFactory::build was    *)
(* given; it never changes.                                                *)
(***************************************************************************)
EXTENDS BackendDriver

CONSTANTS
  Backends,    \* the backends to check
  ArrayShapes, ChunkShapes, ShardShapes    \* of the manifests of a Zarr store

ASSUME BackendsAssumption == Backends \subseteq {"netcdf", "nczarr", "zarr", "grib2"}

\* An array has a dimension and no empty one; chunks and shards are what
\* validate_sharding finds, integers at the width of the manifest.
ASSUME ZarrAssumption ==
  /\ \A s \in ArrayShapes : s \in Seq(Nat \ {0}) /\ s # <<>>
  /\ ChunkShapes \subseteq Seq(Int) /\ ShardShapes \subseteq Seq(Int)

VARIABLE backend

NC == INSTANCE NetcdfDriver
NZ == INSTANCE NczarrDriver
ZA == INSTANCE ZarrDriver
G2 == INSTANCE Grib2Driver

vars == <<backend, drv, file, cb, started, log, threw, faults, got>>

Init ==
  /\ backend \in Backends
  /\ CASE backend = "netcdf" -> NC!Init
       [] backend = "nczarr" -> NZ!Init
       [] backend = "zarr"   -> ZA!Init
       [] backend = "grib2"  -> G2!Init
  /\ cb = [v \in Vars |-> Idle]
  /\ started = 0 /\ log = <<>> /\ threw = {} /\ faults = 0
  /\ got = NoRead

\* A read changes nothing but got, so a behaviour ends with its first one.
Next ==
  /\ got = NoRead
  /\ \/ backend = "netcdf" /\ NC!Next
     \/ backend = "nczarr" /\ NZ!Next
     \/ backend = "zarr"   /\ ZA!Next
     \/ backend = "grib2"  /\ G2!Next
  /\ UNCHANGED backend

Spec == Init /\ [][Next]_vars

----------------------------------------------------------------------------
(* Properties.                                                             *)

\* The element a variable that never failed must have at index i.
Kept(v, i, e) == RowMajorOnly(v) /\ OneRank(v) => e = LastWritten(v, i)

\* netCDF: whatever the order in which the callbacks of the variables ran and
\* whichever dimensions they came to share, a variable none of whose writes
\* threw is in the file with its attributes and its filter; and, if its writes
\* all had one rank, what describe_variable reports covers everything written,
\* and a read of any timestep and box delivers the last write of each element.
\* Nothing the writes of other variables do, of whatever ranks, undoes that.
NetcdfReadBack ==
  backend = "netcdf" =>
    /\ \A v \in {log[k].var : k \in DOMAIN log} \ threw :
         /\ NC!HasVar(file, v)
         /\ file.vars[v].attrs /\ (file.vars[v].filter <=> drv.codec)
         /\ LET info == NC!describe_variable(v)
                whole == IF Len(file.vars[v].dims) > Len(info.shape)
                         THEN <<info.steps>> \o info.shape ELSE info.shape
            IN  info.found /\ OneRank(v) => \A k \in DOMAIN log :
                  log[k].var = v => Cells(log[k].ext) \subseteq Cells(whole)
    /\ (got # NoRead /\ got.var \notin threw) =>
         \A k \in DOMAIN got.data :
           LET i == BoxIndex(got.box, k)
               stored == IF Len(file.vars[got.var].dims) > Len(i) THEN <<got.t>> \o i ELSE i
           IN  Kept(got.var, stored, got.data[k])

\* NCZarr: although the callbacks of two variables alternate between the
\* calls of the library, a write that returns has left its variable with its
\* attributes and its chunking and filter; and if the writes of a variable all
\* had one rank, every element of each of them is stored, with the value of the
\* last write of it.
NczarrOkMeansStored ==
  backend = "nczarr" =>
    \A v \in {log[k].var : k \in DOMAIN log} \ threw :
      LET cells == file.vars[v].cells
      IN  /\ file.vars[v].attrs /\ file.vars[v].filter /\ file.vars[v].committed
          /\ OneRank(v) => \A k \in DOMAIN log :
               log[k].var = v => Cells(log[k].ext) \subseteq DOMAIN cells
          /\ \A i \in DOMAIN cells : Kept(v, i, cells[i])

\* The last write of each variable that returned.
LatestWrites == {k \in DOMAIN log : \A j \in DOMAIN log : log[j].var = log[k].var => j <= k}

\* Zarr: a read without a bounding box, or of a one-dimensional array,
\* delivers the array: every chunk is, whole, the last write of one of the
\* variables that share it, broadcast to the array's shape.  Of a layout that
\* is not row-major a chunk has the elements in another order, or what lies
\* in the gaps between them.
ZarrReadBack ==
  /\ backend = "zarr" /\ got # NoRead /\ threw = {}
  /\ Len(file.shape) = 1 \/ ~got.boxed
  => LET index(k) == LET i == BoxIndex(got.box, k)
                     IN  IF Len(file.shape) > Len(i) THEN <<got.t>> \o i ELSE i
         from(k, w) ==
           IF RowMajorLayout(log[w])
           THEN got.data[k] = <<log[w].n, ZA!SourceIndex(index(k), log[w].ext)>>
           ELSE got.data[k] = Junk \/ got.data[k][1] = log[w].n
         together(j, k) == ZA!Chunk(index(j)) = ZA!Chunk(index(k))
     IN  \A k \in DOMAIN got.data : \E w \in LatestWrites :
           \A j \in DOMAIN got.data : together(j, k) => from(j, w)

\* The elements of l lie within the buffer amio_write copied, each in a place of
\* its own.
Compact(l) ==
  /\ \A i \in Cells(l.ext) : Offset(i, ActualStrides(l)) < Size(l.ext)
  /\ \A i, j \in Cells(l.ext) :
       Offset(i, ActualStrides(l)) = Offset(j, ActualStrides(l)) => i = j

\* GRIB2: as long as no message was dropped, the file holds one record for
\* each write that returned, all under the name a host derives from the
\* settings it wrote with, whatever the product template; and timestep t
\* delivers the t-th write, whatever its strides, if it has the grid of the
\* first and a single plane.
Grib2RoundTrip ==
  (backend = "grib2" /\ drv.read /\ ~file.lost) =>
    /\ (\A k \in DOMAIN file.msgs : file.msgs[k].whole) =>
         /\ DOMAIN drv.records = {G2!HostName(file.by)}
         /\ Len(drv.records[G2!HostName(file.by)].recs) = Len(log)
    /\ (got # NoRead /\ got.t < Len(log) /\ \A k \in DOMAIN file.msgs : file.msgs[k].whole) =>
         LET w == log[got.t + 1]
             grid(l) == <<G2!Nj(l.ext), G2!Ni(l.ext)>>
             at(k) == Offset(BoxIndex(got.box, k), RowMajorStrides(G2!describe_variable(got.name).shape))
         IN  (grid(w) = grid(log[1]) /\ Len(w.ext) <= 2 /\ Compact(w)) =>
               \A k \in DOMAIN got.data : got.data[k] = <<w.n, IndexAt(at(k), w.ext)>>
=============================================================================
