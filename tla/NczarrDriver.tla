---------------------------- MODULE NczarrDriver ----------------------------
(***************************************************************************)
(* The Zarr driver of a build without TensorStore: netCDF-C's NCZarr       *)
(* (src/src/drivers/zarr/zarr_nczarr_fallback.cpp).  It takes no mutex,    *)
(* so the callbacks of two variables alternate call by call; a callback is *)
(* one action per call of the library whose effect another one can see.    *)
(* The calls themselves are atomic here, which netCDF-C does not promise.  *)
(***************************************************************************)
EXTENDS NetcdfLibrary

Closed == [open |-> FALSE, write |-> FALSE, diagnosed |-> FALSE]

Manifests == [missing : BOOLEAN, codec : {"blosc", "zstandard", "other"},
              uri : {"empty", "local", "cloud"}]

\* parse_zarr_config and validate_codec; the shard shape is not looked at.
Accepted(m) == ~m.missing /\ m.codec # "other"

\* is_cloud_uri, and to_nczarr_uri on an empty path.
LocalUri(m) == m.uri = "local"

\* The file is of the netCDF-4 model: the library leaves define mode by itself.
open_write(m) ==
  /\ ~drv.open /\ started = 0
  /\ Accepted(m)
  /\ m.uri # "cloud" /\ LocalUri(m)
  /\ file' = nc_create(FALSE)
  /\ \/ drv' = [open |-> TRUE, write |-> TRUE, diagnosed |-> TRUE] /\ UNCHANGED faults
     \/ MayFail /\ Fault /\ drv' = [drv EXCEPT !.diagnosed = TRUE]
  /\ NoTransfer

open_read(m) ==
  /\ ~drv.open /\ file.exists /\ log # <<>>
  /\ Accepted(m) /\ LocalUri(m)
  /\ drv' = [open |-> TRUE, write |-> FALSE, diagnosed |-> TRUE]
  /\ UNCHANGED <<file, faults>>
  /\ NoTransfer

\* zarr_driver.cpp describes nothing in this build, so no read gets further.
describe_variable(v) == NotFound

----------------------------------------------------------------------------
(* write.                                                                  *)

At(v, s) == cb[v] # Idle /\ cb[v].step = s

Goto(v, s) == cb' = [cb EXCEPT ![v].step = s] /\ UNCHANGED <<drv, started, log, threw, got>>

Throw(v) ==
  /\ cb' = [cb EXCEPT ![v] = Idle]
  /\ threw' = threw \cup {v}
  /\ UNCHANGED <<drv, started, log, got>>

\* The call of step s succeeds and the callback goes on, or fails.
Call(v, s, result, next) ==
  /\ At(v, s)
  /\ \/ file' = result /\ Goto(v, next) /\ UNCHANGED faults
     \/ MayFail /\ Fault /\ Throw(v) /\ UNCHANGED file

\* nc_inq_varid.
begin_write(v, l) ==
  /\ drv.open /\ drv.write /\ cb[v] = Idle
  /\ started < MaxWrites /\ started' = started + 1
  /\ cb' = [cb EXCEPT ![v] = [step |-> IF HasVar(file, v) THEN "put" ELSE "redef",
                              n |-> started', lay |-> l]]
  /\ UNCHANGED <<drv, file, log, threw, faults, got>>

redef(v) == Call(v, "redef", nc_redef(file), "def")

\* The file and the dimension ids once the first d dimensions are there.  They
\* are named after the variable: only its own callback uses them.
Dimensions(v) ==
  LET ext == cb[v].lay.ext
      place[d \in 0 .. Len(ext)] ==
        IF d = 0 THEN [f |-> nc_redef(file), ids |-> <<>>]
        ELSE LET p == place[d - 1]
                 have == DimIds(p.f, <<v, d>>)
             IN  IF have # {} THEN [f |-> p.f, ids |-> Append(p.ids, CHOOSE i \in have : TRUE)]
                 ELSE [f |-> nc_def_dim(p.f, <<v, d>>, ext[d], FALSE),
                       ids |-> Append(p.ids, Len(p.f.dims) + 1)]
  IN  place

\* A failing nc_def_dim leaves the dimensions before it, a failing nc_def_var
\* all of them.
define(v) ==
  LET place == Dimensions(v)
      rank == Len(cb[v].lay.ext)
  IN  /\ At(v, "def")
      /\ \/ /\ file' = nc_def_var(place[rank].f, v, place[rank].ids)
            /\ Goto(v, "attrs") /\ UNCHANGED faults
         \/ /\ MayFail /\ Fault /\ Throw(v)
            /\ file' \in {place[d].f : d \in 0 .. rank}

attributes(v) == Call(v, "attrs", nc_put_att(file, v), "filter")

\* Wrong on purpose: the status of a late definition is ignored.
filterUnchecked(v) ==
  /\ At(v, "filter")
  /\ \/ ~file.vars[v].committed /\ Call(v, "filter", nc_def_var_filter(file, v), "enddef")
     \/ file.vars[v].committed /\ Call(v, "filter", file, "enddef")

\* Chunking and the filter (or deflate in its place): too late once another
\* callback's nc_enddef has committed the variable.
filter(v) ==
  /\ At(v, "filter")
  /\ \/ ~file.vars[v].committed /\ Call(v, "filter", nc_def_var_filter(file, v), "enddef")
     \/ file.vars[v].committed /\ Throw(v) /\ UNCHANGED <<file, faults>>

\* nc_enddef outside define mode is an error (NC_ENOTINDEFINE).
enddef(v) ==
  /\ At(v, "enddef")
  /\ \/ file.define /\ Call(v, "enddef", nc_enddef(file), "put")
     \/ ~file.define /\ Throw(v) /\ UNCHANGED <<file, faults>>

\* What a failed put has written is unspecified: nothing or everything.
put(v) ==
  LET l == cb[v].lay
  IN  /\ At(v, "put")
      /\ \E g \in Regions(file, v, l.ext) :
           LET stored == nc_put_vara(file, v, g, Snapshot(l, cb[v].n))
           IN  \/ /\ Fits(file, v, g)
                  /\ file' = stored
                  /\ Returned(v, cb[v].n, l)
                  /\ cb' = [cb EXCEPT ![v] = Idle]
                  /\ UNCHANGED <<drv, started, threw, faults, got>>
               \/ ~Fits(file, v, g) /\ Throw(v) /\ UNCHANGED <<file, faults>>
               \/ Fits(file, v, g) /\ MayFail /\ Fault /\ Throw(v) /\ file' \in {file, stored}

----------------------------------------------------------------------------
(* The host closes once the callbacks are done.                            *)

Drained == \A v \in Vars : cb[v] = Idle

flush ==
  /\ drv.open /\ Drained
  /\ file' = IF drv.write THEN nc_sync(file) ELSE file
  /\ UNCHANGED <<drv, faults>>
  /\ NoTransfer

close ==
  /\ drv.open /\ Drained
  /\ \/ /\ file' = IF drv.write THEN nc_close(file) ELSE file
        /\ drv' = [drv EXCEPT !.open = FALSE, !.write = FALSE]
        /\ UNCHANGED faults
     \/ MayFail /\ Fault /\ UNCHANGED <<drv, file>>
  /\ NoTransfer

Init == drv = Closed /\ file = NoFile

Next ==
  \/ \E m \in Manifests : open_write(m) \/ open_read(m)
  \/ \E v \in Vars : \/ \E l \in Layouts[v] : begin_write(v, l)
                     \/ redef(v) \/ define(v) \/ attributes(v) \/ filter(v)
                     \/ enddef(v) \/ put(v)
  \/ flush \/ close
=============================================================================
