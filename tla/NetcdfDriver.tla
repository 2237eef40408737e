---------------------------- MODULE NetcdfDriver ----------------------------
(***************************************************************************)
(* The netCDF-4 driver (src/src/drivers/netcdf/netcdf_driver.cpp).  write, *)
(* read, flush, close and the opens hold one process-wide mutex, so each   *)
(* is one action; the workers may call write for different variables in    *)
(* any order.  A fault is a call of netCDF-C that fails, at any of the     *)
(* calls of a write.  describe_variable takes no mutex; here it does not   *)
(* overlap a read.                                                         *)
(***************************************************************************)
EXTENDS NetcdfLibrary

Coordinates == {"lon", "lat", "lev", "time"}

Closed == [open |-> FALSE, write |-> FALSE, codec |-> FALSE, leaked |-> FALSE]

\* A manifest: the path, the data model and the codec it asks for.
Manifests ==
  [path : BOOLEAN,
   data_model : {"", "classic", "netcdf4_classic", "NC4_CLASSIC",
                 "enhanced", "netcdf4_enhanced", "NC4", "other"},
   codec : {"", "lossless", "lossy"}, listed : BOOLEAN]

parse_data_model(m) ==
  IF m.data_model \in {"", "classic", "netcdf4_classic", "NC4_CLASSIC"} THEN "classic"
  ELSE IF m.data_model \in {"enhanced", "netcdf4_enhanced", "NC4"} THEN "enhanced"
  ELSE "unsupported"

\* An empty codec is fine; any other must be listed and not a lossy one.
validate_codec(m) == m.codec = "" \/ (m.listed /\ m.codec # "lossy")

\* A manifest that is refused leaves everything as it was.  When writing the
\* global attributes fails, nc_create has truncated the file, ncid_ is open
\* and is_open_ is false, so neither close nor the destructor releases it.
open_write(m) ==
  /\ ~drv.open
  /\ started = 0                            \* bound: one generation of the file
  /\ m.path /\ parse_data_model(m) # "unsupported" /\ validate_codec(m)
  /\ file' = nc_create(parse_data_model(m) = "classic")
  /\ \/ drv' = [drv EXCEPT !.open = TRUE, !.write = TRUE, !.codec = m.codec # ""]
        /\ UNCHANGED faults
     \/ MayFail /\ Fault /\ drv' = [drv EXCEPT !.leaked = TRUE]
  /\ NoTransfer

open_read(m) ==
  /\ ~drv.open /\ file.exists /\ log # <<>>
  /\ m.path /\ parse_data_model(m) # "unsupported"
  /\ drv' = [drv EXCEPT !.open = TRUE, !.write = FALSE]
  /\ UNCHANGED <<file, faults>>
  /\ NoTransfer

----------------------------------------------------------------------------
(* Dimensions of a new variable.  A name is <<v>> for the dimension of a   *)
(* coordinate variable and <<v, d>> for <name>_dim<d>.                     *)

DimName(v, ext, d) == IF v \in Coordinates /\ Len(ext) = 1 THEN <<v>> ELSE <<v, d>>

AxisRole(ext, d) ==
  CASE d = Len(ext)     -> "X"
    [] d = Len(ext) - 1 -> "Y"
    [] d = Len(ext) - 2 -> "Z"
    [] d = Len(ext) - 3 -> "T"
    [] OTHER            -> "none"

Exact == [lon |-> "X", lat |-> "Y", lev |-> "Z", time |-> "T"]

Score(name, role) ==
  CASE role = "none"                               -> 0
    [] Len(name) = 1 /\ Exact[name[1]] = role      -> 3
    [] role \in Marks[name[1]]                     -> 2
    [] Len(name) = 2                               -> 1
    [] OTHER                                       -> 0

\* The first of the best-scored candidates.
BestMatch(f, ids, role) ==
  LET score(i) == Score(f.dims[i].name, role)
  IN  CHOOSE i \in ids :
        \A j \in ids : score(j) < score(i) \/ (score(j) = score(i) /\ i <= j)

MatchingDims(f, len) == {i \in DOMAIN f.dims : f.dims[i].len = len}

\* The dimension d of v: shared by length, or its default one, or new.
PlaceDim(f, v, ext, d) ==
  LET matching == IF v \in Coordinates THEN {} ELSE MatchingDims(f, ext[d])
      name == DimName(v, ext, d)
      default == DimIds(f, name)
  IN  IF matching # {} THEN [f |-> f, id |-> BestMatch(f, matching, AxisRole(ext, d))]
      ELSE IF default # {} THEN [f |-> f, id |-> CHOOSE i \in default : TRUE]
      ELSE [f |-> nc_def_dim(f, name, ext[d], name = <<"time">>), id |-> Len(f.dims) + 1]

\* The file and the dimension ids once the first d dimensions are placed.
PlaceDims(f, v, ext) ==
  LET place[d \in 0 .. Len(ext)] ==
        IF d = 0 THEN [f |-> nc_redef(f), ids |-> <<>>]
        ELSE LET p == place[d - 1]
                 q == PlaceDim(p.f, v, ext, d)
             IN  [f |-> q.f, ids |-> Append(p.ids, q.id)]
  IN  place

\* What the file becomes at each stage of the definition of v: a call that
\* fails leaves the result of the stage before it.
Definition(f, v, ext) ==
  LET place == PlaceDims(f, v, ext)
      rank == Len(ext)
      var == nc_def_var(place[rank].f, v, place[rank].ids)
      att == nc_put_att(var, v)
      flt == IF drv.codec THEN nc_def_var_filter(att, v) ELSE att
  IN  [d \in 1 .. rank |-> place[d].f] \o <<var, att, flt, nc_enddef(flt)>>

\* The whole of write, for a callback of v.  The first call that can fail is
\* nc_inq_varid.  What a failed put has written is unspecified: nothing or
\* everything.
write(v, l) ==
  LET n == started + 1
      new == ~HasVar(file, v)
      stages == IF new THEN Definition(file, v, l.ext) ELSE <<file>>
      defined == stages[Len(stages)]
  IN  /\ drv.open /\ drv.write
      /\ started < MaxWrites /\ started' = n
      /\ \E g \in Regions(defined, v, l.ext) :
           LET accepted == InDataMode(defined) /\ Fits(defined, v, g)
               put == nc_put_vara(defined, v, g, Snapshot(l, n))
           IN  \/ /\ accepted
                  /\ file' = put
                  /\ Returned(v, n, l)
                  /\ UNCHANGED <<threw, faults>>
               \/ /\ ~accepted
                  /\ file' = defined
                  /\ threw' = threw \cup {v}
                  /\ UNCHANGED <<log, faults>>
               \/ /\ MayFail /\ Fault
                  /\ \/ file' = file
                     \/ new /\ file' \in {nc_redef(file)} \cup
                                  {stages[k] : k \in 1 .. Len(stages) - 1}
                     \/ accepted /\ file' \in {defined, put}
                  /\ threw' = threw \cup {v}
                  /\ UNCHANGED log
      /\ UNCHANGED <<drv, cb, got>>

----------------------------------------------------------------------------
(* Reading.                                                                *)

IsTimeAxis(dim) == dim.unlimited \/ dim.name = <<"time">>

describe_variable(v) ==
  LET ext == Extents(file, v)
      record == IsTimeAxis(VarDim(file, v, 1)) /\ Len(ext) > 1
  IN  IF ~drv.open \/ drv.write \/ ~HasVar(file, v) THEN NotFound
      ELSE IF record THEN Found(Tail(ext), Max({ext[1], 1}))
      ELSE Found(ext, 1)

\* Wrong on purpose: the timestep is not added.
ReadIndexFirst(v, info, t, i) ==
  IF Len(file.vars[v].dims) = Len(info.shape) + 1 THEN <<0>> \o i ELSE i

\* One more dimension in the file than in the shape: the timestep leads.
ReadIndex(v, info, t, i) ==
  IF Len(file.vars[v].dims) = Len(info.shape) + 1 THEN <<t>> \o i ELSE i

read(v, t, b) ==
  LET info == describe_variable(v)
  IN  /\ info.found
      /\ got' = [var |-> v, t |-> t, info |-> info, box |-> b,
                 data |-> [k \in 1 .. Size(b.ext) |->
                             NcElement(file, v, ReadIndex(v, info, t, BoxIndex(b, k)))]]
      /\ UNCHANGED <<drv, file, cb, started, log, threw, faults>>

----------------------------------------------------------------------------
\* nc_sync refuses a classic file in define mode; the exception changes nothing.
flush ==
  /\ drv.open /\ file' = IF drv.write /\ InDataMode(file) THEN nc_sync(file) ELSE file
  /\ UNCHANGED <<drv, faults>>
  /\ NoTransfer

\* When nc_close fails is_open_ stays true.
close ==
  /\ drv.open
  /\ \/ /\ file' = IF drv.write THEN nc_close(file) ELSE file
        /\ drv' = [drv EXCEPT !.open = FALSE, !.write = FALSE]
        /\ UNCHANGED faults
     \/ MayFail /\ Fault /\ UNCHANGED <<drv, file>>
  /\ NoTransfer

Init ==
  /\ drv = Closed /\ file = NoFile

Next ==
  \/ \E m \in Manifests : open_write(m) \/ open_read(m)
  \/ \E v \in Vars : \E l \in Layouts[v] : write(v, l)
  \/ \E v \in Vars : \E t \in 0 .. describe_variable(v).steps - 1 :
       \E b \in Boxes(describe_variable(v).shape) : read(v, t, b)
  \/ flush \/ close
=============================================================================
