--------------------------- MODULE NetcdfLibrary ---------------------------
(***************************************************************************)
(* netCDF-C as the netCDF driver and the NCZarr fallback use it (external: *)
(* modelled from the calls in src/src/drivers and the status codes they    *)
(* handle).  A file is a value; an operator is one call that succeeds.     *)
(*                                                                         *)
(* Variables are committed by nc_enddef.  A file of the classic model      *)
(* refuses data and nc_sync in define mode (NC_EINDEFINE); otherwise the   *)
(* library leaves define mode by itself.  A committed variable takes no    *)
(* filter any more (NC_ELATEDEF).  The unlimited dimension grows with the  *)
(* data put along it; beyond any other the put is refused (NC_EEDGE).      *)
(***************************************************************************)
EXTENDS BackendDriver

NoFile == [exists |-> FALSE]

nc_create(classic) ==
  [exists |-> TRUE, classic |-> classic, define |-> TRUE, dims |-> <<>>,
   vars |-> [v \in {} |-> Fill]]

nc_redef(f) == [f EXCEPT !.define = TRUE]

DimIds(f, name) == {i \in DOMAIN f.dims : f.dims[i].name = name}

nc_def_dim(f, name, len, unlimited) ==
  [f EXCEPT !.dims = Append(@, [name |-> name, len |-> IF unlimited THEN 0 ELSE len,
                                unlimited |-> unlimited])]

HasVar(f, v) == v \in DOMAIN f.vars

nc_def_var(f, v, dimids) ==
  [f EXCEPT !.vars = [w \in DOMAIN @ \cup {v} |->
                        IF w = v THEN [dims |-> dimids, attrs |-> FALSE, filter |-> FALSE,
                                       committed |-> FALSE, cells |-> [i \in {} |-> Fill]]
                        ELSE @[w]]]

nc_put_att(f, v) == [f EXCEPT !.define = TRUE, !.vars[v].attrs = TRUE]

nc_def_var_filter(f, v) == [f EXCEPT !.define = TRUE, !.vars[v].filter = TRUE]

nc_enddef(f) ==
  [f EXCEPT !.define = FALSE,
            !.vars = [v \in DOMAIN f.vars |-> [f.vars[v] EXCEPT !.committed = TRUE]]]

\* Calls that must leave define mode first.
InDataMode(f) == ~(f.define /\ f.classic)
DataMode(f) == IF f.define THEN nc_enddef(f) ELSE f

nc_sync(f) == DataMode(f)
nc_close(f) == DataMode(f)

VarDim(f, v, d) == f.dims[f.vars[v].dims[d]]
Extents(f, v) == [d \in DOMAIN f.vars[v].dims |-> VarDim(f, v, d).len]

\* nc_put_vara takes no rank: it reads as many entries of start and count as
\* the variable has dimensions, where the drivers have filled in one for each
\* dimension of the field (start all 0).  Of a field of a higher rank it takes
\* the first extents; behind the vectors of one of a lower rank it reads what
\* happens to lie there.
Regions(f, v, ext) ==
  LET rank == Len(f.vars[v].dims)
      behind == [Len(ext) + 1 .. rank -> 0 .. MaxStray]
  IN  {[start |-> [d \in 1 .. rank |-> IF d <= Len(ext) THEN 0 ELSE z[1][d]],
        count |-> [d \in 1 .. rank |-> IF d <= Len(ext) THEN ext[d] ELSE z[2][d]]] :
         z \in behind \X behind}

Fits(f, v, g) ==
  \A d \in DOMAIN g.start :
    VarDim(f, v, d).unlimited \/ g.start[d] + g.count[d] <= VarDim(f, v, d).len

\* The indices of a region; none if some count is 0.
Area(g) == {[d \in DOMAIN g.start |-> g.start[d] + i[d]] : i \in Cells(g.count)}

\* Put a row-major buffer into a region of the variable.
nc_put_vara(f, v, g, data) ==
  LET h == DataMode(f)
      at(i) == Offset([d \in DOMAIN i |-> i[d] - g.start[d]], RowMajorStrides(g.count)) + 1
      element(i) == IF at(i) \in DOMAIN data THEN data[at(i)] ELSE Junk
      grown(k) == Max({f.dims[k].len} \cup
                      {g.start[d] + g.count[d] :
                         d \in {d \in DOMAIN g.start : Area(g) # {} /\ h.vars[v].dims[d] = k}})
  IN  [h EXCEPT !.vars[v].cells = [i \in Area(g) \cup DOMAIN @ |->
                                     IF i \in Area(g) THEN element(i) ELSE @[i]],
                !.dims = [k \in DOMAIN @ |-> IF @[k].unlimited
                                             THEN [@[k] EXCEPT !.len = grown(k)] ELSE @[k]]]

\* One element of nc_get_vara or nc_get_vars.
NcElement(f, v, i) ==
  IF i \in DOMAIN f.vars[v].cells THEN f.vars[v].cells[i] ELSE Fill

=============================================================================
