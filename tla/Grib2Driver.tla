---------------------------- MODULE Grib2Driver ----------------------------
(***************************************************************************)
(* The GRIB2 driver over nceplibs-g2c (src/src/drivers/grib2).  The file   *)
(* is a sequence of messages, appended with one fwrite each, which stdio   *)
(* makes atomic; encoding shares nothing, so a write is one action.  The   *)
(* name of the variable is not stored: a record is known by its templates. *)
(*                                                                         *)
(* The values are exact here: g2c rounds them to the manifest's decimal    *)
(* scale (build_drs_template), which is not modelled.                      *)
(***************************************************************************)
EXTENDS BackendDriver, Grib2Templates

Closed == [init |-> FALSE, read |-> FALSE, out |-> FALSE,
           settings |-> read_settings(0, 0), records |-> <<>>]

\* synced: messages that have left stdio's buffer.  lost (history): a write
\* returned and its message is not in the file.
NoFile == [exists |-> FALSE, msgs |-> <<>>, synced |-> 0, lost |-> FALSE, by |-> Closed.settings]

Templates == (SupportedPdts \cup {1}) \X {0} \cup {<<0, 40>>, <<0, 1>>}
Manifests == [drt : {"missing", "empty", "libaec", "jpeg2000", "other"},
              path : BOOLEAN, templates : Templates]

\* The field must be there, and one of the names of the two lossless packings.
validate_drt(m) == m.drt \in {"libaec", "jpeg2000"}

\* initialize: without a path nothing is opened, and nothing is said.
open_write(m) ==
  LET s == read_settings(m.templates[1], m.templates[2])
  IN  /\ validate_drt(m)
      /\ ~drv.init /\ started = 0             \* bound: one generation of the file
      /\ drv' = [drv EXCEPT !.init = TRUE, !.out = m.path, !.settings = s]
      /\ file' = [file EXCEPT !.exists = m.path, !.by = s]
      /\ UNCHANGED faults
      /\ NoTransfer

----------------------------------------------------------------------------
(* Encoding.                                                               *)

total_elements(l) == Size(l.ext)

is_contiguous_row_major(l) ==
  \A d \in Dims(l.ext) : l.str[d] = 0 \/ l.str[d] = RowMajorStrides(l.ext)[d]

\* Elements the strides put beyond the buffer are read all the same.
pack_row_major(data, l) ==
  [k \in 1 .. total_elements(l) |->
     LET at == Offset(IndexAt(k - 1, l.ext), ActualStrides(l)) + 1
     IN  IF at \in DOMAIN data THEN data[at] ELSE Junk]

Encode(data, l) == IF is_contiguous_row_major(l) THEN data ELSE pack_row_major(data, l)

Nj(ext) == IF Len(ext) >= 2 THEN ext[Len(ext) - 1] ELSE 1
Ni(ext) == IF Len(ext) >= 2 THEN ext[Len(ext)] ELSE Size(ext)

\* Section 3 counts one plane of the grid; section 7 holds every element.
Message(l, n) ==
  [whole |-> TRUE, discipline |-> drv.settings.discipline,
   gdt |-> GridTemplate(drv.settings, Ni(l.ext), Nj(l.ext)),
   npts |-> Ni(l.ext) * Nj(l.ext),
   number |-> drv.settings.pdt_number, pdt |-> ProductTemplate(drv.settings),
   fld |-> Encode(Snapshot(l, n), l)]

Partial == [whole |-> FALSE]

Encodable ==
  drv.settings.gdt_number \in SupportedGdts /\ drv.settings.pdt_number \in SupportedPdts

\* The driver asks only whether it is initialized: with no output file, or
\* when it was opened for reading, the record is encoded and dropped.
write(v, l) ==
  LET n == started + 1
  IN  /\ drv.init
      /\ started < MaxWrites /\ started' = n
      /\ \/ /\ Encodable
            /\ file' = IF drv.out THEN [file EXCEPT !.msgs = Append(@, Message(l, n))]
                       ELSE [file EXCEPT !.lost = TRUE]
            /\ Returned(v, n, l)
            /\ UNCHANGED <<threw, faults>>
         \/ /\ ~Encodable
            /\ threw' = threw \cup {v}
            /\ UNCHANGED <<file, log, faults>>
         \/ /\ Encodable /\ MayFail /\ Fault   \* not F32, g2c fails, or a short fwrite
            /\ \/ UNCHANGED file
               \/ drv.out /\ file' = [file EXCEPT !.msgs = Append(@, Partial)]
            /\ threw' = threw \cup {v}
            /\ UNCHANGED log
      /\ UNCHANGED <<drv, cb, got>>

----------------------------------------------------------------------------
(* Decoding.                                                               *)

\* The messages seekgb finds.  A broken one is passed over, or its length
\* points beyond the end of the file and the scan stops there.
Visible(stops) ==
  {k \in DOMAIN file.msgs :
     /\ file.msgs[k].whole
     /\ stops => \A j \in 1 .. k - 1 : file.msgs[j].whole}

NameOf(k) == RecordName(file.msgs[k].discipline, file.msgs[k].number, file.msgs[k].pdt)

\* The records of each name in file order; the grid is that of the first.
build_record_index(stops) ==
  [name \in {NameOf(k) : k \in Visible(stops)} |->
     LET at == {k \in Visible(stops) : NameOf(k) = name}
         nth(j) == CHOOSE k \in at : Cardinality({i \in at : i <= k}) = j
         first == file.msgs[nth(1)]
     IN  [grid |-> GridShape(first.gdt, first.npts), recs |-> [j \in 1 .. Cardinality(at) |-> nth(j)]]]

open_read(m, stops) ==
  /\ ~drv.init /\ m.path /\ file.exists /\ log # <<>>
  /\ read_settings(m.templates[1], m.templates[2]) = file.by   \* bound: the writer's manifest
  /\ drv' = [drv EXCEPT !.init = TRUE, !.read = TRUE,
                        !.settings = read_settings(m.templates[1], m.templates[2]),
                        !.records = build_record_index(stops)]
  /\ UNCHANGED <<file, faults>>
  /\ NoTransfer

describe_variable(name) ==
  IF ~drv.init \/ ~drv.read \/ name \notin DOMAIN drv.records THEN NotFound
  ELSE LET e == drv.records[name]
       IN  Found(IF e.grid.nj > 1 THEN <<e.grid.nj, e.grid.ni>> ELSE <<e.grid.ni>>, Len(e.recs))

\* The whole record, or a box cut out of it: the box is checked against, and
\* positions are computed with, the grid of the first record of the name,
\* except that a single row has the length of the record at hand.
read(name, t, b, boxed) ==
  LET e == drv.records[name]
      msg == file.msgs[e.recs[t + 1]]
      grid == IF e.grid.nj > 1 THEN <<e.grid.nj, e.grid.ni>> ELSE <<msg.npts>>
      at(k) == Offset(BoxIndex(b, k), RowMajorStrides(grid)) + 1
      full(k) == IF k <= msg.npts THEN msg.fld[k] ELSE Junk
  IN  /\ boxed => \A d \in Dims(grid) : b.off[d] + (b.ext[d] - 1) * b.str[d] < grid[d]
      /\ got' = [var |-> "record", name |-> name, t |-> t, box |-> b,
                 data |-> IF boxed THEN [k \in 1 .. Size(b.ext) |-> full(at(k))]
                          ELSE [k \in 1 .. msg.npts |-> full(k)]]
      /\ UNCHANGED <<drv, file, cb, started, log, threw, faults>>

----------------------------------------------------------------------------
\* Neither fflush nor fclose is asked for its result: when it fails the
\* messages still in stdio's buffer, or some of them, are gone.
Drain ==
  \/ file' = [file EXCEPT !.synced = Len(file.msgs)] /\ UNCHANGED faults
  \/ /\ MayFail /\ Fault
     /\ \E k \in file.synced .. Len(file.msgs) - 1 :
          file' = [file EXCEPT !.msgs = SubSeq(@, 1, k), !.synced = k,
                               !.lost = @ \/ \E j \in k + 1 .. Len(file.msgs) : file.msgs[j].whole]

flush ==
  /\ drv.init
  /\ IF drv.out THEN Drain ELSE UNCHANGED <<file, faults>>
  /\ UNCHANGED drv
  /\ NoTransfer

close ==
  /\ drv.init
  /\ IF drv.out THEN Drain ELSE UNCHANGED <<file, faults>>
  /\ drv' = [drv EXCEPT !.init = FALSE, !.read = FALSE, !.out = FALSE, !.records = <<>>]
  /\ NoTransfer

Init == drv = Closed /\ file = NoFile

Next ==
  \/ \E m \in Manifests : open_write(m) \/ \E stops \in BOOLEAN : open_read(m, stops)
  \/ \E v \in Vars : \E l \in Layouts[v] : write(v, l)
  \/ \E name \in DOMAIN drv.records : \E t \in 0 .. describe_variable(name).steps - 1 :
       \/ read(name, t, FullBox(describe_variable(name).shape), FALSE)
       \/ \E b \in Boxes(describe_variable(name).shape) : read(name, t, b, TRUE)
  \/ flush \/ close
=============================================================================
