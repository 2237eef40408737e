--------------------------- MODULE Grib2Templates ---------------------------
(***************************************************************************)
(* The GRIB2 templates (src/src/drivers/grib2/grib2_driver.cpp): what the  *)
(* encoder puts at which index, what the decoder takes from which index,   *)
(* and the name both sides give a field.  A template is a function on      *)
(* 0 .. len - 1; entries nobody sets are 0.                                *)
(***************************************************************************)
EXTENDS Integers, Sequences

\* Grib2Settings: every identifier gets a value of its own, so that a field
\* taken from the wrong place shows.
read_settings(pdt, gdt) ==
  [pdt_number |-> pdt, gdt_number |-> gdt, discipline |-> 100,
   parameter_category |-> 101, parameter_number |-> 102,
   type_of_first_fixed_surface |-> 103, scale_factor_first_surface |-> 104,
   scaled_value_first_surface |-> 105, forecast_time |-> 106,
   indicator_of_unit_of_time |-> 107, chemical_constituent_type |-> 108,
   aerosol_type |-> 109, size_dist_param_first |-> 110, size_dist_param_second |-> 111,
   optical_property_type |-> 112, wavelength_first_nm |-> 113,
   wavelength_last_nm |-> 114, ensemble_perturbation_number |-> 115,
   statistical_process |-> 116, time_range_unit |-> 117, time_range_length |-> 118,
   number_of_time_range_specs |-> 119, total_missing_from_statistical_process |-> 120,
   n_parallel |-> 121, lat_first |-> 90, lat_last |-> -90, lon_first |-> 0, lon_last |-> 360]

\* A template entry, and a template whose entries take precedence over another's.
i :> x == [j \in {i} |-> x]
f @@ g == [i \in DOMAIN f \cup DOMAIN g |-> IF i \in DOMAIN f THEN f[i] ELSE g[i]]

Template(len, fields) == fields @@ [i \in 0 .. len - 1 |-> 0]

Parameter(s) == 0 :> s.parameter_category @@ 1 :> s.parameter_number

\* Type of generating process (2: a forecast) and, five entries on, the time.
Process(at, s) ==
  at :> 2 @@ (at + 5) :> s.indicator_of_unit_of_time @@ (at + 6) :> s.forecast_time

\* The first fixed surface; the second one is missing (255).
Surface(at, s) ==
  at :> s.type_of_first_fixed_surface @@ (at + 1) :> s.scale_factor_first_surface @@
  (at + 2) :> s.scaled_value_first_surface @@ (at + 3) :> 255

SizeDistribution(s) == 5 :> s.size_dist_param_first @@ 7 :> s.size_dist_param_second

Wavelength(s) ==
  8 :> s.optical_property_type @@ 10 :> s.wavelength_first_nm @@ 12 :> s.wavelength_last_nm

Statistics(at, s) ==
  at :> s.number_of_time_range_specs @@
  (at + 1) :> s.total_missing_from_statistical_process @@
  (at + 2) :> s.statistical_process @@
  (at + 4) :> s.time_range_unit @@ (at + 5) :> s.time_range_length

build_pdt_4_0(s) == Template(15, Parameter(s) @@ Process(2, s) @@ Surface(9, s))

build_pdt_4_8(s) ==
  Template(29, Parameter(s) @@ Process(2, s) @@ Surface(9, s) @@ Statistics(21, s)
                 @@ 24 :> 2 @@ 27 :> s.indicator_of_unit_of_time)

build_pdt_4_40(s) ==
  Template(16, Parameter(s) @@ 2 :> s.chemical_constituent_type
                 @@ Process(3, s) @@ Surface(10, s))

build_pdt_4_44(s) ==
  Template(21, Parameter(s) @@ 2 :> s.aerosol_type @@ SizeDistribution(s)
                 @@ Process(8, s) @@ Surface(15, s))

build_pdt_4_45(s) ==
  Template(24, Parameter(s) @@ 2 :> s.aerosol_type @@ SizeDistribution(s) @@ Process(8, s)
                 @@ 16 :> s.ensemble_perturbation_number @@ Surface(18, s))

build_pdt_4_46(s) ==
  Template(35, Parameter(s) @@ 2 :> s.aerosol_type @@ SizeDistribution(s)
                 @@ Process(8, s) @@ Surface(15, s) @@ Statistics(27, s))

build_pdt_4_48(s) ==
  Template(26, Parameter(s) @@ 2 :> s.aerosol_type @@ Wavelength(s)
                 @@ Process(13, s) @@ Surface(20, s))

build_pdt_4_49(s) ==
  Template(29, Parameter(s) @@ 2 :> s.aerosol_type @@ Wavelength(s) @@ Process(13, s)
                 @@ 21 :> s.ensemble_perturbation_number @@ Surface(23, s))

\* The dispatch of write.
SupportedPdts == {0, 8, 40, 44, 45, 46, 48, 49}
ProductTemplate(s) ==
  CASE s.pdt_number = 0  -> build_pdt_4_0(s)
    [] s.pdt_number = 8  -> build_pdt_4_8(s)
    [] s.pdt_number = 40 -> build_pdt_4_40(s)
    [] s.pdt_number = 44 -> build_pdt_4_44(s)
    [] s.pdt_number = 45 -> build_pdt_4_45(s)
    [] s.pdt_number = 46 -> build_pdt_4_46(s)
    [] s.pdt_number = 48 -> build_pdt_4_48(s)
    [] s.pdt_number = 49 -> build_pdt_4_49(s)

----------------------------------------------------------------------------
(* The grid.                                                               *)

Increment(first, last, n) ==
  LET span == IF last > first THEN last - first ELSE first - last
  IN  IF n > 1 THEN span \div (n - 1) ELSE 0

build_gdt_3_0(s, ni, nj) ==
  Template(19, 0 :> 6 @@ 7 :> ni @@ 8 :> nj @@ 11 :> s.lat_first @@ 12 :> s.lon_first
                 @@ 13 :> 48 @@ 14 :> s.lat_last @@ 15 :> s.lon_last
                 @@ 16 :> Increment(s.lon_first, s.lon_last, ni)
                 @@ 17 :> Increment(s.lat_first, s.lat_last, nj))

\* Gaussian: the number of parallels in the place of Dj.
build_gdt_3_40(s, ni, nj) == 17 :> s.n_parallel @@ build_gdt_3_0(s, ni, nj)

SupportedGdts == {0, 40}
GridTemplate(s, ni, nj) ==
  IF s.gdt_number = 0 THEN build_gdt_3_0(s, ni, nj) ELSE build_gdt_3_40(s, ni, nj)

\* Ni and Nj as the index takes them: a template whose product is not the
\* number of points counts as one row.
GridShape(gdt, npts) ==
  LET ni == gdt[7]
      nj == gdt[8]
  IN  IF ni <= 0 \/ nj <= 0 \/ ni * nj # npts THEN [ni |-> npts, nj |-> 1]
      ELSE [ni |-> ni, nj |-> nj]

----------------------------------------------------------------------------
(* Names.                                                                  *)

pdt_value(pdt, i) == IF i \in DOMAIN pdt THEN pdt[i] ELSE 0

\* Wrong on purpose: the ensemble template is taken for 4.44.
surface_index_without_ensemble(number) ==
  CASE number = 40             -> 10
    [] number \in {44, 45, 46} -> 15
    [] number = 48             -> 20
    [] number = 49             -> 23
    [] OTHER                   -> 9

pdt_surface_type_index(number) ==
  CASE number = 40         -> 10
    [] number \in {44, 46} -> 15
    [] number = 45         -> 18
    [] number = 48         -> 20
    [] number = 49         -> 23
    [] OTHER               -> 9

pdt_surface_value_index(number) == pdt_surface_type_index(number) + 2

extract_composition_metadata(number, pdt) ==
  LET take(numbers, i) == IF number \in numbers THEN pdt_value(pdt, i) ELSE 0
  IN  [chemical_constituent_type |-> take({40}, 2),
       aerosol_type |-> take({44, 45, 46, 48, 49}, 2),
       optical_property_type |-> take({48, 49}, 8),
       wavelength_first_nm |-> take({48, 49}, 10),
       wavelength_last_nm |-> take({48, 49}, 12),
       ensemble_perturbation_number |-> take({45}, 16) + take({49}, 21),
       statistical_process |-> take({46}, 29) + take({8}, 23)]

\* d.._c.._n.._s.._l.. and the composition suffixes of the template number.
field_identity_name(d, c, n, surface, level, number, m) ==
  LET ct == <<"ct", m.chemical_constituent_type>>
      at == <<"at", m.aerosol_type>>
      op == <<"op", m.optical_property_type>>
      wl == <<"wl", m.wavelength_first_nm, m.wavelength_last_nm>>
      ep == <<"ep", m.ensemble_perturbation_number>>
      sp == <<"sp", m.statistical_process>>
  IN  <<d, c, n, surface, level>> \o
      CASE number = 40 -> ct
        [] number = 44 -> at
        [] number = 45 -> at \o ep
        [] number = 46 -> at \o sp
        [] number = 48 -> at \o op \o wl
        [] number = 49 -> at \o op \o wl \o ep
        [] number = 8  -> sp
        [] OTHER       -> <<>>

\* The name the decoder gives a record.
RecordName(discipline, number, pdt) ==
  field_identity_name(discipline, pdt_value(pdt, 0), pdt_value(pdt, 1),
                      pdt_value(pdt, pdt_surface_type_index(number)),
                      pdt_value(pdt, pdt_surface_value_index(number)), number,
                      extract_composition_metadata(number, pdt))

\* The name a host asks for, from the settings of its manifest.
HostName(s) ==
  field_identity_name(s.discipline, s.parameter_category, s.parameter_number,
                      s.type_of_first_fixed_surface, s.scaled_value_first_surface,
                      s.pdt_number, s)
=============================================================================
