-------------------------- MODULE MCCoreLifecycle --------------------------
(* An instance of CoreLifecycle for TLC.                                   *)
EXTENDS CoreLifecycle, TLC

Manifest(source, ints, backend, codec, allowed) ==
  [source |-> source, ints |-> ints, backend |-> backend, active_codec |-> codec,
   allow_list |-> allowed]

\* One that is accepted, with explicit and default values; then each way to be
\* refused: not there, not readable, a negative integer, a zero, a ceiling below the
\* count, watermarks that do not fit, codecs.
MCManifests ==
  {Manifest("ok", [threads |-> 256, buffer_count |-> 2, max_buffer_count |-> 2], "",
            "blosc", {"blosc", "libaec"}),
   Manifest("missing", <<>>, "", "", {}),
   Manifest("malformed", <<>>, "", "", {}),
   Manifest("mistyped", <<>>, "", "", {}),
   Manifest("ok", [threads |-> -1], "", "", {}),
   Manifest("ok", [buffer_capacity_bytes |-> -1], "", "", {}),
   Manifest("ok", [buffer_count |-> 0], "", "", {}),
   Manifest("ok", [buffer_count |-> 8, max_buffer_count |-> 7], "", "", {}),
   Manifest("ok", [low_watermark |-> 5, high_watermark |-> 5], "", "", {}),
   Manifest("ok", <<>>, "", "zfp", {}),
   Manifest("ok", <<>>, "", "zstandard", {"blosc"})}

\* A known backend, one that is not registered, none, and a codec that is not allowed.
MCDatasetManifests ==
  {Manifest("ok", <<>>, key, "", {}) : key \in {"netcdf4", "NetCDF4", ""}}
    \cup {Manifest("ok", <<>>, "netcdf4", "zfp", {})}

\* No object is treated by name.
LifecycleSymmetry ==
  Permutations(Cores) \cup Permutations(Datasets) \cup Permutations(Views)

=============================================================================
