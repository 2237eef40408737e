---------------------------- MODULE ConfigLoader ----------------------------
(***************************************************************************)
(* The manifest behind amio_init and amio_open_dataset                     *)
(* (src/src/config/config_loader.cpp): the integers of a manifest are      *)
(* signed, those of Config are size_t, and the ranges are tested after the *)
(* cast.  A manifest is what CONF (external) finds in the file or string:  *)
(*   source   "ok", or the way in which it cannot be read                  *)
(*   ints     the integer keys it has, with their values                   *)
(*   backend, active_codec, allow_list                                     *)
(* cpu_cores, numa_domain and io_ranks are copied and never tested.        *)
(***************************************************************************)
EXTENDS Integers

CONSTANTS
  kMaxBufferCapacity,   \* 2^30 bytes
  WordSize              \* the values of a size_t, 2^64

kMaxBufferCount == 4096
kMaxThreads == 256
kMaxPrefetchDepth == 1024
kMaxReadTimeoutS == 3600
kMaxStagingTimeoutMs == 60000

ASSUME ConfigAssumption ==
  /\ kMaxBufferCapacity \in Nat \ {0}
  /\ WordSize \in Nat
  /\ WordSize > 2 * kMaxBufferCapacity /\ WordSize > 2 * kMaxStagingTimeoutMs

\* What get_int can return.
ConfInt == -(WordSize \div 2) .. (WordSize \div 2) - 1

Defaults ==
  [buffer_count |-> 16, buffer_capacity_bytes |-> 1048576, max_buffer_count |-> 4096,
   threads |-> 1, depth |-> 4, read_timeout_s |-> 60, staging_timeout_ms |-> 5000,
   low_watermark |-> 0, high_watermark |-> 0, queue_capacity |-> 1024]

valid_codecs == {"blosc", "zstandard", "libaec", "lossless_jpeg2000"}

\* static_cast<std::size_t>
ToSize(n) == n % WordSize

populate_from_conf(m) ==
  [f \in DOMAIN Defaults |-> IF f \in DOMAIN m.ints THEN ToSize(m.ints[f]) ELSE Defaults[f]]

\* Wrong on purpose: only the lower end of the range is tested.
ThreadsAtLeastOne(c) == c.threads >= 1

ThreadsInRange(c) == c.threads \in 1 .. kMaxThreads

\* The rules on numbers; the watermarks count only when high_watermark is set.
InRange(c) ==
  /\ c.buffer_count \in 1 .. kMaxBufferCount
  /\ c.buffer_capacity_bytes \in 1 .. kMaxBufferCapacity
  /\ c.max_buffer_count \in c.buffer_count .. kMaxBufferCount
  /\ ThreadsInRange(c)
  /\ c.depth \in 1 .. kMaxPrefetchDepth
  /\ c.read_timeout_s \in 1 .. kMaxReadTimeoutS
  /\ c.staging_timeout_ms \in 1 .. kMaxStagingTimeoutMs
  /\ c.high_watermark > 0 => /\ c.low_watermark < c.high_watermark
                             /\ c.high_watermark <= c.queue_capacity

\* The rules on codecs; "" is no codec.
CodecsAllowed(m) ==
  /\ m.allow_list \subseteq valid_codecs
  /\ m.active_codec # "" => /\ m.active_codec \in valid_codecs
                            /\ m.allow_list # {} => m.active_codec \in m.allow_list

\* The first rule that fails decides.
validate(m, c) ==
  IF ~InRange(c) THEN "MANIFEST_INVALID"
  ELSE IF CodecsAllowed(m) THEN "OK" ELSE "LOSSY_CODEC_FORBIDDEN"

\* parse and parse_string differ only in where CONF reads from.
parse(m) ==
  CASE m.source = "missing"                   -> "MANIFEST_NOT_FOUND"
    [] m.source \in {"malformed", "mistyped"} -> "MANIFEST_INVALID"
    [] m.source = "ok"                        -> validate(m, populate_from_conf(m))

=============================================================================
