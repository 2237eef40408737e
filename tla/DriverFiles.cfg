\* One dataset of three variables behind each backend, three writes, one failing call.
SPECIFICATION Spec
CONSTANTS
  Vars <- MCVars
  Layouts <- MCLayouts
  Marks <- MCMarks
  MaxWrites = 3
  MaxFaults = 1
  MaxStray = 1
  ArrayShapes <- MCArrayShapes
  ChunkShapes <- MCChunkShapes
  ShardShapes <- MCShardShapes
  Backends = {"netcdf", "nczarr", "zarr", "grib2"}
INVARIANTS
  NetcdfReadBack
  NczarrOkMeansStored
  ZarrReadBack
  Grib2RoundTrip
CHECK_DEADLOCK FALSE
