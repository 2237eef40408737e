\* Two cores, two datasets and a view, a host of two threads.
SPECIFICATION Spec
CONSTANTS
  Cores = {c1, c2}
  Datasets = {d1, d2}
  Views = {v1, v2}
  Threads = {t1, t2}
  Main = t1
  Openers = {t2}
  MaxObjects = 4
  Manifests <- MCManifests
  DatasetManifests <- MCDatasetManifests
  Registry = {"netcdf4", "zarr3", "grib2"}
  Null = Null
  kMaxBufferCapacity = 2097152
  WordSize = 8388608
SYMMETRY LifecycleSymmetry
INVARIANTS
  TypeOK
  NoDanglingUse
  HandlesExact
  ViewsCounted
  NoWrappedConfig
CHECK_DEADLOCK FALSE
