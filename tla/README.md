# A TLA+ model of AMIO

AMIO is an asynchronous I/O library for earth-system models. A host program writes
fields and reads records through a C interface; staging buffers, a pool of worker
threads and a look-ahead queue keep the file formats (NetCDF, Zarr, GRIB2) off the
host's critical path. This directory models the concurrent core, where host threads
and worker threads meet, and what the drivers under it do to a file. Paths below are relative to the repository,
which is `src/` here (so its own `src/` directory is `src/src/`).

## 1. The system

| part | state | operations | what can go wrong | what makes it correct |
|---|---|---|---|---|
| **StagingPool** `src/src/staging/` | slots (capacity, reference count, storage), free list in ascending order of capacity | `acquire` (best fit, growth, wait with a deadline), `release`, `add_ref` | lost wake-ups, storage replaced under a reader, `bad_alloc` in the middle, a null answer beside a free slot | slots conserved; promised bytes kept; null only when saturated; every `acquire` returns |
| **WorkerPool** `src/src/workers/worker_pool.*` | FIFO of write tasks, heap of prefetch tasks, `next_seq`/`exec_seq` and a mutex per (dataset, variable) pair, counters, `shutdown_` | `submit_write` (three overloads), `submit_prefetch`, `worker_loop`, `try_execute_one`, `drain`, `shutdown` | tasks that overtake each other, lost or run twice; a throwing callback that blocks its pair; workers that leave too early | writes of a pair run once each, in order, one at a time; drained means executed; shutdown joins |
| **HandleTable** `src/src/c_boundary/handle_table.*` | slots (generation, live, kind, payload), LIFO free list | `insert`, `lookup`, `release` | use after release, double release, generation wrap | a live handle resolves to its object, a stale one to nothing |
| **PrefetchQueue** `src/src/prefetch/` | `pending_`, `completed_`, `failed_`, `fetched_bbox_`, latched selection, `cancelled_` | `get_buffer`, `schedule_initial`, `schedule_next`, `sync_fetch`, `mark_complete`, `mark_failed`, `cancel_pending`, destructor | `mu_` is given up four times inside one read; stale selections; late fetches; timeouts | a timestep is tracked once; buffers conserved; the selection handed out is the one asked for; readers return |
| **Write path** `src/src/c_boundary/amio_core.cpp` | `pending_writes`, `has_failure`, `first_failure_code`, `IoRecord` flags, driver | `amio_write`, its callback, `amio_wait`, `amio_flush`, `amio_close`, `amio_finalize` | counters raised after the task was queued; refused tasks; failing drivers | `AMIO_OK` of flush or close means stored; buffers given back; flush returns |
| **Read path, views** `amio_core.cpp` | `outstanding_views`, view records | `amio_read`, `amio_release_view`, accessors | close between take and count; overflow in `validate_bbox` | no view of a closed pool; accepted boxes lie inside the record |
| **Life cycle of the core** `amio_core.cpp` | cores, each with its dataset map; records and views; one handle table for the process | `amio_init`, `amio_open_dataset`, `amio_close`, `amio_finalize` | a dataset closed under another thread's call; stale tokens released by `amio_finalize`; several cores | no freed object is used; handles exact; views counted |
| **C boundary** `amio_api.cpp`, `amio_strerror.cpp` | none | argument checks, `kind_dispatch` | release between lookup and use | a call works on a live object of the right kind |
| **ConfigLoader** `src/src/config/` | none | `parse`, `populate_from_conf`, `validate` | negative numbers cast to `size_t` before the range is tested | an accepted manifest means what it says |
| **BackendFactory** `src/src/factory/` | registry of builders, fixed at start-up | `build` | unknown or empty key | refused without a record |
| **NetCDF driver** `src/src/drivers/netcdf/` | `ncid_`, open and mode flags, codec; one mutex for all drivers of the process | `open_write`, `open_read`, `write` (defines what is not there), `read`, `describe_variable`, `flush`, `close` | dimensions shared by equal length; a definition that fails halfway; define mode left on | what was written without an exception is described and read back |
| **Zarr driver** `src/src/drivers/zarr/` | TensorStore handle; or, in the NCZarr build, an `ncid_` without a mutex | the same | callbacks of two variables between two library calls, or in one array | every element of a write that returned is stored (for TensorStore, every chunk whole) |
| **GRIB2 driver** `src/src/drivers/grib2/` | stdio stream, settings, index of records | the same | eight template layouts written and read by different code; short writes | each write that returned is found under the host's name, in order |
| **Exception bridge** `src/src/workers/exception_bridge.*` | outcome registry | cordon, record, take | an exception that escapes a worker | a worker never dies |
| **comm_split, mpi_threading, thread_pinning**, **Fortran binding** | none | start-up calls, thin wrappers | | |

How they interact. `amio_write` looks its dataset up in the HandleTable, takes a
buffer from the StagingPool, copies the field into it and submits a task to the
WorkerPool; the callback writes through the driver, gives the buffer back, sets the
flags of the `IoRecord` and lowers `pending_writes`. `amio_read` asks the
PrefetchQueue of the variable, which submits fetch tasks to the same WorkerPool;
each takes a buffer from the same StagingPool and fills it through the driver.
`amio_close` refuses while views are outstanding, cancels the prefetch queues,
polls `pending_writes`, then closes the driver. `amio_finalize` joins the workers
and tears the rest down. Each driver is called from worker threads only, except
for `describe_variable` and the attribute queries, which run on the host's thread.
Nothing is persisted by AMIO itself and there are no
messages, so crashes and lost messages do not arise; timeouts, spurious wake-ups,
failing allocations and failing drivers do.

## 2. Modules

| module | models | composes |
|---|---|---|
| `StagingPool` | StagingPool | |
| `StagingPoolProofs` | theorems about `StagingPool` | extends `StagingPool` |
| `OrderedWrites` | what the worker pool promises of the writes of a pair (abstract) | |
| `WorkerPool` | WorkerPool | instance of `OrderedWrites` (refinement) |
| `WorkerPoolProofs` | theorems about `WorkerPool` | extends `WorkerPool` |
| `HandleTable`, `MCHandleTable` | HandleTable; symmetry for TLC | |
| `HandleTableProofs` | theorems about `HandleTable` | extends `HandleTable` |
| `PrefetchQueue`, `MCPrefetchQueue` | PrefetchQueue with the part of `amio_read`, `amio_release_view`, `amio_close` and `amio_finalize` that touches it | fetches run as the worker pool would run them; the staging pool as a count of buffers |
| `PrefetchQueueProofs` | theorems about `PrefetchQueue` | extends `PrefetchQueue` |
| `ConfigLoader` | conversion and validation of a manifest, as operators | |
| `CoreLifecycle`, `MCCoreLifecycle` | cores, datasets, views and the calls on them, from `kind_dispatch` to return | extends `ConfigLoader`, instance of `HandleTable`; tasks of the worker pool as "some task holds this dataset" |
| `CoreLifecycleProofs` | theorems about `CoreLifecycle` | extends `CoreLifecycle`, instance of `HandleTableProofs` |
| `BackendDriver` | what the drivers share: the state of one dataset, shapes, strides, boxes | |
| `NetcdfLibrary` | netCDF-C as the drivers use it (external) | extends `BackendDriver` |
| `NetcdfDriver`, `NczarrDriver` | the netCDF driver; the Zarr driver built without TensorStore | extend `NetcdfLibrary` |
| `ZarrDriver` | the Zarr driver over TensorStore | extends `BackendDriver` |
| `Grib2Templates`, `Grib2Driver` | product and grid templates, field names; the GRIB2 driver | extends `BackendDriver` |
| `DriverFiles`, `MCDriverFiles` | a dataset behind any of the four, written, closed, opened and read | instances of the four drivers |
| `StorageProofs` | lemmas about shapes, strides, offsets, boxes and the calls of netCDF-C | extends `NetcdfLibrary` |
| `DriverFilesProofs` | theorems about the drivers | extends `DriverFiles`, `StorageProofs` |
| `WritePath`, `MCWritePath` | the write path of one dataset | staging pool as a count, worker pool by its promise for different variables: any order, concurrently, refused at capacity |
| `WritePathProofs` | theorems about `WritePath` | extends `WritePath` |

Conventions. Variables and actions keep the names of the code where TLA+ allows.
An action is one critical section (or one atomic access, or one step without a
lock), so the interleavings of the model are those of the threads. `*_cv_` waits are
states of a thread; a spurious wake-up and a passing deadline are actions. Operators
marked "Wrong on purpose" are plausible mistakes; each stands just before the
definition it would replace and is not used by any specification: a property earns
its place only if such a mistake violates it.

**StagingPool.** One action per critical section of `mu_`. `Acquire` is the first
turn of the loop in `acquire`, `Retry` a turn after a notification, `FinalCheck`
what follows `cv_status::timeout`. `FindBestFit` is passes A, B and C,
`EnsureStorage` the allocation rule, `LowerBound` the bisection in `release`. A
thread with status *notified* has left the wait set and not yet re-taken the mutex;
if its deadline passes first it takes `FinalCheck` (`wait_until` may report a
timeout after a notification). `want` is history: what the holder asked for.

**WorkerPool.** `wpc` follows a worker through `worker_loop`: *loop*, then with a
write *locking* (popped, `mu_` left), *running* (inside the callback, pair's mutex
held), *unlocking* (`exec_seq` advanced), *finishing*; with a prefetch
*prefetching*, *finishing*. A task that is not ready is popped and pushed back in
one critical section, with a prefetch taken in its place if there is one. The
exception cordon makes a callback that throws end like one that returns.
`BeginWrite` is the test of `shutdown_` before `mu_` is taken.

**HandleTable.** A token is `slot * GenLimit + generation` with `GenLimit` for
2^32. `Release` is enabled for every token a host can present; what `lookup`
refuses is a stuttering step.

**PrefetchQueue.** `pc` follows a reader through the critical sections of
`get_buffer`; `fetch` follows the task of a timestep. A buffer is represented by
the selection it was really filled with, `fetched_bbox` by what the queue believes.

**WritePath.** One action per atomic access: the order of `submit_write` and
`fetch_add`, and of `has_failure` and `first_failure_code`, is that of the code.
`pending_writes` is unsigned and wraps (`PendingLimit`).

**CoreLifecycle.** A core, a dataset record and a view each stand for one
allocation (`mem`: *unborn*, *live*, *gone*). A call is `kind_dispatch`, which looks
the token up once and keeps the object, followed by the steps of its body; between
any two steps other threads may run, close the dataset or mint and release handles.
`running` is the set of datasets that tasks of the worker pool refer to. The token a
host may present is one of a call that has returned, or a stale one. The rules the
host keeps are those of `docs/site/user-guide/model-integration.md` (lines 240-248):
`amio_init` and `amio_finalize` come from one thread, a dataset is closed by the
thread that opened it. Two more are needed and stated as `HostMay`: at
`amio_finalize` no other call on that core is under way and its views are released,
and one view is used by one thread at a time. Reads, descriptions and writes come
from any thread, also during a close. `schedule_fetch` is a task that `get_buffer`
submits, which only a queue that is not cancelled does; `ReadBuffer` is a `get_buffer`
that answers, and it asks nothing of the queue: `get_buffer` looks at `completed_`
before `cancelled_`, `mark_complete` fills `completed_` after a cancel too, and the
cancel may fall between the answer and the view. So views are also made of datasets
that are closed or being closed.

**ConfigLoader.** `populate_from_conf` casts each integer to `size_t` (`ToSize`,
modulo `WordSize`) and `validate` tests afterwards, as in the code, against the
limits of `config_loader.hpp` under their names there. `ManifestAssumption` states
what CONF makes of a manifest: integers are signed words, under known names.

**Drivers.** A field element is the pair (number of the write, logical index), so an
element in the wrong place or left over from an older write shows. `Snapshot` is
what `amio_write` copies: as many elements as the shape has, whatever the strides.
`log` is the history of the writes that returned and `threw` the variables a write
of which raised an exception; the properties promise nothing of the latter. A
library call may fail (`MaxFaults`), and an exception leaves the file as the calls
before it made it, the failing one without effect or, for `nc_put_vara`, with all of
it. *NetcdfDriver* holds `g_nc_driver_mutex` through a call, so a
write is one action whose outcomes are the prefixes of its definition (a failing
`nc_inq_varid` or `nc_redef` leaves the file as it was).
*NczarrDriver* has no mutex, so each library call is an action. *ZarrDriver* writes
into one array whatever the variable's name: a write is a sequence of chunk commits.
*Grib2Driver* appends one message per write; its file is read back through the
templates, at the indices of `pdt_surface_type_index`.

The rank of a write. The drivers give `start` and `count` the rank of the field in
hand, nobody compares it with the rank of the variable that an earlier write defined,
and `nc_put_vara` has no parameter for it: it reads as many entries as the variable
has dimensions. `Regions` are the pairs it may see. A field of a higher rank is cut to
its first extents: a part of it is stored, and the write returns. For a field of a
lower rank the library reads past the two vectors; what it finds there is any number up
to `MaxStray`, so the put may be refused, store nothing, store something elsewhere,
or store elements from behind the buffer (`Junk`). That such a read may also end the
process is not modelled. All this happens in the runs and in the proofs; the
promises about data are made for variables whose writes have one rank (`OneRank`),
whatever happens to the others. A variable has one data type throughout.

## 3. Runs

| run | instance | distinct states | what it shows |
|---|---|---|---|
| `staging_pool` | 3 threads, 1 slot growing to 2, nominal size 2, requests 1 and 3, one failing allocation, 2 references | 86,510 | conservation, sorted free list, promised capacity, no lost wake-up, stable storage, null only when saturated, `acquire` returns |
| `worker_pool` | 2 workers, 2 submitters, 1 pair, 4 writes, 1 prefetch, watermarks 1/2, capacity 3, both modes | 42,822 | refinement of `OrderedWrites`, each task in one place, drain, execution, shutdown and submission end |
| `handle_table` | 3 slots, 3 generations, 2 kinds, 2 payloads, 4 releases per slot | 8,363 | live handles resolve, stale ones do not until the generation comes round, free list exact |
| `prefetch_safety` | 2 readers, 2 timesteps, depth 1, 2 selections, 2 views, one throwing acquisition | 2,614,838 | a timestep is tracked once, buffers conserved, selections honoured before the deadline |
| `prefetch_one_reader` | 1 reader, the same queue, with fairness | 37,704 | a sleeping call has a fetch or an answer; a call past its deadline returns; a close lets readers go |
| `write_path` | 2 hosts, 2 writes, queue of 1 | 118,622 | buffers and `pending_writes` exact, undisturbed `AMIO_OK` means stored, flush returns |
| `drivers` | each of 4 backends; variables `time`, `lon` and a field over both, also with Fortran strides and with one dimension less; 3 writes, 1 failing library call | 1,376,735 | what was written without an exception is complete in the file, described and read back, per backend |
| `core_lifecycle` | 2 cores, 2 datasets, 2 views, 2 threads of which one opens and closes datasets, 4 objects ever made; 11 manifests of a core, 4 of a dataset | 1,280,510 | no call or task uses freed memory, handles and view counts exact, no integer of a manifest wraps |
| `flush_two_hosts` | 2 hosts, 2 writes, queue of 2 | violation | see finding 1 |
| `queue_full` | 1 host, 2 writes, queue of 1 | violation | see finding 2 |
| `wait_on_failure` | 1 host, 1 write, fairness | violation | see finding 3 |
| `prefetch_late` | 1 reader, 2 timesteps | violation | see finding 4 |

Bounds, and why they are enough. *Staging pool*: three threads over two slots give
two waiters beside a holder, so a notification can go to the wrong one; requests
below and above the nominal size make slots of two sizes, so that the order of the
free list matters; one growth step has the ceiling on both sides. *Worker pool*:
two workers and four writes of one pair give a worker that holds task n while the
other pops n+1, pushes it back and meets n+2; more pairs only add independent work
(the proofs cover any number). Capacity 3 over high watermark 2 lets the queue pass
from below one mark over both. *Handles*: four releases of a slot bring its
generation (1, 2, 3) round once, so both sides of the wrap are reached. *Prefetch*:
depth 1 over two timesteps has a timestep inside and one outside the window, and
two readers meet on one timestep with different selections; the run with one
reader exists because `SleeperTracked` is a promise for one reader only: with two,
the one that takes a buffer leaves the other asleep on an untracked timestep until
its deadline. *Write path*: two writes are what the finding needs: one finishes
before it is counted while the other is pending. *Drivers*: `time` with one record
and a field with one or two rows make dimensions of equal and different
length, before and after the record dimension grew; the field with one dimension comes
before or after one with two, which makes both kinds of mismatch, and `MaxStray = 1`
has the regions that are empty, that fit and that do not; three writes put every order of
the three variables and a second write to one of them in front of the read; a file
has one generation, is closed when the callbacks are done, and a behaviour ends with
its first read, since a read changes nothing. The GRIB2 run takes every product
template the driver writes and one it does not. *Life cycle*: four objects suffice
for a core, a dataset and two views, or two cores and two datasets, so that a slot
released by one core is given to another before the first is finalized. One
opener keeps the state space down: by the rules of the host another one would work
on another dataset. `WordSize` stands for 2^64 and `kMaxBufferCapacity` for 2^30,
with a factor of more than two between them, which is what the cast needs.
Deadlock checking is off where the system may stop (all tasks executed, the queue
destroyed, every handle released as often as the bound allows, the file read, every object made and freed); it is on for
`staging_pool`.

Symmetry is used only in runs without liveness properties (handles, readers,
writes, the objects of the life cycle).

Fairness. A thread that is inside a library call, or a worker thread, keeps running
(`WF` on its steps): that is the operating system's scheduler, and the code has no
lock that a thread holds while it waits for another one. The 50 ms poll of
`worker_loop` makes weak fairness of `WorkerStep` right even if a notification were
lost. Time passes only in `StagingPool` (`DeadlinePasses`), whose deadline is
absolute; in `PrefetchQueue` and `WritePath` nothing is assumed of the clock, so what ends
there ends without help from a timeout, except `DeadlineEndsRead`, which starts at
the passed deadline. Host programs are under no obligation: no fairness on new
calls, on `release` or on `amio_release_view`. `DriverFiles` and `CoreLifecycle` have no
fairness and no liveness property.

## 4. Findings

1. `flush_two_hosts`. `amio_write` queues its task and raises `pending_writes`
   afterwards. If the callback finishes in between, the counter passes below zero
   and hides the pending write of another host: `amio_flush` reads 0 and returns
   `AMIO_OK` before a write that had already returned is stored. `FlushMeansWritten`
   in `write_path` shows that this window is the only way (apart from the 30 s limit
   of `amio_close`).
2. `queue_full`. `amio_write` ignores the result of `submit_write`. At capacity the
   write is dropped with `AMIO_OK`, its staging buffer is lost, and `pending_writes`
   never reaches zero again.
3. `wait_on_failure`. A failed write sets `failed` and not `completed`, and
   `amio_wait` polls `completed`: it ends with a timeout.
4. `prefetch_late`. At its deadline `get_buffer` takes a completed buffer without
   comparing selections.

Observations for which no run is spent: pass C of `find_best_fit` enlarges the
largest free slot where the comment in `staging_pool.hpp` speaks of the smallest;
with backpressure a submitter enqueues after one second whatever the depth, so the
queue passes its capacity; without it, a submitter delayed between its test of
`shutdown_` and `mu_` queues a task nobody executes; `drain` returns after five
seconds and `amio_close` goes on after thirty, both without saying so; a fetch that
completes after `cancel_pending` stages a buffer that is given back only by the
destructor.

Observations about the drivers, which the properties of `drivers` exclude or allow
explicitly:

* *All.* Callbacks of different variables of one dataset run in one driver at the
  same time, although `backend_driver.hpp:28-34`, `netcdf_driver.hpp:35-39`,
  `zarr_driver.hpp:32-36` and `grib2_driver.hpp:43-46` say that calls are serialized.
  `amio_write` copies as many elements as the shape has and only the GRIB2 driver
  looks at the strides that `amio_types.h:84-90` describes, so a field with other
  strides is stored in the order of memory by NetCDF and Zarr (`RowMajorOnly`), and
  one with gaps is read past its copy by GRIB2 (`Compact`). The shape of a view
  reports the strides of the box although its buffer is packed.
* *NetCDF.* The dimensions of a variable, and so whether a later append succeeds,
  depend on which callbacks ran before. A definition that fails leaves a file of the
  classic model in define mode, where the data of every other variable is refused;
  for the same reason the flush of a classic file nothing was written to throws, and
  `amio_close` returns `AMIO_ERR_BACKEND_FAILURE`. A write whose rank differs from that
  of its variable is not refused (see section 2; the NCZarr build shares this): one of a
  higher rank returns with a part of its data stored, one of a lower rank reads past the
  end of `start` and `count`. No document or test of the repository speaks about it.
  `open_write` that fails after
  `nc_create` does not close the file. `describe_variable` and the attribute queries
  take no mutex while workers read.
* *NCZarr build.* Two definitions that overlap fail with "late definition" or "not
  in define mode" although neither is wrong; the writes raise an exception, so
  `NczarrOkMeansStored` holds. `describe_variable` never finds a variable, so every
  read through the C interface is refused.
* *Zarr.* One array takes the data of all variables. A box cuts the leading (time)
  dimension of the array and the timestep is ignored, and a store with several
  timesteps cannot be read without a box: `ZarrReadBack` promises unboxed reads, and
  boxed ones of arrays with one dimension.
* *GRIB2.* The name of the variable is not used. Of a field with more than two
  dimensions the first plane is read back; records of another grid are described
  with the grid of the first. Without a path a write returns and stores nothing; the
  results of `fflush` and `fclose` are ignored, so a full disk at that point is not
  reported (`file.lost`); a message cut short may hide those after it. Values are
  rounded to the decimal scale of the manifest.

Observations about the life cycle: a closed dataset keeps its record, its driver
object and its queues until `amio_finalize`, and this is what makes a close under
another thread's call harmless (`NoDanglingUse`; its comment in `close_dataset`
calls it a missing back-pointer). A read that has its buffer and has not counted its
view passes the guard of `amio_close`; the view stays usable. `amio_close` cancels
the queues that exist, and a cancelled queue still hands out what a late fetch
completes; one made afterwards by a call that had already been
dispatched stays active until `amio_finalize`. A view that is still held at
`amio_finalize` refers to a deleted core, and releasing it then is not refused by
the table: the host must release its views first, which the guide does not say.
`AMIO_ERR_ALREADY_INITIALIZED` and `AMIO_ERR_FINALIZE_TIMEOUT` are never returned; a
second `amio_init` makes a second core. Of the manifest, the watermarks are validated
only when `high_watermark` is positive after the cast and are not passed to the
worker pool. `validate_bbox` computes `offset + (extent - 1) * stride` in 64 bits
without a test for overflow; the driver is left to refuse such a box.

## 5. Proofs

Eight modules hold theorems or lemmas. Each is about every value of the constants that satisfies
the named assumption of the module it extends; no proof assumes more, and the one
theorem with a hypothesis of its own (`SleepersTracked`) states it. The
assumptions ask for finite sets where something is counted (workers, threads,
readers, hosts, writes, views), for the order of configured limits that
`ConfigLoader` enforces, and for counters wide enough for what they count
(`PendingLimit`, `WordSize`, at least two generations of a handle). The bounds that
keep TLC's instances finite (`MaxReleases`, `MaxViews`, `MaxThrows`,
`MaxAllocFailures`, `MaxObjects`...) are arbitrary numbers in the proofs.

| module | assumption | theorem | statement |
|---|---|---|---|
| `WorkerPoolProofs` | `WorkerPoolAssumption` | `PoolTypeCorrect` | `[]TypeOK`, so `in_flight_` never goes below zero |
| | | `NoTaskLostOrDuplicated` | `[]EveryTaskInOnePlace` |
| | | `CallbacksOfAPairExclude` | `[]OneCallbackPerPair` |
| | | `DrainIsExact` | `DrainedMeansExecuted` (action property) |
| | | `PoolRefinesOrderedWrites` | `ImplementsOrderedWrites` (refinement) |
| `StagingPoolProofs` | `PoolAssumption` | `StagingTypeCorrect` | `[]TypeOK` |
| | | `SlotsConserved` | `[]FreeIffUnreferenced` |
| | | `FreeListStaysSorted` | `[]FreeListSorted` |
| | | `HoldersHaveRoom` | `[]CapacityPromised` |
| | | `WakeupsNotLost` | `[]NoLostWakeup` |
| | | `StorageUnderReference` | `StorageStable` (action property) |
| | | `NullMeansSaturated` | `NullOnlyWhenSaturated` (action property) |
| `HandleTableProofs` | `HandleAssumption` | `TableTypeCorrect` | `[]TypeOK` |
| | | `OutstandingHandlesResolve` | `[]HandlesResolve` |
| | | `StaleTokensRejected` | `[]StaleRejected` |
| | | `FreeSlotsExact` | `[]FreeListExact` |
| `PrefetchQueueProofs` | `PrefetchAssumption` | `QueueTypeCorrect` | `[]TypeOK` |
| | | `TimestepsTrackedOnce` | `[]TrackedOnce` |
| | | `NoBufferLeaked` | `[]BuffersConserved` |
| | | `BuffersMatchRequests` | `SelectionHonoured` (action property) |
| | | `SleepersTracked` | `[]SleeperTracked`, for one reader (`OneReader`) |
| `WritePathProofs` | `WritePathAssumption` | `WriteTypeCorrect` | `[]TypeOK` |
| | | `NoBufferLost` | `[]BuffersAccounted` |
| | | `PendingCountsUnfinished` | `[]PendingExact` |
| | | `FlushIsDurable` | `FlushMeansWritten` (action property) |
| `CoreLifecycleProofs` | `LifecycleAssumption`, `ManifestAssumption`, `ConfigAssumption` | `LifecycleTypeCorrect` | `[]TypeOK` |
| | | `NothingDangles` | `[]NoDanglingUse` |
| | | `HandlesStayExact` | `[]HandlesExact` |
| | | `OutstandingViewsExact` | `[]ViewsCounted` |
| | | `ConfigNeverWraps` | `[]NoWrappedConfig` |
| `DriverFilesProofs` | `DriverAssumption`, `BackendsAssumption`, `ZarrAssumption` | `ZarrReadBackHolds` | `[]ZarrReadBack` |
| | | `NczarrOkMeansStoredHolds` | `[]NczarrOkMeansStored` |
| | | `NetcdfReadBackHolds` | `[]NetcdfReadBack` |
| | | `Grib2RoundTripHolds` | `[]Grib2RoundTrip` |

All rest on `Spec => []Inv`, with an inductive invariant `Inv` in each module
(`PoolInvariant`, `StagingInvariant`, `TableInvariant`, `QueueInvariant`,
`WriteInvariant`, `LifecycleInvariant`; one for each driver in `DriverFilesProofs`).
TLC checked it on small instances before it was proved; the conjunct of `SweptReleased` that a swept record was once allocated
was added during the proof.

**WorkerPool.** None of the properties is inductive by itself. The crux is the
window in which a worker has passed the `dv_seq` test under `mu_` and has not yet
locked the pair: the test must still hold when the callback is entered. `HeldInTurn`
says that it does (the held task has `dv_seq = exec_seq` from the pop to the end of
the callback), and is preserved because only a worker that executes a task of the
pair advances `exec_seq`, and `OnePerPair` says there is one such worker at most.
That in turn holds because a second one would hold a task with the same `dv_seq`,
hence the same task, and `Apart` says a held task is not queued. `Apart` needs that
the queue has no repetitions, which survives `Append` because of `Placed`: the tasks
queued or held are exactly those numbered from `exec_seq` to `next_seq - 1`, so a
new number is new. `OwnerHolds` ties the pair's mutex to the worker inside it and
`StartedExact` the history variable to the workers, for the refinement.
`InFlightExact` and `PrefetchExact` express the counters as cardinalities, for
`in_flight_ >= 0` and for `drain`. `AppendElems`, `TailElems` and `RequeueElems` say
what the queue operations do to a sequence without repetitions.

**StagingPool.** `ListFor(fl, n)` says what makes a free list right for a pool of n
slots: it names the unreferenced ones, once each, in ascending order of capacity.
It is a property of any list, so it is shown of the list a turn of `acquire` works on,
as it was or grown by one slot, then of that list without the slot that
`find_best_fit` picked, and of the list with a slot inserted by the bisection of
`release`. Order survives the storage rule because the one slot it enlarges leaves
the list under the same lock, or the allocation threw and no capacity changed. `WaitsWhenFull` (a thread waits only in a pool at its ceiling) makes
`NoLostWakeup` inductive, since a growing pool would add free slots nobody was
notified of, and it is what makes a null answer mean saturation. `MinLeast`, that
the `Min` of a set of numbers is its least element, comes from the well-foundedness
of `<` (`WFMin`), so that no induction is needed.

**HandleTable.** `SlotInv` makes outstanding handles and live slots correspond one
to one. `StaleRejected` alone is not inductive: that a token is refused now says
nothing about the next release. `StaleInv` gives the distance instead: d releases
after the one that made a token stale, the generation of its slot is d + 1 steps
ahead of the token's, round the cycle of `GenLimit - 1` generations (0 is skipped).
A token is then accepted again only after a whole turn.

**PrefetchQueue.** `BoxesAgree` (of a staged timestep `fetched_bbox_` tells what the
buffer was filled with; entries of other timesteps may be stale) turns the
comparison in `get_buffer` into one of the buffer, which is `SelectionHonoured`.
`ViewsBounded` keeps room for the views of the calls under way. `TrackedOnce` and
`BuffersConserved` are inductive together, with one lemma per action for the three
sets being counted. `SleeperTracked` needs `Answered`, which is what a lone reader
may rely on at each step of its call; with two readers it is false, and the theorem
says so in its hypothesis.

**WritePath.** `Places` says which host or worker a write is with. `PendingExact`
speaks about states outside the window between `submit_write` and `fetch_add`;
`Counted` gives `pending_writes` in every state, as the returned and unfinished
writes less those that finished before they were counted, modulo the width of the
counter. `Surfaced` (a callback past the driver has stored its write or left a
failure to be found) and `FlushInv` (what a host that saw zero may rely on until it
returns) make `FlushMeansWritten` a property of the last step.

**CoreLifecycle.** The invariant of the handle table is taken over from
`HandleTableProofs` by INSTANCE: every step of `CoreLifecycle` inserts, releases or
leaves the table alone. `TableInv` adds that within the bound no generation comes
round. What a call or a task holds is in the map of a core, is a live core or view,
or was made by that call and is not yet known to others (`CallsInv`, `MapsInv`,
`Exclusive`). Only `amio_finalize` empties a map or frees a core, and by then it is
alone with the core, the tasks are joined, and the handles of its datasets are
released before the records go (`FinalInv`). `HandlesInv` matches handles and
objects kind by kind; it is kept by `amio_finalize`, which releases tokens of
datasets closed long before, because such a token finds the dataset's own handle or
none. `NoWrappedConfig` follows from the ranges `validate` tests: a negative signed
word becomes at least half of `WordSize`, beyond every limit.

**Shapes and storage** (`StorageProofs`). What the drivers compute about shapes of
any rank (row-major strides, the offset of an index, the index at an offset) are
recursive functions. The proof system cannot apply an induction theorem whose
parameter is a predicate, so induction is done over sets: a set of naturals that is
not empty has a least element (`LeastNat`, from the well-foundedness of `<`), hence a
set with 0 that is closed under successor has every natural (`NatInduct`). The first
use is that a function with the recursive equation exists at all (`StridesExist`,
`SumsExist`), because a recursive definition is a choice among such functions; then
that strides are positive and divide each other, and that `Offset` and `IndexAt` are
inverse to each other on the cells of a shape (`OffsetOfIndexAt`, `IndexAtOfOffset`,
with `DivDiv` for nested division). From these follow what `Snapshot` has at a place,
that the cells of a box lie inside the shape, and that distinct indices have distinct
places. For the netCDF library, `Changes` says what a sequence of calls may do to a
file (dimensions and variables are only added, the record dimension only grows, data
is left alone), with one lemma for each call. `PutOf` is what a put into any region
does to the file: with a field of the variable's rank, of which `Regions` has one member,
the field from 0 on, every element of the field is stored and the others are kept
(`PutVaraFacts`); with any other rank, no element goes and nothing but this variable's
elements and the record dimension changes.

**Drivers** (`DriverFilesProofs`). Each theorem has an invariant of its own about the
states with that backend, and a common part that ties `log` to the numbers of the
writes. *Zarr*: a write is a sequence of chunk commits between which others commit, so
`ZarrWhole` says of each chunk that nobody has written it, or that it is, whole, what a
callback still under way has committed, or what the last returned write of a variable
did, as long as no later callback of that variable has reached it. A write that
returns has committed all of its chunks, and so passes from the second case to the
third. *NCZarr*: `NczarrVar` says for each step a callback has reached which of the
calls before it are done to the variable, and `NczarrOther` that no call of another
callback undoes them; define mode is shared by all, so a call that finds it closed
throws, and the property says nothing of that variable. *Ranks*, in both netCDF
backends: the invariant does not assume that writes agree in rank. It says that some
logged write (or the one that is defining the variable) has the rank of the variable,
and that the elements of every write of *that* rank are stored (`Shapes`, `Offered`);
the values are claimed as long as all writes are of it (`Ranked`). One rank for all
(`OneRank`) then makes it the variable's. A mismatched write ends the claims for its own
variable, and for no other (`LogKept`). *NetCDF*: the crux is that
dimensions are shared. `NetcdfPlaceDims` shows that a definition, however its matching
of lengths and names turns out, only adds dimensions and picks ids that exist;
`NetcdfPut` that data is accepted only where it fits, `FieldFits` that what fits once
fits when dimensions have grown; `NetcdfOther` that the writes of
another variable, which may grow the record dimension, leave every element of this one
in place. What is described is then at least as long as anything written
(`NetcdfDescribed`), and `NetcdfStored` turns an index of a box into the index that was
written. *GRIB2*: a failing write may leave part of a message in the file, and what
stdio still buffers may be lost when the file is closed, so messages and writes do not
simply correspond. `Grib2Scanned` says of every length `n` that *if* the file is `n`
whole messages with only broken ones behind them, then these are exactly the logged
writes, in order; it holds for any file the faults leave and is what a scan needs.
`Grib2Append` and `Grib2Drain` carry it over a message that is appended and a buffer
that is written out or lost. The name of a record goes through one of eight product
templates, each with the surface, the aerosol or chemical type, the statistics or the
wavelengths at places of its own: `Grib2Values` evaluates every template at the indices
the decoder looks at, and `Grib2Name` concludes that the decoder's name is the host's.
`Grib2Grid` and `Grib2Plane` do the same for the grid, and `Grib2Encoded` shows that
packing by strides puts the elements of a compact field in row-major order.
`Grib2OpenRead` then finds the index to list the records in the order of the file, and
`Grib2Read` that timestep `t` delivers the elements of the `t`-th write.

Only model-checked, and why:

* Liveness: `AcceptedIsExecuted`, `ShutdownJoins`, `SubmitReturns`, `AcquireReturns`,
  `FlushReturns`, `DeadlineEndsRead`, `CancelFreesReaders`. They need fairness and
  ENABLED, which the proof system does not handle.

## 6. Not modelled

Values of field elements and their encoding: compression, GRIB2 data representation
templates, decimal scaling. The text of attributes (`var_attributes.cpp`; that they
are written is modelled) and the queries for them. Formatting and wording of errors,
statistics, logging. Parallel access through MPI, and start-up calls into MPI and the
operating system. Cloud stores of the Zarr driver. `ConfigLoader::serialize`, which
only tests call. `IoRecord`s and their handles after the write: nothing frees them.
The mode without a worker pool (`sync_fetch` on the caller's thread, synchronous
`amio_write`): `amio_init` always makes one. The Fortran binding, which keeps no
state. The outcome registry of the exception bridge: `worker_pool.cpp` records into
it, and only tests take from it. The memory model: atomics are sequentially
consistent here; the code uses acquire/release pairs around each flag. Two plain
variables are raced on: `first_failure_code`, and `exec_seq`, which is read under `mu_` and
written under the pair's mutex. In the model a reader of either may find the old value or
the new one, and never a mixture of both (each is written by one aligned store). Also left
out: that reading past a vector, as in a write of too low a rank, may end the process.

Boundaries between the modules. `CoreLifecycle` sees the tasks of a dataset as one
bit, `WritePath` and `PrefetchQueue` see one dataset of one core, `DriverFiles` one
driver whose callbacks have ended when it is closed. What falls between them is the
close that gives up after 30 s and closes the driver under a running callback
(`amio_core.cpp:526`).

## 7. Plan

The pools, the table and the queue came first because the rest stands on them, then
the write path, then the life cycle of the core with its configuration, and the
drivers. Every safety property that a passing run checks is proved. What is left:

1. A close that runs into its limit, with the driver's steps inside: the composition
   of `WritePath` with `NczarrDriver`.
2. `validate_bbox` with its arithmetic at a small width.
