--------------------------- MODULE CoreLifecycle ---------------------------
(***************************************************************************)
(* Who owns what between amio_init and amio_finalize                       *)
(* (src/src/c_boundary/amio_core.cpp, amio_api.cpp): cores, the datasets   *)
(* of their maps and the views on them, reached through the handle table   *)
(* that all cores of the process share.  A call looks its handle up once   *)
(* (kind_dispatch) and then works with the object's address; other threads *)
(* take steps in between, and nothing pins the object.                     *)
(*                                                                         *)
(* A core, a dataset and a view stand for one allocation each.  A dataset  *)
(* has one variable to read.  running[d] says that tasks of the worker     *)
(* pool hold the dataset's address: write callbacks and fetches; WritePath *)
(* and PrefetchQueue have their detail.                                    *)
(*                                                                         *)
(* The host keeps the rules of docs/site/user-guide/model-integration.md   *)
(* (lines 240-248): one thread calls amio_init and amio_finalize, and a    *)
(* dataset is closed by the thread that opened it.  It has returned from   *)
(* its calls on a core and released its views before it finalizes the      *)
(* core, and uses a view from one thread at a time.  Reads, descriptions   *)
(* and writes come from any thread, also while the dataset is closed.      *)
(***************************************************************************)
EXTENDS ConfigLoader, Sequences, FiniteSets

CONSTANTS
  Cores, Datasets, Views,   \* the objects there may be
  Threads, Main,            \* host threads; the one that calls amio_init
  Openers,                  \* bound: the threads that open datasets, and so close them
  MaxObjects,               \* bound: objects ever made
  Manifests,                \* what amio_init is given
  DatasetManifests,         \* what amio_open_dataset is given
  Registry,                 \* the keys BackendFactory has a builder for
  Null

Objects == Cores \cup Datasets \cup Views

ASSUME LifecycleAssumption ==
  /\ Main \in Threads /\ Openers \subseteq Threads
  /\ Cores \cap Datasets = {} /\ (Cores \cup Datasets) \cap Views = {}
  /\ Null \notin Objects
  /\ IsFiniteSet(Views)
  /\ MaxObjects \in Nat \ {0}

\* What CONF makes of a manifest: get_int returns a signed word.
ASSUME ManifestAssumption ==
  \A m \in Manifests :
    /\ m.source \in {"ok", "missing", "malformed", "mistyped"}
    /\ DOMAIN m.ints \subseteq DOMAIN Defaults
    /\ \A f \in DOMAIN m.ints : m.ints[f] \in ConfInt

VARIABLES
  count, generation, live, kind, payload, free_list,   \* process_handle_table()
  handles, stale, releases,                            \* its histories
  core,      \* the AMIO_Core objects
  ds,        \* the DatasetRecords
  view,      \* the ViewRecords
  running,   \* datasets that tasks of the worker pool hold
  calls      \* the call each thread is in

\* The table is large enough for every object and no generation comes round.
H == INSTANCE HandleTable WITH
       Kinds <- {"Core", "Dataset", "View"}, Payloads <- Objects,
       SlotLimit <- MaxObjects, GenLimit <- MaxObjects + 2, MaxReleases <- MaxObjects

table == <<count, generation, live, kind, payload, free_list, handles, stale, releases>>
vars == <<table, core, ds, view, running, calls>>

IdleCall == [op |-> "idle", pc |-> "", obj |-> Null, new |-> Null, swept |-> {}]

\* mem: is the object allocated?  datasets is the core's map.  Nothing is left of an
\* object that was freed.
NoCore(mem) == [mem |-> mem, token |-> 0, datasets |-> {}, manifest |-> Null, cfg |-> Null]
NoDataset(mem) ==
  [mem |-> mem, token |-> 0, core |-> Null, mode |-> "none", opener |-> Null,
   driver |-> "closed", views |-> 0, queue |-> "none"]
NoView(mem) == [mem |-> mem, token |-> 0, core |-> Null, ds |-> Null]

Init ==
  /\ H!Init
  /\ core = [c \in Cores |-> NoCore("unborn")]
  /\ ds = [d \in Datasets |-> NoDataset("unborn")]
  /\ view = [v \in Views |-> NoView("unborn")]
  /\ running = {}
  /\ calls = [t \in Threads |-> IdleCall]

----------------------------------------------------------------------------
(* The C boundary.                                                         *)

Pc(t, op, pc) == calls[t].op = op /\ calls[t].pc = pc
Goto(t, pc) == calls' = [calls EXCEPT ![t].pc = pc]
Return(t) == calls' = [calls EXCEPT ![t] = IdleCall]

\* The token insert is about to mint.
Minted == H!Pack(H!ChosenSlot, generation[H!ChosenSlot])

\* The handles the host has seen: minted by a call that has returned, or stale.
Known ==
  {h.token : h \in {g \in handles : \A t \in Threads : calls[t].new # g.payload}}
    \cup {r.token : r \in stale}

\* insert, within the bound: every insert so far took a new slot or ended a release.
Insert(k, o) ==
  /\ Cardinality(handles) + Cardinality(stale) < MaxObjects
  /\ H!Insert(k, o)

CoreOf(o) ==
  CASE o \in Cores -> o [] o \in Datasets -> ds[o].core [] o \in Views -> view[o].core

\* The kind of handle a call takes.  "data" is any call that works on a dataset and
\* "view" one that works on a view, until they differ in what they do.
Entry ==
  [open |-> "Core", finalize |-> "Core", close |-> "Dataset", data |-> "Dataset", view |-> "View"]

\* The rules the host keeps.
HostMay(t, op, o) ==
  /\ op = "finalize" => /\ t = Main
                        /\ \A u \in Threads : calls[u].op # "idle" => CoreOf(calls[u].obj) # o
                        /\ \A v \in Views : view[v].mem = "live" => view[v].core # o
  /\ op = "open" => t \in Openers
  /\ op = "close" => ds[o].opener = t
  /\ op = "view" => \A u \in Threads : calls[u].obj # o
  /\ op # "finalize" => \A u \in Threads : calls[u].op = "finalize" => calls[u].obj # CoreOf(o)

\* kind_dispatch: a handle that does not resolve is refused without a step;
\* otherwise the body of the call runs with the payload, whatever happens to the
\* handle meanwhile.
kind_dispatch(t, op, token) ==
  /\ calls[t].op = "idle"
  /\ H!Resolves(token, Entry[op])
  /\ LET o == H!Lookup(token, Entry[op]) IN
     /\ HostMay(t, op, o)
     /\ calls' = [calls EXCEPT ![t] = [IdleCall EXCEPT !.op = op, !.pc = "begin", !.obj = o]]
  /\ UNCHANGED <<table, core, ds, view, running>>

----------------------------------------------------------------------------
(* amio_init and amio_open_dataset, from a file or from a string.          *)

\* A manifest that is refused, or pools that cannot be made, leave no core.
amio_init(c, m) ==
  /\ calls[Main].op = "idle"
  /\ core[c].mem = "unborn"
  /\ parse(m) = "OK"
  /\ Insert("Core", c)
  /\ core' = [core EXCEPT ![c] = [mem |-> "live", token |-> Minted, datasets |-> {},
                                  manifest |-> m, cfg |-> populate_from_conf(m)]]
  /\ UNCHANGED <<ds, view, running, calls>>

\* BackendFactory::build: the empty key and one that is not registered are refused.
build(key) == key # "" /\ key \in Registry

\* Parsing, building or opening the driver fails: nothing was minted.
OpenFails(t) ==
  /\ Pc(t, "open", "begin")
  /\ Return(t)
  /\ UNCHANGED <<table, core, ds, view, running>>

\* The driver is open and the handle minted, but the record is not in the map.
OpenRecord(t, d, m, mode) ==
  /\ Pc(t, "open", "begin")
  /\ ds[d].mem = "unborn"
  /\ parse(m) = "OK" /\ build(m.backend)
  /\ Insert("Dataset", d)
  /\ ds' = [ds EXCEPT ![d] = [mem |-> "live", token |-> Minted, core |-> calls[t].obj,
                              mode |-> mode, opener |-> t, driver |-> "open", views |-> 0,
                              queue |-> "none"]]
  /\ calls' = [calls EXCEPT ![t].new = d, ![t].pc = "register"]
  /\ UNCHANGED <<core, view, running>>

\* Wrong on purpose: the record is not put into the map.
OpenRegisterLost(t) ==
  /\ Pc(t, "open", "register")
  /\ Return(t)
  /\ UNCHANGED <<table, core, ds, view, running>>

OpenRegister(t) ==
  /\ Pc(t, "open", "register")
  /\ core' = [core EXCEPT ![calls[t].obj].datasets = @ \cup {calls[t].new}]
  /\ Return(t)
  /\ UNCHANGED <<table, ds, view, running>>

----------------------------------------------------------------------------
(* amio_describe, amio_get_var_attribute_*, amio_read, amio_write.         *)

\* resolve_variable, under variables_mu: the cached state, or a new queue when the
\* driver describes the variable, which a closed one does not.
resolve_variable(d) ==
  \/ ds[d].queue # "none" /\ UNCHANGED ds
  \/ /\ ds[d].queue = "none" /\ ds[d].driver = "open"
     /\ ds' = [ds EXCEPT ![d].queue = "active"]

\* amio_describe ends with the variable resolved, amio_read goes on to the queue.
Resolve(t) ==
  /\ Pc(t, "data", "begin")
  /\ ds[calls[t].obj].mode = "read"
  /\ resolve_variable(calls[t].obj)
  /\ Return(t) \/ Goto(t, "get_buffer")
  /\ UNCHANGED <<table, core, view, running>>

\* Another mode, a variable that is not there, a bad timestep or box, a fetch that
\* fails or times out, a write refused before it is submitted; an attribute, and what
\* amio_view_data, _shape and _dtype look up, always.
QueryReturns(t) ==
  /\ Pc(t, "data", "begin") \/ Pc(t, "data", "get_buffer") \/ Pc(t, "view", "begin")
  /\ Return(t)
  /\ UNCHANGED <<table, core, ds, view, running>>

\* get_buffer submits fetches, which may outlast it, to a queue not cancelled: the
\* window when the queue is first touched, what it waits for, what it asks for anew.
schedule_fetch(t) ==
  LET d == calls[t].obj IN
  /\ Pc(t, "data", "get_buffer")
  /\ ds[d].queue = "active"
  /\ running' = running \cup {d}
  /\ UNCHANGED <<table, core, ds, view, calls>>

\* get_buffer has a buffer, also after a cancel: it looks at completed_ before
\* cancelled_, a fetch under way fills completed_ again, and the cancel may come when
\* get_buffer has returned.  Then the view is made and its handle minted.
ReadBuffer(t, v) ==
  LET d == calls[t].obj IN
  /\ Pc(t, "data", "get_buffer")
  /\ view[v].mem = "unborn"
  /\ Insert("View", v)
  /\ view' = [view EXCEPT ![v] = [mem |-> "live", token |-> Minted, core |-> ds[d].core, ds |-> d]]
  /\ calls' = [calls EXCEPT ![t].new = v, ![t].pc = "count"]
  /\ UNCHANGED <<core, ds, running>>

\* outstanding_views.fetch_add; schedule_next submits to a queue not cancelled, unless
\* the variable ends before or the timestep is there.
ReadReturns(t) ==
  LET d == calls[t].obj IN
  /\ Pc(t, "data", "count")
  /\ ds' = [ds EXCEPT ![d].views = @ + 1]
  /\ \/ ds[d].queue = "active" /\ running' = running \cup {d}
     \/ UNCHANGED running
  /\ Return(t)
  /\ UNCHANGED <<table, core, view>>

\* amio_write, which does not look at the mode, submits its task.
WriteReturns(t) ==
  /\ Pc(t, "data", "begin")
  /\ running' = running \cup {calls[t].obj}
  /\ Return(t)
  /\ UNCHANGED <<table, core, ds, view>>

\* The last task that holds the dataset ends.
TasksEnd(d) ==
  /\ d \in running
  /\ running' = running \ {d}
  /\ UNCHANGED <<table, core, ds, view, calls>>

----------------------------------------------------------------------------
(* amio_release_view.                                                      *)

\* Wrong on purpose: the count is left alone once the dataset is closed.
CountedOffIfOpen(v) ==
  LET d == view[v].ds IN
  IF d \in core[view[v].core].datasets /\ ds[d].driver = "open"
  THEN [ds EXCEPT ![d].views = @ - 1] ELSE ds

\* The dataset is found through the core's map, also when it is closed.
CountedOff(v) ==
  LET d == view[v].ds IN
  IF d \in core[view[v].core].datasets THEN [ds EXCEPT ![d].views = @ - 1] ELSE ds

ReleaseCount(t) ==
  /\ Pc(t, "view", "begin")
  /\ ds' = CountedOff(calls[t].obj)
  /\ Goto(t, "handle")
  /\ UNCHANGED <<table, core, view, running>>

ReleaseHandle(t) ==
  LET v == calls[t].obj IN
  /\ Pc(t, "view", "handle")
  /\ H!Release(view[v].token, "View")
  /\ view' = [view EXCEPT ![v] = NoView("gone")]
  /\ Return(t)
  /\ UNCHANGED <<core, ds, running>>

----------------------------------------------------------------------------
(* amio_close and amio_close_dataset.                                      *)

CloseRefused(t) ==
  /\ Pc(t, "close", "begin")
  /\ ds[calls[t].obj].views > 0
  /\ Return(t)
  /\ UNCHANGED <<table, core, ds, view, running>>

CloseGuard(t) ==
  /\ Pc(t, "close", "begin")
  /\ ds[calls[t].obj].views = 0
  /\ Goto(t, "cancel")
  /\ UNCHANGED <<table, core, ds, view, running>>

\* The queues there are; one that is made later stays active.
CloseCancel(t) ==
  /\ Pc(t, "close", "cancel")
  /\ ds' = [ds EXCEPT ![calls[t].obj].queue = IF @ = "active" THEN "cancelled" ELSE @]
  /\ Goto(t, "driver")
  /\ UNCHANGED <<table, core, view, running>>

\* After the writes, or after 30 s.  A driver that fails to close stays open.
CloseDriver(t) ==
  /\ Pc(t, "close", "driver")
  /\ \E to \in {"open", "closed"} : ds' = [ds EXCEPT ![calls[t].obj].driver = to]
  /\ Goto(t, "handle")
  /\ UNCHANGED <<table, core, view, running>>

\* Wrong on purpose: the record is freed as soon as its handle is gone.
ForgetRecord(d) ==
  /\ core' = [core EXCEPT ![ds[d].core].datasets = @ \ {d}]
  /\ ds' = [ds EXCEPT ![d] = NoDataset("gone")]

\* The record stays in the core's map until amio_finalize.
KeepRecord(d) == UNCHANGED <<core, ds>>

CloseHandle(t) ==
  LET d == calls[t].obj IN
  /\ Pc(t, "close", "handle")
  /\ H!Release(ds[d].token, "Dataset")
  /\ KeepRecord(d)
  /\ Return(t)
  /\ UNCHANGED <<view, running>>

----------------------------------------------------------------------------
(* amio_finalize.                                                          *)

\* drain, then join: no task of this core is left.
FinalizeDrain(t) ==
  /\ Pc(t, "finalize", "begin")
  /\ running \cap core[calls[t].obj].datasets = {}
  /\ Goto(t, "sweep")
  /\ UNCHANGED <<table, core, ds, view, running>>

\* Flush and close share a try block.  The token is released whatever became of it:
\* that of a dataset closed before is stale and must be refused.
FinalizeDataset(t, d) ==
  /\ Pc(t, "finalize", "sweep")
  /\ d \in core[calls[t].obj].datasets \ calls[t].swept
  /\ \E to \in {ds[d].driver, "closed"} : ds' = [ds EXCEPT ![d].driver = to]
  /\ \/ H!Release(ds[d].token, "Dataset")
     \/ ~H!Resolves(ds[d].token, "Dataset") /\ UNCHANGED table
  /\ calls' = [calls EXCEPT ![t].swept = @ \cup {d}]
  /\ UNCHANGED <<core, view, running>>

\* datasets.clear: the destructors close what is still open.
FinalizeClear(t) ==
  LET c == calls[t].obj IN
  /\ Pc(t, "finalize", "sweep")
  /\ calls[t].swept = core[c].datasets
  /\ ds' = [d \in Datasets |-> IF d \in core[c].datasets THEN NoDataset("gone") ELSE ds[d]]
  /\ core' = [core EXCEPT ![c].datasets = {}]
  /\ Goto(t, "handle")
  /\ UNCHANGED <<table, view, running>>

FinalizeCore(t) ==
  LET c == calls[t].obj IN
  /\ Pc(t, "finalize", "handle")
  /\ H!Release(core[c].token, "Core")
  /\ core' = [core EXCEPT ![c] = NoCore("gone")]
  /\ Return(t)
  /\ UNCHANGED <<ds, view, running>>

----------------------------------------------------------------------------
Next ==
  \/ \E c \in Cores, m \in Manifests : amio_init(c, m)
  \/ \E d \in Datasets : TasksEnd(d)
  \/ \E t \in Threads :
       \/ \E op \in DOMAIN Entry, token \in Known : kind_dispatch(t, op, token)
       \/ OpenFails(t) \/ OpenRegister(t)
       \/ \E d \in Datasets, m \in DatasetManifests, mode \in {"read", "write"} : OpenRecord(t, d, m, mode)
       \/ Resolve(t) \/ QueryReturns(t) \/ ReadReturns(t) \/ WriteReturns(t)
       \/ schedule_fetch(t) \/ \E v \in Views : ReadBuffer(t, v)
       \/ ReleaseCount(t) \/ ReleaseHandle(t)
       \/ CloseRefused(t) \/ CloseGuard(t) \/ CloseCancel(t) \/ CloseDriver(t) \/ CloseHandle(t)
       \/ FinalizeDrain(t) \/ FinalizeClear(t) \/ FinalizeCore(t)
       \/ \E d \in Datasets : FinalizeDataset(t, d)

Spec == Init /\ [][Next]_vars

----------------------------------------------------------------------------
(* Properties.                                                             *)

Mem(o) ==
  CASE o \in Cores -> core[o].mem [] o \in Datasets -> ds[o].mem [] o \in Views -> view[o].mem
TokenOf(o) ==
  CASE o \in Cores -> core[o].token [] o \in Datasets -> ds[o].token [] o \in Views -> view[o].token

\* A call knows an object exactly while it is under way; a dataset is in the map of
\* its core from registration to amio_finalize, whatever its handle.
TypeOK ==
  /\ H!TypeOK
  /\ running \subseteq Datasets
  /\ \A t \in Threads : calls[t].op = "idle" <=> calls[t].obj = Null
  /\ \A c \in Cores : \A d \in core[c].datasets : ds[d].core = c /\ ds[d].mem = "live"
  /\ \A d \in Datasets :
       ds[d].mem = "live" =>
         d \in core[ds[d].core].datasets \/ \E t \in Threads : calls[t].new = d

\* No call and no task of the worker pool ever works on memory that was freed,
\* although kind_dispatch pins nothing: not when a dataset is closed under a read,
\* a description or a write of another thread, nor when fetches outlive the close.
\* The core a view points to lives as long as the view.
NoDanglingUse ==
  /\ \A t \in Threads :
       calls[t].op # "idle" => /\ Mem(calls[t].obj) = "live"
                               /\ core[CoreOf(calls[t].obj)].mem = "live"
  /\ \A d \in running : ds[d].mem = "live" /\ core[ds[d].core].mem = "live"
  /\ \A v \in Views : view[v].mem = "live" => core[view[v].core].mem = "live"

\* A handle that was not released resolves to its own object, which is allocated, in
\* whichever core; and an object that is allocated has a handle, except for a dataset
\* whose own handle was released.  So amio_finalize, which releases the tokens of
\* datasets closed long before, takes no handle from a dataset or view of another
\* core that the slot was given to since, and leaves none behind.
HandlesExact ==
  /\ \A h \in handles :
       /\ H!Lookup(h.token, h.kind) = h.payload
       /\ Mem(h.payload) = "live" /\ TokenOf(h.payload) = h.token
  /\ \A o \in Objects :
       Mem(o) = "live" =>
         \/ \E h \in handles : h.payload = o
         \/ o \in Datasets /\ \E r \in stale : r.token = ds[o].token

BeingCounted(v) ==
  \E t \in Threads : calls[t].new = v \/ (Pc(t, "view", "handle") /\ calls[t].obj = v)

\* outstanding_views, the guard of amio_close, is the number of views on the dataset
\* but for the calls that are just counting one, also when the views were released
\* after the dataset was closed.
ViewsCounted ==
  \A d \in Datasets :
    ds[d].mem = "live" =>
      ds[d].views = Cardinality({v \in Views : view[v].mem = "live" /\ view[v].ds = d
                                                /\ ~BeingCounted(v)})

\* Every integer the pools and queues are built from is the one the manifest states,
\* and one they can work with: no negative value has passed as a huge size_t, a
\* staging pool may grow, and there is a worker.  (The watermarks are not among them:
\* two negative ones pass validate; nothing reads them.)
NoWrappedConfig ==
  \A c \in Cores :
    core[c].mem = "live" =>
      LET cfg == core[c].cfg
          ints == core[c].manifest.ints
      IN  /\ \A f \in DOMAIN ints \ {"low_watermark", "high_watermark", "queue_capacity"} :
               cfg[f] = ints[f]
          /\ 1 <= cfg.buffer_count /\ cfg.buffer_count <= cfg.max_buffer_count
          /\ cfg.threads >= 1 /\ cfg.buffer_capacity_bytes >= 1

=============================================================================
