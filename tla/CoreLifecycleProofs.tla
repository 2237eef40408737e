------------------------ MODULE CoreLifecycleProofs -------------------------
(***************************************************************************)
(* Proofs about CoreLifecycle, for every number of cores, datasets, views  *)
(* and threads and every set of manifests.  What is proved of the handle   *)
(* table is taken over by INSTANCE.                                        *)
(*                                                                         *)
(* The argument: what a call or a task holds is in the map of a core, is   *)
(* a live core or a live view, or was made by that very call (CallsInv,    *)
(* MapsInv, Exclusive).  Only amio_finalize empties a map or frees a core, *)
(* and by then it is alone with the core: HostMay keeps new calls away,    *)
(* FinalizeDrain has joined the tasks, and every handle of a dataset was   *)
(* released before its record goes (FinalInv).  Handles and objects match  *)
(* kind by kind (HandlesInv) because the table rejects stale tokens: a     *)
(* release with the token of a dataset finds that dataset's handle or      *)
(* none (DatasetHandle).  The records are opened only in the lemmas        *)
(* ...Effect; the rest is about single fields.                             *)
(***************************************************************************)
EXTENDS CoreLifecycle, FiniteSetTheorems, TLAPS

HP == INSTANCE HandleTableProofs WITH
        Kinds <- {"Core", "Dataset", "View"}, Payloads <- Objects,
        SlotLimit <- MaxObjects, GenLimit <- MaxObjects + 2, MaxReleases <- MaxObjects

Mems == {"unborn", "live", "gone"}
Pcs == {"", "begin", "register", "get_buffer", "count", "handle", "cancel", "driver", "sweep"}
Configs == {populate_from_conf(m) : m \in Manifests} \cup {Null}

CoreRec ==
  [mem : Mems, token : H!Tokens, datasets : SUBSET Datasets, manifest : Manifests \cup {Null},
   cfg : Configs]
DsRec ==
  [mem : Mems, token : H!Tokens, core : Cores \cup {Null}, mode : {"none", "read", "write"},
   opener : Threads \cup {Null}, driver : {"open", "closed"}, views : Int,
   queue : {"none", "active", "cancelled"}]
ViewRec == [mem : Mems, token : H!Tokens, core : Cores \cup {Null}, ds : Datasets \cup {Null}]
Ops == {"idle", "open", "finalize", "close", "data", "view"}
CallRec ==
  [op : Ops, pc : Pcs, obj : Objects \cup {Null}, new : Datasets \cup Views \cup {Null},
   swept : SUBSET Datasets]

Typed ==
  /\ core \in [Cores -> CoreRec] /\ ds \in [Datasets -> DsRec] /\ view \in [Views -> ViewRec]
  /\ running \subseteq Datasets /\ calls \in [Threads -> CallRec]

\* The table's own invariant, and that no generation comes round within the bound.
TableInv ==
  /\ HP!Inv
  /\ \A s \in H!SlotIndex : releases[s] <= MaxObjects
  /\ \A r \in stale : r.since >= 1

\* The dataset is in the map of its core.
InMap(d) == ds[d].core \in Cores /\ d \in core[ds[d].core].datasets

\* What a call under way has found or made.
CallOK(t) ==
  /\ calls[t].op = "idle" => calls[t].obj = Null /\ calls[t].new = Null /\ calls[t].swept = {}
  /\ calls[t].op \in {"open", "finalize"} =>
       calls[t].obj \in Cores /\ core[calls[t].obj].mem = "live"
  /\ calls[t].op \in {"close", "data"} => calls[t].obj \in Datasets /\ InMap(calls[t].obj)
  /\ calls[t].op = "view" => calls[t].obj \in Views /\ view[calls[t].obj].mem = "live"
  /\ calls[t].op = "finalize" => t = Main
  /\ calls[t].new # Null => Pc(t, "open", "register") \/ Pc(t, "data", "count")
  /\ Pc(t, "open", "register") =>
       /\ calls[t].new \in Datasets /\ ds[calls[t].new].mem = "live"
       /\ ds[calls[t].new].core = calls[t].obj
  /\ Pc(t, "data", "count") =>
       /\ calls[t].new \in Views /\ view[calls[t].new].mem = "live"
       /\ view[calls[t].new].ds = calls[t].obj
CallsInv == \A t \in Threads : CallOK(t)

\* What is in the maps is allocated, and what is allocated is in the maps but for a
\* dataset on its way there.
MapsLive ==
  \A c \in Cores : \A d \in core[c].datasets : ds[d].core = c /\ ds[d].mem = "live"
MapsEmpty == \A c \in Cores : core[c].mem # "live" => core[c].datasets = {}
LiveMapped ==
  \A d \in Datasets : ds[d].mem = "live" => InMap(d) \/ \E t \in Threads : calls[t].new = d
ViewsMapped ==
  \A v \in Views :
    view[v].mem = "live" => /\ view[v].ds \in Datasets /\ InMap(view[v].ds)
                            /\ ds[view[v].ds].core = view[v].core
TasksMapped == \A d \in running : InMap(d)

MapsInv == MapsLive /\ MapsEmpty /\ LiveMapped /\ ViewsMapped /\ TasksMapped

\* Nobody else uses an object whose handle is not handed out, or a view.
Exclusive ==
  /\ \A t, u \in Threads : calls[t].new # Null /\ calls[t].new = calls[u].new => t = u
  /\ \A t, u \in Threads : calls[t].new # Null => calls[u].obj # calls[t].new
  /\ \A t, u \in Threads : calls[t].op = "view" /\ calls[u].obj = calls[t].obj => t = u

\* amio_finalize is alone with its core, and how far it has got.
Finalizing(t, c) == calls[t].op = "finalize" /\ calls[t].obj = c

AloneWithCore ==
  \A t \in Threads, c \in Cores :
    Finalizing(t, c) =>
      /\ \A u \in Threads : calls[u].op = "open" => calls[u].obj # c
      /\ \A u \in Threads : calls[u].op \in {"close", "data"} => ds[calls[u].obj].core # c
      /\ \A v \in Views : view[v].mem = "live" => view[v].core # c
TasksJoined ==
  \A t \in Threads, c \in Cores :
    Finalizing(t, c) /\ calls[t].pc \in {"sweep", "handle"} => \A d \in running : ds[d].core # c
MapCleared ==
  \A t \in Threads, c \in Cores :
    Finalizing(t, c) /\ calls[t].pc = "handle" => core[c].datasets = {}
SweptReleased ==
  \A t \in Threads : \A d \in calls[t].swept :
    ds[d].mem # "unborn" /\ \A h \in handles : h.payload # d

FinalInv == AloneWithCore /\ TasksJoined /\ MapCleared /\ SweptReleased

\* Handles and allocated objects, kind by kind.
HandlesOfObjects ==
  \A h \in handles :
    \/ /\ h.kind = "Core" /\ h.payload \in Cores
       /\ core[h.payload].mem = "live" /\ core[h.payload].token = h.token
    \/ /\ h.kind = "Dataset" /\ h.payload \in Datasets
       /\ ds[h.payload].mem = "live" /\ ds[h.payload].token = h.token
    \/ /\ h.kind = "View" /\ h.payload \in Views
       /\ view[h.payload].mem = "live" /\ view[h.payload].token = h.token
CoresHaveHandles == \A c \in Cores : core[c].mem = "live" => \E h \in handles : h.payload = c
ViewsHaveHandles == \A v \in Views : view[v].mem = "live" => \E h \in handles : h.payload = v
DatasetsHadHandles ==
  \A d \in Datasets :
    ds[d].mem = "live" => \/ \E h \in handles : h.payload = d
                          \/ \E r \in stale : r.token = ds[d].token

HandlesInv == HandlesOfObjects /\ CoresHaveHandles /\ ViewsHaveHandles /\ DatasetsHadHandles

Inv ==
  /\ TableInv /\ Typed /\ CallsInv /\ MapsInv /\ Exclusive /\ FinalInv /\ HandlesInv
  /\ ViewsCounted /\ NoWrappedConfig

\* No object is of two sorts, and Null is none.
LEMMA Sorts ==
  /\ Null \notin Cores /\ Null \notin Datasets /\ Null \notin Views
  /\ \A o \in Cores : o \notin Datasets /\ o \notin Views
  /\ \A o \in Datasets : o \notin Cores /\ o \notin Views
  /\ \A o \in Views : o \notin Cores /\ o \notin Datasets
BY LifecycleAssumption DEF Objects

-----------------------------------------------------------------------------
(* The handle table.                                                       *)

\* The table of this process keeps the assumptions of HandleTable.
LEMMA TableAssumption == HP!HandleAssumption
BY LifecycleAssumption DEF HP!HandleAssumption

\* What insert and release do to the handles.
LEMMA InsertEffect ==
  ASSUME NEW k, NEW o, H!Insert(k, o)
  PROVE  /\ handles' = handles \cup {[token |-> Minted, kind |-> k, payload |-> o]}
         /\ stale' = stale /\ releases' = releases
BY DEF H!Insert, Minted

\* What release does to the handles and the stale tokens.
LEMMA ReleaseEffect ==
  ASSUME NEW token, NEW k, H!Release(token, k)
  PROVE  /\ H!Resolves(token, k)
         /\ handles' = {h \in handles : h.token # token}
         /\ stale' = stale \cup {[token |-> token, since |-> releases[H!UnpackSlot(token)] + 1]}
         /\ releases[H!UnpackSlot(token)] < MaxObjects
         /\ releases' = [releases EXCEPT ![H!UnpackSlot(token)] = @ + 1]
BY DEF H!Release

\* Steps of the table keep its invariant.
LEMMA InsertTable ==
  ASSUME TableInv, NEW k \in {"Core", "Dataset", "View"}, NEW o \in Objects, H!Insert(k, o)
  PROVE  TableInv' /\ Minted \in H!Tokens
<1>1. HP!Next
  BY DEF HP!Next, HP!Insert, H!Insert, HP!ChosenSlot, H!ChosenSlot, HP!Pack, H!Pack
<1>2. HP!Inv'
  BY <1>1, HP!NextKeeps, TableAssumption DEF TableInv
<1>3. [token |-> Minted, kind |-> k, payload |-> o] \in handles'
  BY InsertEffect
<1>4. handles' \subseteq
        [token : HP!Tokens \ {0}, kind : {"Core", "Dataset", "View"}, payload : Objects]
  BY <1>2 DEF HP!Inv, HP!TypeOK
<1>5. Minted \in HP!Tokens
  BY <1>3, <1>4
<1>6. QED
  BY <1>2, <1>5, InsertEffect DEF TableInv, HP!Tokens, H!Tokens

\* release keeps the invariant of the table.
LEMMA ReleaseTable ==
  ASSUME TableInv, NEW token \in H!Tokens, NEW k \in {"Core", "Dataset", "View"},
         H!Release(token, k)
  PROVE  TableInv'
<1>1. HP!Next
  BY DEF HP!Next, HP!Release, H!Release, HP!Tokens, H!Tokens, HP!UnpackSlot, H!UnpackSlot,
     HP!UnpackGeneration, H!UnpackGeneration, HP!Resolves, H!Resolves, HP!ClearLive, H!ClearLive,
     HP!NextGeneration, H!NextGeneration, HP!kMinGeneration, H!kMinGeneration
<1>2. HP!Inv'
  BY <1>1, HP!NextKeeps, TableAssumption DEF TableInv
<1>3. releases \in [H!SlotIndex -> Nat]
  BY DEF TableInv, HP!Inv, HP!TypeOK, HP!SlotIndex, H!SlotIndex
<1> DEFINE s == H!UnpackSlot(token)
<1>4. /\ releases[s] < MaxObjects /\ releases' = [releases EXCEPT ![s] = @ + 1]
      /\ stale' = stale \cup {[token |-> token, since |-> releases[s] + 1]}
  BY ReleaseEffect
<1>5. s \in H!SlotIndex
  <2>1. s \in Nat
    BY HP!UnpackParts, TableAssumption DEF HP!UnpackSlot, H!UnpackSlot, HP!Tokens, H!Tokens
  <2>2. s < count /\ count \in 0 .. MaxObjects
    BY ReleaseEffect DEF H!Resolves, TableInv, HP!Inv, HP!TypeOK
  <2> HIDE DEF s
  <2>3. QED
    BY <2>1, <2>2, LifecycleAssumption DEF H!SlotIndex
<1> HIDE DEF s
<1>6. releases[s] \in Nat
  BY <1>3, <1>5
<1>7. \A i \in H!SlotIndex : releases'[i] <= MaxObjects
  BY <1>3, <1>4, <1>5, <1>6, LifecycleAssumption DEF TableInv
<1>8. \A r \in stale' : r.since >= 1
  BY <1>4, <1>6 DEF TableInv
<1>9. QED
  BY <1>2, <1>7, <1>8 DEF TableInv, H!SlotIndex

\* A step that leaves the table alone.
LEMMA IdleTable ==
  ASSUME TableInv, UNCHANGED table
  PROVE  TableInv'
<1>1. UNCHANGED HP!vars
  BY DEF table, HP!vars, HP!slotVars
<1>2. HP!Inv'
  BY <1>1, HP!NextKeeps, TableAssumption DEF TableInv
<1>3. QED
  BY <1>2 DEF TableInv, table, H!SlotIndex

\* Handles resolve to their objects and no two share a token.
LEMMA HandleFacts ==
  ASSUME TableInv, NEW h \in handles
  PROVE  /\ H!Resolves(h.token, h.kind) /\ H!Lookup(h.token, h.kind) = h.payload
         /\ h.kind \in {"Core", "Dataset", "View"} /\ h.payload \in Objects
         /\ \A k \in {"Core", "Dataset", "View"} : H!Resolves(h.token, k) => k = h.kind
         /\ \A g \in handles : g.token = h.token => g = h
<1>1. HP!HandlesResolve
  BY HP!InvResolves, TableAssumption DEF TableInv
<1>2. handles \subseteq
        [token : HP!Tokens \ {0}, kind : {"Core", "Dataset", "View"}, payload : Objects]
  BY DEF TableInv, HP!Inv, HP!TypeOK
<1>3. Null \notin Objects
  BY LifecycleAssumption
<1>4. /\ \A token, k : H!Resolves(token, k) <=> HP!Resolves(token, k)
      /\ \A token, k : H!Lookup(token, k) = HP!Lookup(token, k)
  BY DEF HP!Lookup, H!Lookup, HP!UnpackSlot, H!UnpackSlot, HP!Resolves, H!Resolves,
     HP!UnpackGeneration, H!UnpackGeneration
<1>5. HP!Lookup(h.token, h.kind) = h.payload
  BY <1>1 DEF HP!HandlesResolve
<1>6. HP!Resolves(h.token, h.kind)
  BY <1>2, <1>3, <1>5 DEF HP!Lookup
<1>7. \A k \in {"Core", "Dataset", "View"} : HP!Resolves(h.token, k) => k = h.kind
  BY <1>1 DEF HP!HandlesResolve
<1>8. \A g \in handles : g.token = h.token => g = h
  BY <1>1 DEF HP!HandlesResolve
<1>9. QED
  BY <1>2, <1>4, <1>5, <1>6, <1>7, <1>8

\* A stale token does not resolve.
LEMMA StaleFacts ==
  ASSUME TableInv, NEW r \in stale, NEW k \in {"Core", "Dataset", "View"}
  PROVE  ~H!Resolves(r.token, k)
<1>1. HP!StaleRejected
  BY HP!InvRejects, TableAssumption DEF TableInv
<1> DEFINE s == HP!UnpackSlot(r.token)
<1>2. s \in HP!SlotIndex /\ r.since \in Nat /\ releases[s] \in Nat
  BY DEF TableInv, HP!Inv, HP!StaleInv, HP!TypeOK
<1>3. releases[s] <= MaxObjects /\ r.since >= 1
  BY <1>2 DEF TableInv, HP!SlotIndex, H!SlotIndex
<1>4. ~HP!Resolves(r.token, k)
  <2>1. releases[s] - r.since < MaxObjects + 2 - 2
    BY <1>2, <1>3, LifecycleAssumption
  <2>2. releases[s] - r.since < (MaxObjects + 2) - 2 => ~HP!Resolves(r.token, k)
    BY <1>1, Zenon DEF HP!StaleRejected
  <2> HIDE DEF s
  <2>3. QED
    BY <1>2, <2>1, <2>2, LifecycleAssumption
<1>5. QED
  BY <1>4 DEF HP!Resolves, H!Resolves, HP!UnpackSlot, H!UnpackSlot, HP!UnpackGeneration,
     H!UnpackGeneration

\* kind_dispatch finds an object whose handle the host was given.
LEMMA DispatchFinds ==
  ASSUME TableInv, NEW op \in DOMAIN Entry, NEW token \in Known, H!Resolves(token, Entry[op])
  PROVE  \E h \in handles :
           /\ h.token = token /\ h.kind = Entry[op] /\ h.payload = H!Lookup(token, Entry[op])
           /\ \A t \in Threads : calls[t].new # h.payload
<1>1. Entry[op] \in {"Core", "Dataset", "View"}
  BY DEF Entry
<1>2. \A r \in stale : r.token # token
  BY <1>1, StaleFacts
<1>3. PICK h \in handles : h.token = token /\ \A t \in Threads : calls[t].new # h.payload
  BY <1>2 DEF Known
<1>4. QED
  BY <1>1, <1>3, HandleFacts

-----------------------------------------------------------------------------
(* The fields of the records that the other proofs speak of.               *)

\* A record that a step leaves alone.
SameCore(c) ==
  /\ core'[c].mem = core[c].mem /\ core'[c].token = core[c].token
  /\ core'[c].datasets = core[c].datasets
  /\ core'[c].manifest = core[c].manifest /\ core'[c].cfg = core[c].cfg
SameDs(d) ==
  /\ ds'[d].mem = ds[d].mem /\ ds'[d].token = ds[d].token
  /\ ds'[d].core = ds[d].core /\ ds'[d].views = ds[d].views
SameView(v) ==
  /\ view'[v].mem = view[v].mem /\ view'[v].token = view[v].token
  /\ view'[v].core = view[v].core /\ view'[v].ds = view[v].ds
SameCall(t) ==
  /\ calls'[t].op = calls[t].op /\ calls'[t].pc = calls[t].pc /\ calls'[t].obj = calls[t].obj
  /\ calls'[t].new = calls[t].new /\ calls'[t].swept = calls[t].swept

\* What the types say of single fields.
LEMMA FlatTypes ==
  ASSUME Typed
  PROVE  /\ \A c \in Cores : core[c].mem \in Mems /\ core[c].datasets \subseteq Datasets
                             /\ core[c].token \in H!Tokens
         /\ \A d \in Datasets : ds[d].mem \in Mems /\ ds[d].core \in Cores \cup {Null}
                                /\ ds[d].token \in H!Tokens /\ ds[d].views \in Int
         /\ \A v \in Views : view[v].mem \in Mems /\ view[v].core \in Cores \cup {Null}
                             /\ view[v].ds \in Datasets \cup {Null} /\ view[v].token \in H!Tokens
         /\ running \subseteq Datasets
         /\ \A t \in Threads : calls[t].op \in Ops /\ calls[t].swept \subseteq Datasets
                               /\ calls[t].new \in Datasets \cup Views \cup {Null}
                               /\ calls[t].obj \in Objects \cup {Null}
<1>1. \A c \in Cores : core[c] \in CoreRec
  BY DEF Typed
<1>2. \A d \in Datasets : ds[d] \in DsRec
  BY DEF Typed
<1>3. \A v \in Views : view[v] \in ViewRec
  BY DEF Typed
<1>4. \A t \in Threads : calls[t] \in CallRec
  BY DEF Typed
<1>5. running \subseteq Datasets
  BY DEF Typed
<1>6. \A r \in CoreRec : r.mem \in Mems /\ r.datasets \subseteq Datasets /\ r.token \in H!Tokens
  BY DEF CoreRec
<1>7. \A r \in DsRec : r.mem \in Mems /\ r.core \in Cores \cup {Null} /\ r.token \in H!Tokens
                       /\ r.views \in Int
  BY DEF DsRec
<1>8. \A r \in ViewRec : r.mem \in Mems /\ r.core \in Cores \cup {Null}
                         /\ r.ds \in Datasets \cup {Null} /\ r.token \in H!Tokens
  BY DEF ViewRec
<1>9. \A r \in CallRec : r.op \in Ops /\ r.swept \subseteq Datasets
                         /\ r.new \in Datasets \cup Views \cup {Null} /\ r.obj \in Objects \cup {Null}
  BY DEF CallRec
<1>10. QED
  BY <1>1, <1>2, <1>3, <1>4, <1>5, <1>6, <1>7, <1>8, <1>9

\* The call of t is another one: IdleCall, or one just dispatched, or goes on.
LEMMA CallChanges ==
  ASSUME calls \in [Threads -> CallRec], NEW t \in Threads, NEW k \in CallRec,
         calls' = [calls EXCEPT ![t] = k]
  PROVE  /\ calls' \in [Threads -> CallRec]
         /\ \A u \in Threads \ {t} : SameCall(u)
         /\ calls'[t] = k
BY DEF SameCall

\* The call returns.
LEMMA ReturnEffect ==
  ASSUME Typed, NEW t \in Threads, Return(t)
  PROVE  /\ calls' \in [Threads -> CallRec]
         /\ \A u \in Threads \ {t} : SameCall(u)
         /\ calls'[t].op = "idle" /\ calls'[t].obj = Null
         /\ calls'[t].new = Null /\ calls'[t].swept = {}
<1>1. IdleCall \in CallRec
  BY DEF IdleCall, CallRec, Ops, Pcs
<1>2. /\ calls' \in [Threads -> CallRec] /\ calls'[t] = IdleCall
      /\ \A u \in Threads \ {t} : SameCall(u)
  BY <1>1, CallChanges DEF Typed, Return
<1>3. /\ IdleCall.op = "idle" /\ IdleCall.obj = Null
      /\ IdleCall.new = Null /\ IdleCall.swept = {}
  BY DEF IdleCall
<1>4. QED
  BY <1>2, <1>3

\* The call goes on.
LEMMA GotoEffect ==
  ASSUME Typed, NEW t \in Threads, NEW p \in Pcs, Goto(t, p)
  PROVE  /\ calls' \in [Threads -> CallRec]
         /\ \A u \in Threads \ {t} : SameCall(u)
         /\ calls'[t].op = calls[t].op /\ calls'[t].pc = p /\ calls'[t].obj = calls[t].obj
         /\ calls'[t].new = calls[t].new /\ calls'[t].swept = calls[t].swept
<1> DEFINE k == [calls[t] EXCEPT !.pc = p]
<1>1. calls[t] \in CallRec
  BY DEF Typed
<1>2. /\ k \in CallRec /\ k.op = calls[t].op /\ k.pc = p /\ k.obj = calls[t].obj
      /\ k.new = calls[t].new /\ k.swept = calls[t].swept
  BY <1>1 DEF CallRec
<1>3. calls' = [calls EXCEPT ![t] = k]
  BY DEF Goto, Typed
<1> HIDE DEF k
<1>4. /\ calls' \in [Threads -> CallRec] /\ calls'[t] = k
      /\ \A u \in Threads \ {t} : SameCall(u)
  BY <1>2, <1>3, CallChanges DEF Typed
<1>5. QED
  BY <1>2, <1>4

\* A call is dispatched.
LEMMA DispatchEffect ==
  ASSUME Typed, NEW t \in Threads, NEW op \in Ops, NEW o \in Objects,
         calls' = [calls EXCEPT ![t] = [IdleCall EXCEPT !.op = op, !.pc = "begin", !.obj = o]]
  PROVE  /\ calls' \in [Threads -> CallRec]
         /\ \A u \in Threads \ {t} : SameCall(u)
         /\ calls'[t].op = op /\ calls'[t].pc = "begin" /\ calls'[t].obj = o
         /\ calls'[t].new = Null /\ calls'[t].swept = {}
<1> DEFINE k == [IdleCall EXCEPT !.op = op, !.pc = "begin", !.obj = o]
<1>1. /\ k \in CallRec /\ k.op = op /\ k.pc = "begin" /\ k.obj = o
      /\ k.new = Null /\ k.swept = {}
  BY DEF CallRec, IdleCall, Pcs
<1> HIDE DEF k
<1>2. /\ calls' \in [Threads -> CallRec] /\ calls'[t] = k
      /\ \A u \in Threads \ {t} : SameCall(u)
  BY <1>1, CallChanges DEF Typed, k
<1>3. QED
  BY <1>1, <1>2

\* A call has made a dataset or a view.
LEMMA MadeEffect ==
  ASSUME Typed, NEW t \in Threads, NEW o \in Datasets \cup Views, NEW p \in Pcs,
         calls' = [calls EXCEPT ![t].new = o, ![t].pc = p]
  PROVE  /\ calls' \in [Threads -> CallRec]
         /\ \A u \in Threads \ {t} : SameCall(u)
         /\ calls'[t].op = calls[t].op /\ calls'[t].pc = p /\ calls'[t].obj = calls[t].obj
         /\ calls'[t].new = o /\ calls'[t].swept = calls[t].swept
<1> DEFINE k == [calls[t] EXCEPT !.new = o, !.pc = p]
<1>1. calls[t] \in CallRec
  BY DEF Typed
<1>2. /\ k \in CallRec /\ k.op = calls[t].op /\ k.pc = p /\ k.obj = calls[t].obj
      /\ k.new = o /\ k.swept = calls[t].swept
  BY <1>1 DEF CallRec
<1>3. calls' = [calls EXCEPT ![t] = k]
  BY DEF Typed
<1> HIDE DEF k
<1>4. /\ calls' \in [Threads -> CallRec] /\ calls'[t] = k
      /\ \A u \in Threads \ {t} : SameCall(u)
  BY <1>2, <1>3, CallChanges DEF Typed
<1>5. QED
  BY <1>2, <1>4

\* amio_finalize is done with one dataset.
LEMMA SweptEffect ==
  ASSUME Typed, NEW t \in Threads, NEW d \in Datasets,
         calls' = [calls EXCEPT ![t].swept = @ \cup {d}]
  PROVE  /\ calls' \in [Threads -> CallRec]
         /\ \A u \in Threads \ {t} : SameCall(u)
         /\ calls'[t].op = calls[t].op /\ calls'[t].pc = calls[t].pc
         /\ calls'[t].obj = calls[t].obj /\ calls'[t].new = calls[t].new
         /\ calls'[t].swept = calls[t].swept \cup {d}
<1> DEFINE k == [calls[t] EXCEPT !.swept = @ \cup {d}]
<1>1. calls[t] \in CallRec
  BY DEF Typed
<1>2. /\ k \in CallRec /\ k.op = calls[t].op /\ k.pc = calls[t].pc /\ k.obj = calls[t].obj
      /\ k.new = calls[t].new /\ k.swept = calls[t].swept \cup {d}
  BY <1>1 DEF CallRec
<1>3. calls' = [calls EXCEPT ![t] = k]
  BY DEF Typed
<1> HIDE DEF k
<1>4. /\ calls' \in [Threads -> CallRec] /\ calls'[t] = k
      /\ \A u \in Threads \ {t} : SameCall(u)
  BY <1>2, <1>3, CallChanges DEF Typed
<1>5. QED
  BY <1>2, <1>4

\* A queue or a driver changes, which the other proofs do not speak of.
LEMMA QueueEffect ==
  ASSUME Typed, NEW d \in Datasets, NEW q \in {"none", "active", "cancelled"},
         ds' = [ds EXCEPT ![d].queue = q]
  PROVE  ds' \in [Datasets -> DsRec] /\ \A e \in Datasets : SameDs(e)
<1> DEFINE k == [ds[d] EXCEPT !.queue = q]
<1>1. ds[d] \in DsRec
  BY DEF Typed
<1>2. /\ k \in DsRec /\ k.mem = ds[d].mem /\ k.token = ds[d].token
      /\ k.core = ds[d].core /\ k.views = ds[d].views
  BY <1>1 DEF DsRec
<1>3. ds' = [ds EXCEPT ![d] = k]
  BY DEF Typed
<1> HIDE DEF k
<1>4. QED
  BY <1>2, <1>3 DEF Typed, SameDs

\* A driver is closed, or fails to.
LEMMA DriverEffect ==
  ASSUME Typed, NEW d \in Datasets, NEW to \in {"open", "closed"},
         ds' = [ds EXCEPT ![d].driver = to]
  PROVE  ds' \in [Datasets -> DsRec] /\ \A e \in Datasets : SameDs(e)
<1> DEFINE k == [ds[d] EXCEPT !.driver = to]
<1>1. ds[d] \in DsRec
  BY DEF Typed
<1>2. /\ k \in DsRec /\ k.mem = ds[d].mem /\ k.token = ds[d].token
      /\ k.core = ds[d].core /\ k.views = ds[d].views
  BY <1>1 DEF DsRec
<1>3. ds' = [ds EXCEPT ![d] = k]
  BY DEF Typed
<1> HIDE DEF k
<1>4. QED
  BY <1>2, <1>3 DEF Typed, SameDs

\* The count of views changes.
LEMMA CountEffect ==
  ASSUME Typed, NEW d \in Datasets, NEW n \in Int, ds' = [ds EXCEPT ![d].views = n]
  PROVE  /\ ds' \in [Datasets -> DsRec]
         /\ \A e \in Datasets \ {d} : SameDs(e)
         /\ ds'[d].mem = ds[d].mem /\ ds'[d].token = ds[d].token
         /\ ds'[d].core = ds[d].core /\ ds'[d].views = n
<1> DEFINE k == [ds[d] EXCEPT !.views = n]
<1>1. ds[d] \in DsRec
  BY DEF Typed
<1>2. /\ k \in DsRec /\ k.mem = ds[d].mem /\ k.token = ds[d].token
      /\ k.core = ds[d].core /\ k.views = n
  BY <1>1 DEF DsRec
<1>3. ds' = [ds EXCEPT ![d] = k]
  BY DEF Typed
<1> HIDE DEF k
<1>4. QED
  BY <1>2, <1>3 DEF Typed, SameDs

\* The map of a core changes.
LEMMA MapEffect ==
  ASSUME Typed, NEW c \in Cores, NEW D \in SUBSET Datasets,
         core' = [core EXCEPT ![c].datasets = D]
  PROVE  /\ core' \in [Cores -> CoreRec]
         /\ \A e \in Cores \ {c} : SameCore(e)
         /\ core'[c].mem = core[c].mem /\ core'[c].token = core[c].token
         /\ core'[c].datasets = D
         /\ core'[c].manifest = core[c].manifest /\ core'[c].cfg = core[c].cfg
<1> DEFINE k == [core[c] EXCEPT !.datasets = D]
<1>1. core[c] \in CoreRec
  BY DEF Typed
<1>2. /\ k \in CoreRec /\ k.mem = core[c].mem /\ k.token = core[c].token /\ k.datasets = D
      /\ k.manifest = core[c].manifest /\ k.cfg = core[c].cfg
  BY <1>1 DEF CoreRec
<1>3. core' = [core EXCEPT ![c] = k]
  BY DEF Typed
<1> HIDE DEF k
<1>4. QED
  BY <1>2, <1>3 DEF Typed, SameCore

-----------------------------------------------------------------------------
(* The count of views and the configurations.                              *)

Counted(d) == {v \in Views : view[v].mem = "live" /\ view[v].ds = d /\ ~BeingCounted(v)}

\* There are finitely many views to count.
LEMMA CountedFinite ==
  ASSUME NEW d
  PROVE  IsFiniteSet(Counted(d)) /\ Cardinality(Counted(d)) \in Nat
BY LifecycleAssumption, FS_Subset, FS_CardinalityType DEF Counted

\* A step that neither counts a view nor changes which views are to be counted.
LEMMA ViewsUntouched ==
  ASSUME ViewsCounted,
         \A d \in Datasets : ds'[d].mem = "live" =>
           \/ ds[d].mem = "live" /\ ds'[d].views = ds[d].views
           \/ ds'[d].views = 0 /\ \A v \in Views : view[v].mem = "live" => view[v].ds # d,
         \A v \in Views : view'[v].mem = "live" /\ ~BeingCounted(v)'
                            <=> view[v].mem = "live" /\ ~BeingCounted(v),
         \A v \in Views : view'[v].mem = "live" /\ view[v].mem = "live" => view'[v].ds = view[v].ds
  PROVE  ViewsCounted'
<1>1. ASSUME NEW d \in Datasets PROVE Counted(d)' = Counted(d)
  BY DEF Counted
<1>2. ASSUME NEW d \in Datasets, ds'[d].mem = "live" PROVE ds'[d].views = Cardinality(Counted(d)')
  <2>1. CASE ds[d].mem = "live" /\ ds'[d].views = ds[d].views
    BY <1>1, <2>1 DEF ViewsCounted, Counted
  <2>2. CASE ds'[d].views = 0 /\ \A v \in Views : view[v].mem = "live" => view[v].ds # d
    <3>1. Counted(d) = {}
      BY <2>2 DEF Counted
    <3>2. QED
      BY <1>1, <2>2, <3>1, FS_EmptySet
  <2>3. QED
    BY <1>2, <2>1, <2>2
<1>3. QED
  BY <1>2 DEF ViewsCounted, Counted

\* A step that makes no core.
LEMMA ConfUntouched ==
  ASSUME NoWrappedConfig,
         \A c \in Cores : core'[c].mem = "live" =>
           /\ core[c].mem = "live" /\ core'[c].manifest = core[c].manifest
           /\ core'[c].cfg = core[c].cfg
  PROVE  NoWrappedConfig'
BY DEF NoWrappedConfig

-----------------------------------------------------------------------------
(* One lemma per action, or per group of actions with the same effect.     *)

\* A call that made nothing returns; its task, if it left one, holds its dataset.
LEMMA QuietReturn ==
  ASSUME Inv, NEW t \in Threads, UNCHANGED <<table, core, view>>, Return(t),
         ds' \in [Datasets -> DsRec], \A d \in Datasets : SameDs(d),
         calls[t].new = Null, ~Pc(t, "view", "handle"),
         \/ running' = running
         \/ calls[t].op = "data" /\ running' = running \cup {calls[t].obj}
  PROVE  Inv'
<1> USE DEF Inv
<1>1. TableInv'
  BY IdleTable
<1>2. /\ \A u \in Threads \ {t} : SameCall(u)
      /\ calls'[t].op = "idle" /\ calls'[t].obj = Null
      /\ calls'[t].new = Null /\ calls'[t].swept = {}
  BY ReturnEffect
<1>3. Typed'
  BY ReturnEffect DEF Typed, CallsInv, CallOK
<1>4. handles' = handles /\ stale' = stale /\ core' = core /\ view' = view
  BY DEF table
<1>5. CallsInv'
  BY <1>2, <1>4 DEF CallsInv, CallOK, SameCall, SameDs, InMap, Pc
<1>6. MapsInv'
  <2>1. MapsLive' /\ MapsEmpty'
    BY <1>4, FlatTypes DEF MapsInv, MapsLive, MapsEmpty, SameDs
  <2>2. LiveMapped'
    BY <1>2, <1>4, Sorts DEF MapsInv, LiveMapped, SameDs, SameCall, InMap
  <2>3. ViewsMapped'
    BY <1>4 DEF MapsInv, ViewsMapped, SameDs, InMap
  <2>4. TasksMapped'
    BY <1>4, FlatTypes DEF CallsInv, CallOK, MapsInv, TasksMapped, SameDs, InMap
  <2>5. QED
    BY <2>1, <2>2, <2>3, <2>4 DEF MapsInv
<1>7. Exclusive'
  BY <1>2, Sorts DEF CallsInv, CallOK, Exclusive, SameCall
<1>8. FinalInv'
  <2>1. AloneWithCore'
    BY <1>2, <1>4 DEF CallsInv, CallOK, FinalInv, AloneWithCore, Finalizing, SameCall, SameDs
  <2>2. TasksJoined'
    BY <1>2, <1>4, FlatTypes
    DEF CallsInv, CallOK, FinalInv, AloneWithCore, TasksJoined, Finalizing, SameCall, SameDs
  <2>3. MapCleared'
    BY <1>2, <1>4, FlatTypes DEF FinalInv, MapCleared, Finalizing, SameCall
  <2>4. SweptReleased'
    BY <1>2, <1>4, FlatTypes DEF FinalInv, SweptReleased, SameCall, SameDs
  <2>5. QED
    BY <2>1, <2>2, <2>3, <2>4 DEF FinalInv
<1>9. HandlesInv'
  BY <1>4 DEF HandlesInv, HandlesOfObjects, CoresHaveHandles, ViewsHaveHandles,
     DatasetsHadHandles, SameDs
<1>10. ViewsCounted'
  <2>1. \A v \in Views : BeingCounted(v)' <=> BeingCounted(v)
    BY <1>2, LifecycleAssumption DEF BeingCounted, Pc, SameCall, Objects
  <2>2. QED
    BY <2>1, ViewsUntouched DEF SameDs
<1>11. NoWrappedConfig'
  BY ConfUntouched
<1>12. QED
  BY <1>1, <1>3, <1>5, <1>6, <1>7, <1>8, <1>9, <1>10, <1>11

\* A read, a description or a close goes on.
LEMMA QuietGoto ==
  ASSUME Inv, NEW t \in Threads, UNCHANGED <<table, core, view>>,
         NEW p \in {"get_buffer", "cancel", "driver", "handle"}, Goto(t, p),
         ds' \in [Datasets -> DsRec], \A d \in Datasets : SameDs(d),
         calls[t].op \in {"data", "close"}, calls[t].new = Null,
         \/ running' = running
         \/ calls[t].op = "data" /\ running' = running \cup {calls[t].obj}
  PROVE  Inv'
<1> USE DEF Inv
<1>1. TableInv'
  BY IdleTable
<1>2. /\ calls' \in [Threads -> CallRec]
      /\ \A u \in Threads \ {t} : SameCall(u)
      /\ calls'[t].op = calls[t].op /\ calls'[t].pc = p /\ calls'[t].obj = calls[t].obj
      /\ calls'[t].new = calls[t].new /\ calls'[t].swept = calls[t].swept
  BY GotoEffect DEF Pcs
<1>3. Typed'
  BY <1>2 DEF Typed, CallsInv, CallOK
<1>4. handles' = handles /\ stale' = stale /\ core' = core /\ view' = view
  BY DEF table
<1>5. CallsInv'
  BY <1>2, <1>4 DEF CallsInv, CallOK, SameCall, SameDs, InMap, Pc
<1>6. MapsInv'
  <2>1. MapsLive' /\ MapsEmpty'
    BY <1>4, FlatTypes DEF MapsInv, MapsLive, MapsEmpty, SameDs
  <2>2. LiveMapped'
    BY <1>2, <1>4, Sorts DEF MapsInv, LiveMapped, SameDs, SameCall, InMap
  <2>3. ViewsMapped'
    BY <1>4 DEF MapsInv, ViewsMapped, SameDs, InMap
  <2>4. TasksMapped'
    BY <1>4, FlatTypes DEF CallsInv, CallOK, MapsInv, TasksMapped, SameDs, InMap
  <2>5. QED
    BY <2>1, <2>2, <2>3, <2>4 DEF MapsInv
<1>7. Exclusive'
  BY <1>2, Sorts DEF CallsInv, CallOK, Exclusive, SameCall
<1>8. FinalInv'
  <2>1. AloneWithCore'
    BY <1>2, <1>4 DEF CallsInv, CallOK, FinalInv, AloneWithCore, Finalizing, SameCall, SameDs
  <2>2. TasksJoined'
    BY <1>2, <1>4, FlatTypes
    DEF CallsInv, CallOK, FinalInv, AloneWithCore, TasksJoined, Finalizing, SameCall, SameDs
  <2>3. MapCleared'
    BY <1>2, <1>4, FlatTypes DEF FinalInv, MapCleared, Finalizing, SameCall
  <2>4. SweptReleased'
    BY <1>2, <1>4, FlatTypes DEF FinalInv, SweptReleased, SameCall, SameDs
  <2>5. QED
    BY <2>1, <2>2, <2>3, <2>4 DEF FinalInv
<1>9. HandlesInv'
  BY <1>4 DEF HandlesInv, HandlesOfObjects, CoresHaveHandles, ViewsHaveHandles,
     DatasetsHadHandles, SameDs
<1>10. ViewsCounted'
  <2>1. \A v \in Views : BeingCounted(v)' <=> BeingCounted(v)
    BY <1>2 DEF BeingCounted, Pc, SameCall
  <2>2. QED
    BY <2>1, ViewsUntouched DEF SameDs
<1>11. NoWrappedConfig'
  BY ConfUntouched
<1>12. QED
  BY <1>1, <1>3, <1>5, <1>6, <1>7, <1>8, <1>9, <1>10, <1>11

\* The actions of the two groups.
LEMMA QuietActions ==
  ASSUME Inv, NEW t \in Threads,
         \/ OpenFails(t) \/ Resolve(t) \/ QueryReturns(t) \/ WriteReturns(t) \/ CloseRefused(t)
         \/ CloseGuard(t) \/ CloseCancel(t) \/ CloseDriver(t) \/ schedule_fetch(t)
  PROVE  Inv'
<1>1. Typed /\ CallsInv /\ ds \in [Datasets -> DsRec]
  BY DEF Inv, Typed
<1>2. ds' = ds => \A d \in Datasets : SameDs(d)
  BY DEF SameDs
<1>3. ~Pc(t, "open", "register") /\ ~Pc(t, "data", "count") => calls[t].new = Null
  BY <1>1 DEF CallsInv, CallOK
<1>4. CASE OpenFails(t) \/ QueryReturns(t) \/ CloseRefused(t) \/ WriteReturns(t)
  <2>1. /\ calls[t].new = Null /\ ~Pc(t, "view", "handle") /\ Return(t)
        /\ UNCHANGED <<table, core, ds, view>>
        /\ running' = running \/ (calls[t].op = "data" /\ running' = running \cup {calls[t].obj})
    BY <1>3, <1>4 DEF OpenFails, QueryReturns, CloseRefused, WriteReturns, Pc
  <2>2. QED
    BY <1>1, <1>2, <2>1, QuietReturn
<1>5. CASE CloseGuard(t)
  <2>1. /\ calls[t].new = Null /\ calls[t].op = "close" /\ Goto(t, "cancel")
        /\ UNCHANGED <<table, core, ds, view, running>>
    BY <1>3, <1>5 DEF CloseGuard, Pc
  <2>2. QED
    BY <1>1, <1>2, <2>1, QuietGoto
<1>6. CASE CloseCancel(t)
  <2> DEFINE d == calls[t].obj
             q == IF ds[d].queue = "active" THEN "cancelled" ELSE ds[d].queue
  <2>1. /\ calls[t].new = Null /\ calls[t].op = "close" /\ Goto(t, "driver")
        /\ ds' = [ds EXCEPT ![d].queue = q] /\ UNCHANGED <<table, core, view, running>>
    BY <1>1, <1>3, <1>6 DEF CloseCancel, Pc, CallsInv, CallOK
  <2>2. d \in Datasets
    BY <1>1, <2>1 DEF CallsInv, CallOK
  <2>3. q \in {"none", "active", "cancelled"}
    BY <1>1, <2>2 DEF DsRec
  <2> HIDE DEF d, q
  <2>4. ds' \in [Datasets -> DsRec] /\ \A e \in Datasets : SameDs(e)
    BY <1>1, <2>1, <2>2, <2>3, QueueEffect
  <2>5. QED
    BY <2>1, <2>4, QuietGoto
<1>7. CASE CloseDriver(t)
  <2>1. PICK to \in {"open", "closed"} : ds' = [ds EXCEPT ![calls[t].obj].driver = to]
    BY <1>7 DEF CloseDriver
  <2>2. /\ calls[t].new = Null /\ calls[t].op = "close" /\ Goto(t, "handle")
        /\ UNCHANGED <<table, core, view, running>>
    BY <1>3, <1>7 DEF CloseDriver, Pc
  <2>3. calls[t].obj \in Datasets
    BY <1>1, <2>2 DEF CallsInv, CallOK
  <2>4. ds' \in [Datasets -> DsRec] /\ \A e \in Datasets : SameDs(e)
    BY <1>1, <2>1, <2>3, DriverEffect
  <2>5. QED
    BY <2>2, <2>4, QuietGoto
<1>8. CASE Resolve(t)
  <2>1. /\ calls[t].new = Null /\ calls[t].op = "data" /\ calls[t].pc = "begin"
        /\ resolve_variable(calls[t].obj)
        /\ Return(t) \/ Goto(t, "get_buffer")
        /\ UNCHANGED <<table, core, view, running>>
    BY <1>3, <1>8 DEF Resolve, Pc
  <2>2. calls[t].obj \in Datasets
    BY <1>1, <2>1 DEF CallsInv, CallOK
  <2>3. ds' \in [Datasets -> DsRec] /\ \A e \in Datasets : SameDs(e)
    BY <1>1, <1>2, <2>1, <2>2, QueueEffect DEF resolve_variable
  <2>4. ~Pc(t, "view", "handle")
    BY <2>1 DEF Pc
  <2>5. QED
    BY <2>1, <2>3, <2>4, QuietReturn, QuietGoto
<1>9. CASE schedule_fetch(t)
  <2>1. /\ calls[t].new = Null /\ calls[t].op = "data" /\ calls[t].pc = "get_buffer"
        /\ calls' = calls /\ running' = running \cup {calls[t].obj}
        /\ UNCHANGED <<table, core, ds, view>>
    BY <1>3, <1>9 DEF schedule_fetch, Pc
  <2>2. Goto(t, "get_buffer")
    BY <1>1, <2>1 DEF Goto, Typed, CallRec
  <2>3. QED
    BY <1>1, <1>2, <2>1, <2>2, QuietGoto
<1>10. QED
  BY <1>4, <1>5, <1>6, <1>7, <1>8, <1>9

\* static_cast<std::size_t> keeps the value of every int that comes out small.
LEMMA ToSizeSmall ==
  ASSUME NEW n \in ConfInt, 2 * ToSize(n) < WordSize
  PROVE  ToSize(n) = n
<1>1. WordSize \in Nat /\ WordSize > 0
  BY ConfigAssumption DEF kMaxStagingTimeoutMs
<1>2. WordSize \div 2 \in Nat /\ 2 * (WordSize \div 2) <= WordSize
  BY <1>1
<1>3. n \in Int /\ n >= -(WordSize \div 2) /\ n < WordSize \div 2
  BY <1>2 DEF ConfInt
<1>4. n < WordSize /\ n + WordSize >= 0
  BY <1>1, <1>2, <1>3
<1>5. CASE n >= 0
  BY <1>1, <1>3, <1>4, <1>5 DEF ToSize
<1>6. CASE n < 0
  <2>1. n % WordSize = n + WordSize
    BY <1>1, <1>3, <1>4, <1>6
  <2>2. QED
    BY <1>1, <1>2, <1>3, <2>1 DEF ToSize
<1>7. QED
  BY <1>3, <1>5, <1>6

\* A manifest that parse accepts: what its integers became on the way to Config.
LEMMA ConfigSound ==
  ASSUME NEW m \in Manifests, parse(m) = "OK"
  PROVE  LET cfg == populate_from_conf(m)
         IN  /\ \A f \in DOMAIN m.ints \ {"low_watermark", "high_watermark", "queue_capacity"} :
                  cfg[f] = m.ints[f]
             /\ 1 <= cfg.buffer_count /\ cfg.buffer_count <= cfg.max_buffer_count
             /\ cfg.threads >= 1 /\ cfg.buffer_capacity_bytes >= 1
<1> DEFINE cfg == populate_from_conf(m)
<1>1. /\ m.source \in {"ok", "missing", "malformed", "mistyped"}
      /\ DOMAIN m.ints \subseteq DOMAIN Defaults
      /\ \A f \in DOMAIN m.ints : m.ints[f] \in ConfInt
  BY ManifestAssumption
<1>2. validate(m, cfg) = "OK"
  BY <1>1 DEF parse
<1>3. InRange(cfg)
  BY <1>2 DEF validate
<1>4. \A f \in DOMAIN m.ints : cfg[f] = ToSize(m.ints[f])
  BY <1>1 DEF populate_from_conf
<1> HIDE DEF cfg
<1>5. /\ cfg.buffer_capacity_bytes \in 1 .. kMaxBufferCapacity
      /\ cfg.threads \in 1 .. kMaxThreads /\ cfg.depth \in 1 .. kMaxPrefetchDepth
      /\ cfg.read_timeout_s \in 1 .. kMaxReadTimeoutS
      /\ cfg.staging_timeout_ms \in 1 .. kMaxStagingTimeoutMs
      /\ cfg.buffer_count \in 1 .. kMaxBufferCount
      /\ cfg.max_buffer_count \in cfg.buffer_count .. kMaxBufferCount
  BY <1>3 DEF InRange, ThreadsInRange
<1>6. /\ kMaxBufferCount \in Nat /\ kMaxThreads \in Nat /\ kMaxPrefetchDepth \in Nat
      /\ kMaxReadTimeoutS \in Nat /\ kMaxStagingTimeoutMs \in Nat
      /\ kMaxBufferCount <= kMaxStagingTimeoutMs /\ kMaxThreads <= kMaxStagingTimeoutMs
      /\ kMaxPrefetchDepth <= kMaxStagingTimeoutMs /\ kMaxReadTimeoutS <= kMaxStagingTimeoutMs
  BY DEF kMaxBufferCount, kMaxThreads, kMaxPrefetchDepth, kMaxReadTimeoutS, kMaxStagingTimeoutMs
<1>7. /\ 1 <= cfg.buffer_count /\ cfg.buffer_count <= cfg.max_buffer_count
      /\ cfg.threads >= 1 /\ cfg.buffer_capacity_bytes >= 1
  BY <1>5, <1>6, ConfigAssumption
<1>8. ASSUME NEW f \in DOMAIN m.ints \ {"low_watermark", "high_watermark", "queue_capacity"}
      PROVE  cfg[f] = m.ints[f]
  <2>1. f \in {"buffer_count", "buffer_capacity_bytes", "max_buffer_count", "threads", "depth",
               "read_timeout_s", "staging_timeout_ms"}
    BY <1>1 DEF Defaults
  <2>2. cfg[f] \in 1 .. kMaxBufferCapacity \/ cfg[f] \in 1 .. kMaxStagingTimeoutMs
    BY <1>5, <1>6, <2>1, ConfigAssumption
  <2>3. cfg[f] \in Int /\ 2 * cfg[f] < WordSize
    BY <1>6, <2>2, ConfigAssumption
  <2>4. QED
    BY <1>1, <1>4, <2>3, ToSizeSmall
<1>9. QED
  BY <1>7, <1>8 DEF cfg

\* The last task of a dataset ends, or nothing happens.
LEMMA TasksKeep ==
  ASSUME Inv, UNCHANGED <<table, core, ds, view, calls>>, running' \subseteq running
  PROVE  Inv'
<1> USE DEF Inv
<1>1. TableInv'
  BY IdleTable
<1>2. handles' = handles /\ stale' = stale /\ core' = core /\ ds' = ds /\ view' = view
      /\ calls' = calls
  BY DEF table
<1>3. Typed'
  BY <1>2 DEF Typed
<1>4. CallsInv'
  BY <1>2 DEF CallsInv, CallOK, InMap, Pc
<1>5. MapsInv'
  <2>1. MapsLive'
    BY <1>2 DEF MapsInv, MapsLive
  <2>2. MapsEmpty'
    BY <1>2 DEF MapsInv, MapsEmpty
  <2>3. LiveMapped'
    BY <1>2 DEF MapsInv, LiveMapped, InMap
  <2>4. ViewsMapped'
    BY <1>2 DEF MapsInv, ViewsMapped, InMap
  <2>5. TasksMapped'
    BY <1>2 DEF MapsInv, TasksMapped, InMap
  <2>6. QED
    BY <2>1, <2>2, <2>3, <2>4, <2>5 DEF MapsInv
<1>6. Exclusive'
  BY <1>2 DEF CallsInv, CallOK, Exclusive
<1>7. FinalInv'
  <2>1. AloneWithCore'
    BY <1>2 DEF CallsInv, CallOK, FinalInv, AloneWithCore, Finalizing
  <2>2. TasksJoined'
    BY <1>2 DEF FinalInv, TasksJoined, Finalizing
  <2>3. MapCleared'
    BY <1>2 DEF FinalInv, MapCleared, Finalizing
  <2>4. SweptReleased'
    BY <1>2 DEF FinalInv, SweptReleased
  <2>5. QED
    BY <2>1, <2>2, <2>3, <2>4 DEF FinalInv
<1>8. HandlesInv'
  <2>1. HandlesOfObjects'
    BY <1>2 DEF HandlesInv, HandlesOfObjects
  <2>2. CoresHaveHandles'
    BY <1>2 DEF HandlesInv, CoresHaveHandles
  <2>3. ViewsHaveHandles'
    BY <1>2 DEF HandlesInv, ViewsHaveHandles
  <2>4. DatasetsHadHandles'
    BY <1>2 DEF HandlesInv, DatasetsHadHandles
  <2>5. QED
    BY <2>1, <2>2, <2>3, <2>4 DEF HandlesInv
<1>9. ViewsCounted'
  <2>1. \A v \in Views : BeingCounted(v)' <=> BeingCounted(v)
    BY <1>2 DEF BeingCounted, Pc
  <2>2. QED
    BY <2>1, <1>2, ViewsUntouched
<1>10. NoWrappedConfig'
  BY <1>2, ConfUntouched
<1>11. QED
  BY <1>1, <1>3, <1>4, <1>5, <1>6, <1>7, <1>8, <1>9, <1>10

\* amio_finalize has joined the workers: none of their tasks holds a dataset of the core.
LEMMA FinalizeDrainKeeps ==
  ASSUME Inv, NEW t \in Threads, FinalizeDrain(t)
  PROVE  Inv'
<1> USE DEF Inv
<1>1. TableInv'
  BY IdleTable DEF FinalizeDrain
<1>2. /\ calls[t].op = "finalize" /\ running \cap core[calls[t].obj].datasets = {}
      /\ Goto(t, "sweep") /\ core' = core /\ ds' = ds /\ view' = view /\ running' = running
      /\ handles' = handles /\ stale' = stale
  BY DEF FinalizeDrain, Pc, table
<1>3. /\ calls' \in [Threads -> CallRec]
      /\ \A u \in Threads \ {t} : SameCall(u)
      /\ calls'[t].op = calls[t].op /\ calls'[t].pc = "sweep" /\ calls'[t].obj = calls[t].obj
      /\ calls'[t].new = calls[t].new /\ calls'[t].swept = calls[t].swept
  BY <1>2, GotoEffect DEF Pcs
<1>4. Typed'
  BY <1>2, <1>3 DEF Typed
<1>5. CallsInv'
  BY <1>2, <1>3 DEF CallsInv, CallOK, InMap, Pc, SameCall
<1>6. MapsInv'
  <2>1. MapsLive'
    BY <1>2 DEF MapsInv, MapsLive
  <2>2. MapsEmpty'
    BY <1>2 DEF MapsInv, MapsEmpty
  <2>3. LiveMapped'
    BY <1>2, <1>3 DEF MapsInv, LiveMapped, InMap, SameCall
  <2>4. ViewsMapped'
    BY <1>2 DEF MapsInv, ViewsMapped, InMap
  <2>5. TasksMapped'
    BY <1>2 DEF MapsInv, TasksMapped, InMap
  <2>6. QED
    BY <2>1, <2>2, <2>3, <2>4, <2>5 DEF MapsInv
<1>7. Exclusive'
  BY <1>2, <1>3 DEF CallsInv, CallOK, Exclusive, SameCall
<1>8. FinalInv'
  <2>1. AloneWithCore'
    BY <1>2, <1>3 DEF CallsInv, CallOK, FinalInv, AloneWithCore, Finalizing, SameCall
  <2>2. TasksJoined'
    BY <1>2, <1>3, FlatTypes DEF FinalInv, TasksJoined, Finalizing, SameCall, CallsInv, CallOK,
       MapsInv, TasksMapped, InMap
  <2>3. MapCleared'
    BY <1>2, <1>3 DEF FinalInv, MapCleared, Finalizing, SameCall
  <2>4. SweptReleased'
    BY <1>2, <1>3 DEF FinalInv, SweptReleased, SameCall
  <2>5. QED
    BY <2>1, <2>2, <2>3, <2>4 DEF FinalInv
<1>9. HandlesInv'
  <2>1. HandlesOfObjects'
    BY <1>2 DEF HandlesInv, HandlesOfObjects
  <2>2. CoresHaveHandles'
    BY <1>2 DEF HandlesInv, CoresHaveHandles
  <2>3. ViewsHaveHandles'
    BY <1>2 DEF HandlesInv, ViewsHaveHandles
  <2>4. DatasetsHadHandles'
    BY <1>2 DEF HandlesInv, DatasetsHadHandles
  <2>5. QED
    BY <2>1, <2>2, <2>3, <2>4 DEF HandlesInv
<1>10. ViewsCounted'
  <2>1. \A v \in Views : BeingCounted(v)' <=> BeingCounted(v)
    BY <1>2, <1>3 DEF BeingCounted, Pc, SameCall
  <2>2. QED
    BY <2>1, <1>2, <1>3, ViewsUntouched DEF SameCall
<1>11. NoWrappedConfig'
  BY <1>2, <1>3, ConfUntouched DEF SameCall
<1>12. QED
  BY <1>1, <1>4, <1>5, <1>6, <1>7, <1>8, <1>9, <1>10, <1>11

\* amio_init makes a core with an empty map.
LEMMA amio_initKeeps ==
  ASSUME Inv, NEW c \in Cores, NEW m \in Manifests, amio_init(c, m)
  PROVE  Inv'
<1> USE DEF Inv
<1>1. H!Insert("Core", c) /\ core[c].mem = "unborn" /\ ds' = ds /\ view' = view
      /\ running' = running /\ calls' = calls /\ parse(m) = "OK"
  BY DEF amio_init, Insert
<1>2. TableInv'
  BY <1>1, InsertTable DEF Objects
<1>3. Minted \in H!Tokens
  BY <1>1, InsertTable DEF Objects
<1>4. stale' = stale
  BY <1>1, InsertEffect
<1>5. PICK n : n.token = Minted /\ n.kind = "Core" /\ n.payload = c
            /\ handles' = handles \cup {n}
  BY <1>1, InsertEffect
<1>6. /\ core' \in [Cores -> CoreRec] /\ \A e \in Cores \ {c} : SameCore(e)
      /\ core'[c].mem = "live" /\ core'[c].token = Minted /\ core'[c].datasets = {}
      /\ core'[c].manifest = m /\ core'[c].cfg = populate_from_conf(m)
  <2> DEFINE k == [mem |-> "live", token |-> Minted, datasets |-> {}, manifest |-> m,
                   cfg |-> populate_from_conf(m)]
  <2>1. k \in CoreRec
    BY <1>3 DEF CoreRec, Mems, Configs
  <2>2. /\ k.mem = "live" /\ k.token = Minted /\ k.datasets = {} /\ k.manifest = m
        /\ k.cfg = populate_from_conf(m)
    OBVIOUS
  <2>3. core' = [core EXCEPT ![c] = k]
    BY DEF amio_init
  <2> HIDE DEF k
  <2>4. QED
    BY <2>1, <2>2, <2>3 DEF Typed, SameCore
<1>7. Typed'
  BY <1>1, <1>6 DEF Typed
<1>8. CallsInv'
  BY <1>1, <1>6 DEF CallsInv, CallOK, InMap, Pc, SameCore, MapsInv, MapsEmpty
<1>9. MapsInv'
  <2>1. MapsLive'
    BY <1>1, <1>6 DEF MapsInv, MapsLive, SameCore
  <2>2. MapsEmpty'
    BY <1>1, <1>6 DEF MapsInv, MapsEmpty, SameCore
  <2>3. LiveMapped'
    BY <1>1, <1>6 DEF MapsInv, LiveMapped, InMap, SameCore, MapsEmpty
  <2>4. ViewsMapped'
    BY <1>1, <1>6 DEF MapsInv, ViewsMapped, InMap, SameCore, MapsEmpty
  <2>5. TasksMapped'
    BY <1>1, <1>6 DEF MapsInv, TasksMapped, InMap, SameCore, MapsEmpty
  <2>6. QED
    BY <2>1, <2>2, <2>3, <2>4, <2>5 DEF MapsInv
<1>10. Exclusive'
  BY <1>1 DEF CallsInv, CallOK, Exclusive
<1>11. FinalInv'
  <2>1. AloneWithCore'
    BY <1>1 DEF CallsInv, CallOK, FinalInv, AloneWithCore, Finalizing
  <2>2. TasksJoined'
    BY <1>1 DEF FinalInv, TasksJoined, Finalizing
  <2>3. MapCleared'
    BY <1>1, <1>6 DEF FinalInv, MapCleared, Finalizing, SameCore
  <2>4. SweptReleased'
    BY <1>1, <1>5, FlatTypes, Sorts DEF FinalInv, SweptReleased
  <2>5. QED
    BY <2>1, <2>2, <2>3, <2>4 DEF FinalInv
<1>12. HandlesInv'
  <2>1. HandlesOfObjects'
    BY <1>1, <1>5, <1>6, Sorts DEF HandlesInv, HandlesOfObjects, SameCore
  <2>2. CoresHaveHandles'
    BY <1>5, <1>6 DEF HandlesInv, CoresHaveHandles, SameCore
  <2>3. ViewsHaveHandles'
    BY <1>1, <1>5 DEF HandlesInv, ViewsHaveHandles
  <2>4. DatasetsHadHandles'
    BY <1>1, <1>4, <1>5 DEF HandlesInv, DatasetsHadHandles
  <2>5. QED
    BY <2>1, <2>2, <2>3, <2>4 DEF HandlesInv
<1>13. ViewsCounted'
  <2>1. \A v \in Views : BeingCounted(v)' <=> BeingCounted(v)
    BY <1>1 DEF BeingCounted, Pc
  <2>2. QED
    BY <2>1, <1>1, ViewsUntouched
<1>14. NoWrappedConfig'
  BY <1>1, <1>6, ConfigSound DEF NoWrappedConfig, SameCore
<1>15. QED
  BY <1>2, <1>7, <1>8, <1>9, <1>10, <1>11, <1>12, <1>13, <1>14

\* kind_dispatch hands the object to one more call, as the rules of the host allow.
LEMMA DispatchKeeps ==
  ASSUME Inv, NEW t \in Threads, NEW op \in DOMAIN Entry, NEW token \in Known,
         kind_dispatch(t, op, token)
  PROVE  Inv'
<1> USE DEF Inv
<1>1. PICK h \in handles :
        /\ h.token = token /\ h.kind = Entry[op] /\ h.payload = H!Lookup(token, Entry[op])
        /\ \A u \in Threads : calls[u].new # h.payload
  BY DispatchFinds DEF kind_dispatch
<1> DEFINE o == h.payload
<1>2. /\ calls[t].op = "idle" /\ core' = core /\ ds' = ds /\ view' = view
      /\ running' = running /\ handles' = handles /\ stale' = stale
      /\ calls' = [calls EXCEPT ![t] = [IdleCall EXCEPT !.op = op, !.pc = "begin", !.obj = o]]
  BY <1>1 DEF kind_dispatch, table
<1>3. TableInv'
  BY IdleTable DEF kind_dispatch
<1>4. op \in {"open", "finalize", "close", "data", "view"} /\ o \in Objects
  BY <1>1, HandleFacts DEF Entry
<1>5. /\ calls' \in [Threads -> CallRec]
      /\ \A u \in Threads \ {t} : SameCall(u)
      /\ calls'[t].op = op /\ calls'[t].pc = "begin" /\ calls'[t].obj = o
      /\ calls'[t].new = Null /\ calls'[t].swept = {}
  BY <1>2, <1>4, DispatchEffect DEF Ops
<1>6. Typed'
  BY <1>2, <1>5 DEF Typed
<1>7. /\ op \in {"open", "finalize"} => o \in Cores /\ core[o].mem = "live"
      /\ op \in {"close", "data"} => o \in Datasets /\ ds[o].mem = "live"
      /\ op = "view" => o \in Views /\ view[o].mem = "live"
  BY <1>1 DEF HandlesInv, HandlesOfObjects, Entry
<1>8. op \in {"close", "data"} => InMap(o)
  BY <1>1, <1>7 DEF MapsInv, LiveMapped
<1>9. /\ \A x \in Cores : CoreOf(x) = x
      /\ \A x \in Datasets : CoreOf(x) = ds[x].core
      /\ \A x \in Views : CoreOf(x) = view[x].core
  BY Sorts DEF CoreOf
<1>10. HostMay(t, op, o)
  BY <1>1 DEF kind_dispatch
<1>11. \A u \in Threads : calls[u].new # o
  BY <1>1
<1> HIDE DEF o
<1>12. CallsInv'
  <2>1. \A u \in Threads \ {t} : CallOK(u)'
    BY <1>2, <1>5 DEF CallsInv, CallOK, SameCall, InMap, Pc
  <2>2. op = "finalize" => t = Main
    BY <1>10 DEF HostMay
  <2>3. ~Pc(t, "open", "register")' /\ ~Pc(t, "data", "count")'
    BY <1>5 DEF Pc
  <2>4. CallOK(t)'
    BY <1>2, <1>4, <1>5, <1>7, <1>8, <2>2, <2>3 DEF CallOK, InMap
  <2>5. QED
    BY <2>1, <2>4 DEF CallsInv
<1>13. MapsInv'
  <2>1. MapsLive' /\ MapsEmpty'
    BY <1>2 DEF MapsInv, MapsLive, MapsEmpty
  <2>2. LiveMapped'
    BY <1>2, <1>5, Sorts DEF SameCall, CallsInv, CallOK, MapsInv, LiveMapped, InMap
  <2>3. ViewsMapped' /\ TasksMapped'
    BY <1>2 DEF MapsInv, ViewsMapped, TasksMapped, InMap
  <2>4. QED
    BY <2>1, <2>2, <2>3 DEF MapsInv
<1>14. Exclusive'
  <2>1. op = "view" => \A u \in Threads : calls[u].obj # o
    BY <1>10 DEF HostMay
  <2>2. \A u \in Threads : calls[u].op = "view" => calls[u].obj # o
    <3>1. SUFFICES ASSUME NEW u \in Threads, calls[u].op = "view", calls[u].obj = o PROVE FALSE
      OBVIOUS
    <3>2. o \in Views
      BY <3>1 DEF CallsInv, CallOK
    <3>3. op = "view"
      BY <1>4, <1>7, <3>2, Sorts
    <3>4. QED
      BY <2>1, <3>1, <3>3
  <2>3. calls[t].new = Null
    BY <1>2 DEF CallsInv, CallOK
  <2>4. \A u \in Threads : calls'[u].new = calls[u].new
    BY <1>5, <2>3 DEF SameCall
  <2>5. \A u, w \in Threads : calls'[u].new # Null /\ calls'[u].new = calls'[w].new => u = w
    BY <2>4 DEF Exclusive
  <2>6. \A u, w \in Threads : calls'[u].new # Null => calls'[w].obj # calls'[u].new
    BY <1>5, <1>11, <2>4 DEF Exclusive, SameCall
  <2>7. \A u, w \in Threads : calls'[u].op = "view" /\ calls'[w].obj = calls'[u].obj => u = w
    BY <1>5, <2>1, <2>2 DEF Exclusive, SameCall
  <2>8. QED
    BY <2>5, <2>6, <2>7 DEF Exclusive
<1>15. FinalInv'
  <2>1. AloneWithCore'
    <3>1. SUFFICES ASSUME NEW u \in Threads, NEW c \in Cores, Finalizing(u, c)'
                   PROVE  /\ \A x \in Threads : calls'[x].op = "open" => calls'[x].obj # c
                          /\ \A x \in Threads : calls'[x].op \in {"close", "data"}
                                                  => ds[calls'[x].obj].core # c
                          /\ \A v \in Views : view[v].mem = "live" => view[v].core # c
      BY <1>2 DEF AloneWithCore
    <3>2. CASE u # t
      <4>1. Finalizing(u, c)
        BY <1>5, <3>1, <3>2 DEF Finalizing, SameCall
      <4>2. /\ \A x \in Threads : calls[x].op = "open" => calls[x].obj # c
            /\ \A x \in Threads : calls[x].op \in {"close", "data"} => ds[calls[x].obj].core # c
            /\ \A v \in Views : view[v].mem = "live" => view[v].core # c
        BY <4>1 DEF FinalInv, AloneWithCore
      <4>3. op # "finalize"
        <5>1. u = Main
          BY <4>1 DEF Finalizing, CallsInv, CallOK
        <5>2. QED
          BY <1>10, <3>2, <5>1 DEF HostMay
      <4>4. CoreOf(o) # c
        BY <1>10, <4>1, <4>3 DEF HostMay, Finalizing
      <4>5. /\ op = "open" => o # c
            /\ op \in {"close", "data"} => ds[o].core # c
        BY <1>7, <1>9, <4>4
      <4>6. QED
        BY <1>5, <4>2, <4>5 DEF SameCall
    <3>3. CASE u = t
      <4>1. op = "finalize" /\ o = c
        BY <1>5, <3>1, <3>3 DEF Finalizing
      <4>2. /\ \A x \in Threads : calls[x].op # "idle" => CoreOf(calls[x].obj) # c
            /\ \A v \in Views : view[v].mem = "live" => view[v].core # c
        BY <1>10, <4>1 DEF HostMay
      <4>3. \A x \in Threads : calls[x].op = "open" => calls[x].obj # c
        BY <1>9, <4>2 DEF CallsInv, CallOK
      <4>4. \A x \in Threads : calls[x].op \in {"close", "data"} => ds[calls[x].obj].core # c
        BY <1>9, <4>2 DEF CallsInv, CallOK
      <4>5. QED
        BY <1>5, <4>1, <4>2, <4>3, <4>4 DEF SameCall
    <3>4. QED
      BY <3>2, <3>3
  <2>2. TasksJoined'
    BY <1>2, <1>5 DEF FinalInv, TasksJoined, Finalizing, SameCall
  <2>3. MapCleared'
    BY <1>2, <1>5 DEF FinalInv, MapCleared, Finalizing, SameCall
  <2>4. SweptReleased'
    BY <1>2, <1>5 DEF FinalInv, SweptReleased, SameCall
  <2>5. QED
    BY <2>1, <2>2, <2>3, <2>4 DEF FinalInv
<1>16. HandlesInv'
  BY <1>2 DEF HandlesInv, HandlesOfObjects, CoresHaveHandles, ViewsHaveHandles, DatasetsHadHandles
<1>17. ViewsCounted'
  <2>1. \A v \in Views : BeingCounted(v)' <=> BeingCounted(v)
    BY <1>2, <1>5, Sorts DEF BeingCounted, Pc, SameCall, CallsInv, CallOK
  <2>2. QED
    BY <1>2, <2>1, ViewsUntouched
<1>18. NoWrappedConfig'
  BY <1>2, ConfUntouched
<1>19. QED
  BY <1>3, <1>6, <1>12, <1>13, <1>14, <1>15, <1>16, <1>17, <1>18

\* Nothing refers to an object that has not been made.
LEMMA FreshDataset ==
  ASSUME Inv, NEW d \in Datasets, ds[d].mem = "unborn"
  PROVE  /\ \A c \in Cores : d \notin core[c].datasets
         /\ \A h \in handles : h.payload # d
         /\ \A u \in Threads : calls[u].obj # d /\ calls[u].new # d /\ d \notin calls[u].swept
         /\ d \notin running
         /\ \A v \in Views : view[v].mem = "live" => view[v].ds # d
<1> USE DEF Inv
<1>1. \A c \in Cores : d \notin core[c].datasets
  BY DEF MapsInv, MapsLive
<1>2. ~InMap(d)
  BY <1>1 DEF InMap
<1>3. \A h \in handles : h.payload # d
  BY Sorts DEF HandlesInv, HandlesOfObjects
<1>4. \A u \in Threads : calls[u].obj # d
  <2>1. SUFFICES ASSUME NEW u \in Threads, calls[u].obj = d PROVE FALSE
    OBVIOUS
  <2>2. calls[u].op \in Ops /\ CallOK(u)
    BY FlatTypes DEF CallsInv
  <2>3. QED
    BY <1>2, <2>1, <2>2, Sorts DEF CallOK, Ops
<1>5. \A u \in Threads : calls[u].new # d
  BY Sorts DEF CallsInv, CallOK
<1>6. \A u \in Threads : d \notin calls[u].swept
  BY DEF FinalInv, SweptReleased
<1>7. d \notin running
  BY <1>2 DEF MapsInv, TasksMapped
<1>8. \A v \in Views : view[v].mem = "live" => view[v].ds # d
  BY <1>2 DEF MapsInv, ViewsMapped
<1>9. QED
  BY <1>1, <1>3, <1>4, <1>5, <1>6, <1>7, <1>8

\* The same of a view.
LEMMA FreshView ==
  ASSUME Inv, NEW v \in Views, view[v].mem = "unborn"
  PROVE  /\ \A h \in handles : h.payload # v
         /\ \A u \in Threads : calls[u].obj # v /\ calls[u].new # v
<1> USE DEF Inv
<1>1. \A h \in handles : h.payload # v
  BY Sorts DEF HandlesInv, HandlesOfObjects
<1>2. \A u \in Threads : calls[u].obj # v
  <2>1. SUFFICES ASSUME NEW u \in Threads, calls[u].obj = v PROVE FALSE
    OBVIOUS
  <2>2. calls[u].op \in Ops /\ CallOK(u)
    BY FlatTypes DEF CallsInv
  <2>3. QED
    BY <2>1, <2>2, Sorts DEF CallOK, Ops
<1>3. \A u \in Threads : calls[u].new # v
  BY Sorts DEF CallsInv, CallOK
<1>4. QED
  BY <1>1, <1>2, <1>3

\* amio_open_dataset has minted the handle of a record that is not in the map yet.
LEMMA OpenRecordKeeps ==
  ASSUME Inv, NEW t \in Threads, NEW d \in Datasets, NEW m \in DatasetManifests,
         NEW mode \in {"read", "write"}, OpenRecord(t, d, m, mode)
  PROVE  Inv'
<1> USE DEF Inv
<1>1. /\ calls[t].op = "open" /\ calls[t].pc = "begin" /\ ds[d].mem = "unborn"
      /\ H!Insert("Dataset", d) /\ core' = core /\ view' = view /\ running' = running
  BY DEF OpenRecord, Pc, Insert
<1>2. TableInv'
  BY <1>1, InsertTable DEF Objects
<1>3. Minted \in H!Tokens
  BY <1>1, InsertTable DEF Objects
<1>4. stale' = stale
  BY <1>1, InsertEffect
<1>5. PICK n : /\ n.token = Minted /\ n.kind = "Dataset" /\ n.payload = d
               /\ handles' = handles \cup {n}
  BY <1>1, InsertEffect
<1>6. /\ calls' \in [Threads -> CallRec]
      /\ \A u \in Threads \ {t} : SameCall(u)
      /\ calls'[t].op = calls[t].op /\ calls'[t].pc = "register" /\ calls'[t].obj = calls[t].obj
      /\ calls'[t].new = d /\ calls'[t].swept = calls[t].swept
  BY MadeEffect DEF OpenRecord, Pcs
<1>7. /\ calls[t].obj \in Cores /\ core[calls[t].obj].mem = "live" /\ calls[t].new = Null
  BY <1>1 DEF CallsInv, CallOK, Pc
<1>8. /\ ds' \in [Datasets -> DsRec] /\ \A e \in Datasets \ {d} : SameDs(e)
      /\ ds'[d].mem = "live" /\ ds'[d].token = Minted /\ ds'[d].core = calls[t].obj
      /\ ds'[d].views = 0
  <2> DEFINE k == [mem |-> "live", token |-> Minted, core |-> calls[t].obj, mode |-> mode,
                   opener |-> t, driver |-> "open", views |-> 0, queue |-> "none"]
  <2>1. k \in DsRec
    BY <1>3, <1>7 DEF DsRec, Mems
  <2>2. k.mem = "live" /\ k.token = Minted /\ k.core = calls[t].obj /\ k.views = 0
    OBVIOUS
  <2>3. ds' = [ds EXCEPT ![d] = k]
    BY DEF OpenRecord
  <2> HIDE DEF k
  <2>4. QED
    BY <2>1, <2>2, <2>3 DEF Typed, SameDs
<1>9. Typed'
  BY <1>1, <1>6, <1>8 DEF Typed
<1>10. /\ \A c \in Cores : d \notin core[c].datasets
       /\ \A h \in handles : h.payload # d
       /\ \A u \in Threads : calls[u].obj # d /\ calls[u].new # d /\ d \notin calls[u].swept
       /\ d \notin running
       /\ \A v \in Views : view[v].mem = "live" => view[v].ds # d
  BY <1>1, FreshDataset
<1>11. CallsInv'
  <2>1. ASSUME NEW u \in Threads \ {t} PROVE CallOK(u)'
    <3>1. CallOK(u) /\ SameCall(u) /\ calls[u].obj # d /\ calls[u].new # d
      BY <1>6, <1>10 DEF CallsInv
    <3>2. /\ calls[u].obj \in Datasets => SameDs(calls[u].obj)
          /\ calls[u].new \in Datasets => SameDs(calls[u].new)
      BY <1>8, <3>1
    <3>3. \A e \in Datasets \ {d} : InMap(e) => InMap(e)'
      BY <1>1, <1>8 DEF SameDs, InMap
    <3>4. QED
      BY <1>1, <3>1, <3>2, <3>3 DEF CallOK, SameCall, SameDs, Pc
  <2>2. ~Pc(t, "data", "count")' /\ Pc(t, "open", "register")'
    BY <1>1, <1>6 DEF Pc
  <2>3. CallOK(t)'
    BY <1>1, <1>6, <1>7, <1>8, <2>2 DEF CallOK
  <2>4. QED
    BY <2>1, <2>3 DEF CallsInv
<1>12. MapsInv'
  <2>1. MapsLive' /\ MapsEmpty'
    BY <1>1, <1>8, <1>10, FlatTypes DEF MapsInv, MapsLive, MapsEmpty, SameDs
  <2>2. LiveMapped'
    <3>1. ASSUME NEW e \in Datasets, e # d, ds'[e].mem = "live"
          PROVE  InMap(e)' \/ \E u \in Threads : calls'[u].new = e
      <4>1. InMap(e) \/ \E u \in Threads : calls[u].new = e
        BY <1>8, <3>1 DEF MapsInv, LiveMapped, SameDs
      <4>2. InMap(e) => InMap(e)'
        BY <1>1, <1>8, <3>1 DEF InMap, SameDs
      <4>3. \A u \in Threads : calls[u].new = e => calls'[u].new = e
        BY <1>6, <1>7, Sorts DEF SameCall
      <4>4. QED
        BY <4>1, <4>2, <4>3
    <3>2. QED
      BY <1>6, <3>1 DEF LiveMapped
  <2>3. ViewsMapped'
    BY <1>1, <1>8, <1>10 DEF MapsInv, ViewsMapped, InMap, SameDs
  <2>4. TasksMapped'
    BY <1>1, <1>8, <1>10, FlatTypes DEF MapsInv, TasksMapped, InMap, SameDs
  <2>5. QED
    BY <2>1, <2>2, <2>3, <2>4 DEF MapsInv
<1>13. Exclusive'
  <2>1. \A u, w \in Threads : calls'[u].new # Null /\ calls'[u].new = calls'[w].new => u = w
    BY <1>6, <1>10 DEF Exclusive, SameCall
  <2>2. \A u, w \in Threads : calls'[u].new # Null => calls'[w].obj # calls'[u].new
    BY <1>6, <1>10 DEF Exclusive, SameCall
  <2>3. \A u, w \in Threads : calls'[u].op = "view" /\ calls'[w].obj = calls'[u].obj => u = w
    BY <1>6 DEF Exclusive, SameCall
  <2>4. QED
    BY <2>1, <2>2, <2>3 DEF Exclusive
<1>14. FinalInv'
  <2>1. \A u \in Threads, c \in Cores : Finalizing(u, c)' => Finalizing(u, c)
    BY <1>6 DEF Finalizing, SameCall
  <2>2. \A u \in Threads : calls'[u].op = calls[u].op /\ calls'[u].obj = calls[u].obj
                           /\ calls'[u].swept = calls[u].swept
    BY <1>6 DEF SameCall
  <2>3. \A u \in Threads : calls[u].op \in {"close", "data"} =>
          ds'[calls[u].obj].core = ds[calls[u].obj].core
    BY <1>8, <1>10 DEF SameDs, CallsInv, CallOK
  <2>4. AloneWithCore'
    <3>1. SUFFICES ASSUME NEW u \in Threads, NEW c \in Cores, Finalizing(u, c)'
                   PROVE  /\ \A x \in Threads : calls'[x].op = "open" => calls'[x].obj # c
                          /\ \A x \in Threads : calls'[x].op \in {"close", "data"}
                                                  => ds'[calls'[x].obj].core # c
                          /\ \A v \in Views : view'[v].mem = "live" => view'[v].core # c
      BY DEF AloneWithCore
    <3>2. /\ \A x \in Threads : calls[x].op = "open" => calls[x].obj # c
          /\ \A x \in Threads : calls[x].op \in {"close", "data"} => ds[calls[x].obj].core # c
          /\ \A v \in Views : view[v].mem = "live" => view[v].core # c
      BY <2>1, <3>1 DEF FinalInv, AloneWithCore
    <3>3. QED
      BY <1>1, <2>2, <2>3, <3>2
  <2>5. TasksJoined'
    BY <1>1, <1>6, <1>8, <1>10, FlatTypes
    DEF FinalInv, TasksJoined, Finalizing, SameCall, SameDs
  <2>6. MapCleared'
    BY <1>1, <1>6 DEF FinalInv, MapCleared, Finalizing, SameCall
  <2>7. SweptReleased'
    BY <1>5, <1>8, <1>10, <2>2, FlatTypes DEF FinalInv, SweptReleased, SameDs
  <2>8. QED
    BY <2>4, <2>5, <2>6, <2>7 DEF FinalInv
<1>15. HandlesInv'
  <2>1. HandlesOfObjects'
    BY <1>1, <1>5, <1>8, <1>10 DEF HandlesInv, HandlesOfObjects, SameDs
  <2>2. CoresHaveHandles' /\ ViewsHaveHandles'
    BY <1>1, <1>5 DEF HandlesInv, CoresHaveHandles, ViewsHaveHandles
  <2>3. DatasetsHadHandles'
    BY <1>4, <1>5, <1>8 DEF HandlesInv, DatasetsHadHandles, SameDs
  <2>4. QED
    BY <2>1, <2>2, <2>3 DEF HandlesInv
<1>16. ViewsCounted'
  <2>1. \A v \in Views : BeingCounted(v)' <=> BeingCounted(v)
    BY <1>1, <1>6, <1>7, Sorts DEF BeingCounted, Pc, SameCall
  <2>2. QED
    BY <1>1, <1>8, <1>10, <2>1, ViewsUntouched DEF SameDs
<1>17. NoWrappedConfig'
  BY <1>1, ConfUntouched
<1>18. QED
  BY <1>2, <1>9, <1>11, <1>12, <1>13, <1>14, <1>15, <1>16, <1>17

\* amio_open_dataset puts the record into the map and returns.
LEMMA OpenRegisterKeeps ==
  ASSUME Inv, NEW t \in Threads, OpenRegister(t)
  PROVE  Inv'
<1> USE DEF Inv
<1>a. PICK c, d : c = calls[t].obj /\ d = calls[t].new
  OBVIOUS
<1>1. /\ calls[t].op = "open" /\ Pc(t, "open", "register") /\ Return(t)
      /\ ds' = ds /\ view' = view /\ running' = running /\ handles' = handles /\ stale' = stale
  BY <1>a DEF OpenRegister, Pc, table, Typed, CallsInv, CallOK
<1>2. /\ c \in Cores /\ core[c].mem = "live"
      /\ d \in Datasets /\ ds[d].mem = "live" /\ ds[d].core = c
  BY <1>a, <1>1 DEF CallsInv, CallOK
<1>3. TableInv'
  BY IdleTable DEF OpenRegister
<1>4. /\ calls' \in [Threads -> CallRec]
      /\ \A u \in Threads \ {t} : SameCall(u)
      /\ calls'[t].op = "idle" /\ calls'[t].obj = Null
      /\ calls'[t].new = Null /\ calls'[t].swept = {}
  BY <1>1, ReturnEffect
<1>5. /\ core' \in [Cores -> CoreRec]
      /\ \A e \in Cores \ {c} : SameCore(e)
      /\ core'[c].mem = core[c].mem /\ core'[c].token = core[c].token
      /\ core'[c].datasets = core[c].datasets \cup {d}
      /\ core'[c].manifest = core[c].manifest /\ core'[c].cfg = core[c].cfg
  <2>1. core[c].datasets \cup {d} \in SUBSET Datasets
    BY <1>2, FlatTypes
  <2>2. core' = [core EXCEPT ![c].datasets = core[c].datasets \cup {d}]
    BY <1>a, <1>2 DEF OpenRegister, Typed
  <2> DEFINE D == core[c].datasets \cup {d}
  <2> HIDE DEF D
  <2>3. D \in SUBSET Datasets /\ core' = [core EXCEPT ![c].datasets = D]
    BY <2>1, <2>2 DEF D
  <2>4. /\ core' \in [Cores -> CoreRec]
        /\ \A e \in Cores \ {c} : SameCore(e)
        /\ core'[c].mem = core[c].mem /\ core'[c].token = core[c].token
        /\ core'[c].datasets = D
        /\ core'[c].manifest = core[c].manifest /\ core'[c].cfg = core[c].cfg
    BY <1>2, <2>3, MapEffect
  <2>5. QED
    BY <2>4 DEF D
<1>6. Typed'
  BY <1>1, <1>4, <1>5 DEF Typed
<1>7. \A e \in Datasets : InMap(e) => InMap(e)'
  BY <1>1, <1>5 DEF InMap, SameCore
<1>8. \A e \in Cores : core'[e].mem = core[e].mem
  BY <1>5 DEF SameCore
<1>9. CallsInv'
  <2>1. ASSUME NEW u \in Threads \ {t} PROVE CallOK(u)'
    <3>1. CallOK(u) /\ SameCall(u)
      BY <1>4 DEF CallsInv
    <3>2. QED
      BY <1>1, <1>7, <1>8, <3>1 DEF CallOK, SameCall, Pc
  <2>2. CallOK(t)'
    BY <1>4 DEF CallOK, Pc
  <2>3. QED
    BY <2>1, <2>2 DEF CallsInv
<1>10. MapsInv'
  <2>1. MapsLive'
    BY <1>1, <1>2, <1>5 DEF MapsInv, MapsLive, SameCore
  <2>2. MapsEmpty'
    BY <1>2, <1>5 DEF MapsInv, MapsEmpty, SameCore
  <2>3. LiveMapped'
    <3>1. InMap(d)'
      BY <1>1, <1>2, <1>5 DEF InMap
    <3>2. \A u \in Threads \ {t} : calls'[u].new = calls[u].new
      BY <1>4 DEF SameCall
    <3>3. QED
      BY <1>a, <1>1, <1>7, <3>1, <3>2 DEF MapsInv, LiveMapped
  <2>4. ViewsMapped' /\ TasksMapped'
    BY <1>1, <1>7, FlatTypes DEF MapsInv, ViewsMapped, TasksMapped
  <2>5. QED
    BY <2>1, <2>2, <2>3, <2>4 DEF MapsInv
<1>11. Exclusive'
  BY <1>4, Sorts DEF CallsInv, CallOK, Exclusive, SameCall
<1>12. FinalInv'
  <2>1. AloneWithCore'
    BY <1>1, <1>4 DEF CallsInv, CallOK, FinalInv, AloneWithCore, Finalizing, SameCall
  <2>2. TasksJoined'
    BY <1>1, <1>4 DEF FinalInv, TasksJoined, Finalizing, SameCall
  <2>3. MapCleared'
    <3>1. \A u \in Threads : ~Finalizing(u, c)
      BY <1>a, <1>1, <1>2 DEF FinalInv, AloneWithCore
    <3>2. \A u \in Threads, e \in Cores : Finalizing(u, e)' =>
             e # c /\ Finalizing(u, e) /\ calls'[u].pc = calls[u].pc
      BY <1>4, <3>1 DEF Finalizing, SameCall
    <3>3. QED
      BY <1>5, <3>2 DEF FinalInv, MapCleared, SameCore
  <2>4. SweptReleased'
    BY <1>1, <1>4 DEF FinalInv, SweptReleased, SameCall
  <2>5. QED
    BY <2>1, <2>2, <2>3, <2>4 DEF FinalInv
<1>13. HandlesInv'
  BY <1>1, <1>5 DEF HandlesInv, HandlesOfObjects, CoresHaveHandles, ViewsHaveHandles,
     DatasetsHadHandles, SameCore
<1>14. ViewsCounted'
  <2>1. \A v \in Views : BeingCounted(v)' <=> BeingCounted(v)
    BY <1>a, <1>1, <1>2, <1>4, Sorts DEF BeingCounted, Pc, SameCall
  <2>2. QED
    BY <1>1, <2>1, ViewsUntouched
<1>15. NoWrappedConfig'
  BY <1>5, ConfUntouched DEF SameCore
<1>16. QED
  BY <1>3, <1>6, <1>9, <1>10, <1>11, <1>12, <1>13, <1>14, <1>15

\* amio_read has made a view of its dataset that is not counted yet.
LEMMA ReadBufferKeeps ==
  ASSUME Inv, NEW t \in Threads, NEW v \in Views, ReadBuffer(t, v)
  PROVE  Inv'
<1> USE DEF Inv
<1>a. PICK d : d = calls[t].obj
  OBVIOUS
<1>1. /\ calls[t].op = "data" /\ calls[t].pc = "get_buffer" /\ view[v].mem = "unborn"
      /\ H!Insert("View", v) /\ core' = core /\ ds' = ds /\ running' = running
  BY <1>a DEF ReadBuffer, Pc, Insert
<1>2. d \in Datasets /\ InMap(d) /\ ds[d].core \in Cores /\ calls[t].new = Null
  BY <1>a, <1>1 DEF CallsInv, CallOK, InMap, Pc
<1>3. TableInv'
  BY <1>1, InsertTable DEF Objects
<1>4. Minted \in H!Tokens
  BY <1>1, InsertTable DEF Objects
<1>5. stale' = stale
  BY <1>1, InsertEffect
<1>6. PICK n : /\ n.token = Minted /\ n.kind = "View" /\ n.payload = v
               /\ handles' = handles \cup {n}
  BY <1>1, InsertEffect
<1>7. /\ calls' \in [Threads -> CallRec]
      /\ \A u \in Threads \ {t} : SameCall(u)
      /\ calls'[t].op = calls[t].op /\ calls'[t].pc = "count" /\ calls'[t].obj = calls[t].obj
      /\ calls'[t].new = v /\ calls'[t].swept = calls[t].swept
  BY MadeEffect DEF ReadBuffer, Pcs
<1>8. /\ view' \in [Views -> ViewRec] /\ \A w \in Views \ {v} : SameView(w)
      /\ view'[v].mem = "live" /\ view'[v].token = Minted /\ view'[v].core = ds[d].core
      /\ view'[v].ds = d
  <2> DEFINE k == [mem |-> "live", token |-> Minted, core |-> ds[d].core, ds |-> d]
  <2>1. k \in ViewRec
    BY <1>2, <1>4 DEF ViewRec, Mems
  <2>2. k.mem = "live" /\ k.token = Minted /\ k.core = ds[d].core /\ k.ds = d
    OBVIOUS
  <2>3. view' = [view EXCEPT ![v] = k]
    BY <1>a DEF ReadBuffer
  <2> HIDE DEF k
  <2>4. QED
    BY <2>1, <2>2, <2>3 DEF Typed, SameView
<1>9. Typed'
  BY <1>1, <1>2, <1>7, <1>8 DEF Typed
<1>10. /\ \A h \in handles : h.payload # v
       /\ \A u \in Threads : calls[u].obj # v /\ calls[u].new # v
  BY <1>1, FreshView
<1>11. \A e \in Datasets : InMap(e)' <=> InMap(e)
  BY <1>1 DEF InMap
<1>12. CallsInv'
  <2>1. ASSUME NEW u \in Threads \ {t} PROVE CallOK(u)'
    <3>1. CallOK(u) /\ SameCall(u) /\ calls[u].obj # v /\ calls[u].new # v
      BY <1>7, <1>10 DEF CallsInv
    <3>2. /\ calls[u].obj \in Views => SameView(calls[u].obj)
          /\ calls[u].new \in Views => SameView(calls[u].new)
      BY <1>8, <3>1
    <3>3. QED
      BY <1>1, <1>11, <3>1, <3>2 DEF CallOK, SameCall, SameView, Pc
  <2>2. ~Pc(t, "open", "register")' /\ Pc(t, "data", "count")'
    BY <1>1, <1>7 DEF Pc
  <2>3. CallOK(t)'
    BY <1>a, <1>1, <1>2, <1>7, <1>8, <1>11, <2>2 DEF CallOK
  <2>4. QED
    BY <2>1, <2>3 DEF CallsInv
<1>13. MapsInv'
  <2>1. MapsLive' /\ MapsEmpty'
    BY <1>1 DEF MapsInv, MapsLive, MapsEmpty
  <2>2. LiveMapped'
    BY <1>1, <1>2, <1>7, <1>11, Sorts DEF MapsInv, LiveMapped, SameCall
  <2>3. ViewsMapped'
    BY <1>1, <1>2, <1>8, <1>11 DEF MapsInv, ViewsMapped, SameView
  <2>4. TasksMapped'
    BY <1>1, <1>2, <1>11, FlatTypes DEF MapsInv, TasksMapped
  <2>5. QED
    BY <2>1, <2>2, <2>3, <2>4 DEF MapsInv
<1>14. Exclusive'
  <2>1. \A u, w \in Threads : calls'[u].new # Null /\ calls'[u].new = calls'[w].new => u = w
    BY <1>7, <1>10 DEF Exclusive, SameCall
  <2>2. \A u, w \in Threads : calls'[u].new # Null => calls'[w].obj # calls'[u].new
    BY <1>7, <1>10 DEF Exclusive, SameCall
  <2>3. \A u, w \in Threads : calls'[u].op = "view" /\ calls'[w].obj = calls'[u].obj => u = w
    BY <1>7 DEF Exclusive, SameCall
  <2>4. QED
    BY <2>1, <2>2, <2>3 DEF Exclusive
<1>15. FinalInv'
  <2>1. \A u \in Threads, c \in Cores : Finalizing(u, c)' => Finalizing(u, c) /\ c # ds[d].core
    BY <1>a, <1>1, <1>7 DEF Finalizing, SameCall, FinalInv, AloneWithCore
  <2>2. \A u \in Threads : calls'[u].op = calls[u].op /\ calls'[u].obj = calls[u].obj
                           /\ calls'[u].swept = calls[u].swept
    BY <1>7 DEF SameCall
  <2>3. AloneWithCore'
    <3>1. SUFFICES ASSUME NEW u \in Threads, NEW c \in Cores, Finalizing(u, c)'
                   PROVE  /\ \A x \in Threads : calls'[x].op = "open" => calls'[x].obj # c
                          /\ \A x \in Threads : calls'[x].op \in {"close", "data"}
                                                  => ds'[calls'[x].obj].core # c
                          /\ \A w \in Views : view'[w].mem = "live" => view'[w].core # c
      BY DEF AloneWithCore
    <3>2. /\ \A x \in Threads : calls[x].op = "open" => calls[x].obj # c
          /\ \A x \in Threads : calls[x].op \in {"close", "data"} => ds[calls[x].obj].core # c
          /\ \A w \in Views : view[w].mem = "live" => view[w].core # c
      BY <2>1, <3>1 DEF FinalInv, AloneWithCore
    <3>3. QED
      BY <1>1, <1>8, <2>1, <2>2, <3>1, <3>2 DEF SameView
  <2>4. TasksJoined'
    BY <1>1, <1>7, <2>1 DEF FinalInv, TasksJoined, Finalizing, SameCall
  <2>5. MapCleared'
    BY <1>1, <1>7 DEF FinalInv, MapCleared, Finalizing, SameCall
  <2>6. SweptReleased'
    BY <1>1, <1>6, <2>2, FlatTypes, Sorts DEF FinalInv, SweptReleased
  <2>7. QED
    BY <2>3, <2>4, <2>5, <2>6 DEF FinalInv
<1>16. HandlesInv'
  <2>1. HandlesOfObjects'
    BY <1>1, <1>6, <1>8, <1>10 DEF HandlesInv, HandlesOfObjects, SameView
  <2>2. CoresHaveHandles' /\ DatasetsHadHandles'
    BY <1>1, <1>5, <1>6 DEF HandlesInv, CoresHaveHandles, DatasetsHadHandles
  <2>3. ViewsHaveHandles'
    BY <1>6, <1>8 DEF HandlesInv, ViewsHaveHandles, SameView
  <2>4. QED
    BY <2>1, <2>2, <2>3 DEF HandlesInv
<1>17. ViewsCounted'
  <2>1. \A w \in Views \ {v} : BeingCounted(w)' <=> BeingCounted(w)
    BY <1>1, <1>2, <1>7, Sorts DEF BeingCounted, Pc, SameCall
  <2>2. BeingCounted(v)'
    BY <1>7 DEF BeingCounted
  <2>3. /\ \A w \in Views : view'[w].mem = "live" /\ ~BeingCounted(w)'
                              <=> view[w].mem = "live" /\ ~BeingCounted(w)
        /\ \A w \in Views : view'[w].mem = "live" /\ view[w].mem = "live"
                              => view'[w].ds = view[w].ds
    BY <1>1, <1>8, <2>1, <2>2 DEF SameView
  <2>4. QED
    BY <1>1, <2>3, ViewsUntouched
<1>18. NoWrappedConfig'
  BY <1>1, ConfUntouched
<1>19. QED
  BY <1>3, <1>9, <1>12, <1>13, <1>14, <1>15, <1>16, <1>17, <1>18

\* What a call that counts a view up or down leaves alone: all but the counts.
LEMMA CountKeeps ==
  ASSUME Inv, NEW t \in Threads, NEW d \in Datasets, NEW n \in Int,
         ds' = [ds EXCEPT ![d].views = n], UNCHANGED <<table, core, view>>,
         calls' \in [Threads -> CallRec], \A u \in Threads \ {t} : SameCall(u),
         \/ /\ calls'[t].op = "idle" /\ calls'[t].obj = Null
            /\ calls'[t].new = Null /\ calls'[t].swept = {}
            /\ calls[t].op = "data" /\ calls[t].obj = d
            /\ calls[t].new \in Views
            /\ running' = running \/ running' = running \cup {d}
         \/ /\ calls'[t].op = calls[t].op /\ calls'[t].obj = calls[t].obj
            /\ calls'[t].new = calls[t].new /\ calls'[t].swept = calls[t].swept
            /\ calls[t].op = "view" /\ running' = running,
         ViewsCounted'
  PROVE  Inv'
<1> USE DEF Inv
<1>1. ds' \in [Datasets -> DsRec]
  BY CountEffect
<1>2. \A e \in Datasets : ds'[e].mem = ds[e].mem /\ ds'[e].token = ds[e].token
                          /\ ds'[e].core = ds[e].core
  BY CountEffect DEF SameDs
<1>3. handles' = handles /\ stale' = stale /\ core' = core /\ view' = view
  BY DEF table
<1>4. /\ \A u \in Threads \ {t} : SameCall(u)
      /\ \/ /\ calls'[t].op = "idle" /\ calls'[t].obj = Null
            /\ calls'[t].new = Null /\ calls'[t].swept = {}
            /\ calls[t].op = "data" /\ calls[t].obj = d
            /\ calls[t].new \in Views
            /\ running' = running \/ running' = running \cup {d}
         \/ /\ calls'[t].op = calls[t].op /\ calls'[t].obj = calls[t].obj
            /\ calls'[t].new = calls[t].new /\ calls'[t].swept = calls[t].swept
            /\ calls[t].op = "view" /\ running' = running
  OBVIOUS
<1>5. running' = running \/ (running' = running \cup {d} /\ calls[t].op = "data" /\ calls[t].obj = d)
  BY <1>4
<1>6. \A e \in Datasets : InMap(e)' <=> InMap(e)
  BY <1>2, <1>3 DEF InMap
<1>7. TableInv'
  BY IdleTable
<1>8. Typed'
  <2>1. running' \subseteq Datasets
    BY <1>5, FlatTypes
  <2>2. QED
    BY <1>1, <1>3, <2>1 DEF Typed
<1>9. CallsInv'
  <2>1. ASSUME NEW u \in Threads \ {t} PROVE CallOK(u)'
    <3>1. CallOK(u) /\ SameCall(u)
      BY <1>4 DEF CallsInv
    <3>2. QED
      BY <1>2, <1>3, <1>6, <3>1 DEF CallOK, SameCall, Pc
  <2>2. CallOK(t)'
    <3>1. CallOK(t)
      BY DEF CallsInv
    <3>2. QED
      BY <1>3, <1>4, <3>1 DEF CallOK, Pc
  <2>3. QED
    BY <2>1, <2>2 DEF CallsInv
<1>10. MapsInv'
  <2>1. MapsLive' /\ MapsEmpty'
    BY <1>2, <1>3, FlatTypes DEF MapsInv, MapsLive, MapsEmpty
  <2>2. LiveMapped'
    BY <1>2, <1>4, <1>6, Sorts DEF MapsInv, LiveMapped, SameCall
  <2>3. ViewsMapped'
    BY <1>2, <1>3, <1>6 DEF MapsInv, ViewsMapped
  <2>4. TasksMapped'
    BY <1>5, <1>6, FlatTypes DEF CallsInv, CallOK, MapsInv, TasksMapped
  <2>5. QED
    BY <2>1, <2>2, <2>3, <2>4 DEF MapsInv
<1>11. Exclusive'
  <2>1. /\ \A u, w \in Threads : calls'[u].new # Null /\ calls'[u].new = calls'[w].new => u = w
        /\ \A u, w \in Threads : calls'[u].new # Null => calls'[w].obj # calls'[u].new
    BY <1>4, Sorts DEF Exclusive, SameCall
  <2>2. \A u, w \in Threads : calls'[u].op = "view" /\ calls'[w].obj = calls'[u].obj => u = w
    BY <1>4, Sorts DEF CallsInv, CallOK, Exclusive, SameCall
  <2>3. QED
    BY <2>1, <2>2 DEF Exclusive
<1>12. FinalInv'
  <2>1. \A u \in Threads, c \in Cores : Finalizing(u, c)' =>
          u # t /\ Finalizing(u, c) /\ calls'[u].pc = calls[u].pc
    BY <1>4 DEF Finalizing, SameCall
  <2>2. AloneWithCore'
    <3>1. SUFFICES ASSUME NEW u \in Threads, NEW c \in Cores, Finalizing(u, c)'
                   PROVE  /\ \A x \in Threads : calls'[x].op = "open" => calls'[x].obj # c
                          /\ \A x \in Threads : calls'[x].op \in {"close", "data"}
                                                  => ds'[calls'[x].obj].core # c
                          /\ \A w \in Views : view'[w].mem = "live" => view'[w].core # c
      BY DEF AloneWithCore
    <3>2. /\ \A x \in Threads : calls[x].op = "open" => calls[x].obj # c
          /\ \A x \in Threads : calls[x].op \in {"close", "data"} => ds[calls[x].obj].core # c
          /\ \A w \in Views : view[w].mem = "live" => view[w].core # c
      BY <2>1, <3>1 DEF FinalInv, AloneWithCore
    <3>3. \A x \in Threads : calls[x].op \in {"close", "data"} => calls[x].obj \in Datasets
      BY DEF CallsInv, CallOK
    <3>4. QED
      BY <1>2, <1>3, <1>4, <3>2, <3>3 DEF SameCall
  <2>3. TasksJoined'
    <3>1. SUFFICES ASSUME NEW u \in Threads, NEW c \in Cores, Finalizing(u, c)',
                          calls'[u].pc \in {"sweep", "handle"}, NEW e \in running'
                   PROVE  ds'[e].core # c
      BY DEF TasksJoined
    <3>2. Finalizing(u, c) /\ calls[u].pc \in {"sweep", "handle"}
      BY <2>1, <3>1
    <3>3. \A x \in running : ds[x].core # c
      BY <3>2 DEF FinalInv, TasksJoined
    <3>4. calls[t].op = "data" => ds[calls[t].obj].core # c
      BY <3>2 DEF FinalInv, AloneWithCore
    <3>5. QED
      BY <1>2, <1>5, <3>1, <3>3, <3>4, FlatTypes
  <2>4. MapCleared'
    BY <1>3, <2>1 DEF FinalInv, MapCleared
  <2>5. SweptReleased'
    BY <1>2, <1>3, <1>4, FlatTypes DEF FinalInv, SweptReleased, SameCall
  <2>6. QED
    BY <2>2, <2>3, <2>4, <2>5 DEF FinalInv
<1>13. HandlesInv'
  BY <1>2, <1>3 DEF HandlesInv, HandlesOfObjects, CoresHaveHandles, ViewsHaveHandles,
     DatasetsHadHandles
<1>14. NoWrappedConfig'
  BY <1>3, ConfUntouched
<1>15. QED
  BY <1>7, <1>8, <1>9, <1>10, <1>11, <1>12, <1>13, <1>14

\* amio_read counts its view and returns.
LEMMA ReadReturnsKeeps ==
  ASSUME Inv, NEW t \in Threads, ReadReturns(t)
  PROVE  Inv'
<1> USE DEF Inv
<1>1. PICK d, v : d = calls[t].obj /\ v = calls[t].new
  OBVIOUS
<1>2. /\ calls[t].op = "data" /\ Pc(t, "data", "count") /\ Return(t)
      /\ UNCHANGED <<table, core, view>> /\ view' = view
      /\ running' = running \/ running' = running \cup {d}
  BY <1>1 DEF ReadReturns, Pc
<1>3. /\ d \in Datasets /\ v \in Views /\ view[v].mem = "live" /\ view[v].ds = d
  BY <1>1, <1>2 DEF CallsInv, CallOK
<1>4. ds' = [ds EXCEPT ![d].views = ds[d].views + 1]
  BY <1>1, <1>3 DEF ReadReturns, Typed
<1>5. ds[d].views \in Int
  BY <1>3, FlatTypes
<1>6. /\ ds'[d].mem = ds[d].mem /\ ds'[d].views = ds[d].views + 1
      /\ \A e \in Datasets \ {d} : SameDs(e)
  <2> DEFINE n == ds[d].views + 1
  <2>1. n \in Int /\ ds' = [ds EXCEPT ![d].views = n]
    BY <1>4, <1>5
  <2> HIDE DEF n
  <2>2. /\ ds'[d].mem = ds[d].mem /\ ds'[d].views = n /\ \A e \in Datasets \ {d} : SameDs(e)
    BY <1>3, <2>1, CountEffect
  <2>3. QED
    BY <2>2 DEF n
<1>7. /\ calls' \in [Threads -> CallRec]
      /\ \A u \in Threads \ {t} : SameCall(u)
      /\ calls'[t].op = "idle" /\ calls'[t].obj = Null
      /\ calls'[t].new = Null /\ calls'[t].swept = {}
  BY <1>2, ReturnEffect
<1>8. BeingCounted(v) /\ ~BeingCounted(v)'
  <2>1. \A u \in Threads \ {t} : calls[u].new # v /\ calls[u].obj # v
    BY <1>1, <1>3, Sorts DEF Exclusive
  <2>2. BeingCounted(v)
    BY <1>1 DEF BeingCounted
  <2>3. QED
    BY <1>3, <1>7, <2>1, <2>2, Sorts DEF BeingCounted, SameCall, Pc
<1>9. \A w \in Views \ {v} : BeingCounted(w)' <=> BeingCounted(w)
  BY <1>1, <1>2, <1>3, <1>7, Sorts DEF BeingCounted, SameCall, Pc
<1>10. ViewsCounted'
  <2>1. Counted(d)' = Counted(d) \cup {v} /\ v \notin Counted(d)
    BY <1>2, <1>3, <1>8, <1>9 DEF Counted
  <2>2. \A e \in Datasets \ {d} : Counted(e)' = Counted(e)
    BY <1>2, <1>3, <1>9 DEF Counted
  <2>3. Cardinality(Counted(d) \cup {v}) = Cardinality(Counted(d)) + 1
    BY <2>1, CountedFinite, FS_AddElement
  <2>4. ds'[d].mem = "live" => ds'[d].views = Cardinality(Counted(d)')
    BY <1>3, <1>6, <2>1, <2>3 DEF ViewsCounted, Counted
  <2>5. \A e \in Datasets \ {d} : ds'[e].mem = "live" => ds'[e].views = Cardinality(Counted(e)')
    BY <1>6, <2>2 DEF ViewsCounted, Counted, SameDs
  <2>6. QED
    BY <2>4, <2>5 DEF ViewsCounted, Counted
<1>11. QED
  <2> DEFINE n == ds[d].views + 1
  <2>1. n \in Int /\ ds' = [ds EXCEPT ![d].views = n]
    BY <1>4, <1>5
  <2> HIDE DEF n
  <2>2. QED
    BY <1>1, <1>2, <1>3, <1>7, <1>10, <2>1, CountKeeps

\* amio_release_view finds the dataset of its view in the map and counts it off.
LEMMA ReleaseCountKeeps ==
  ASSUME Inv, NEW t \in Threads, ReleaseCount(t)
  PROVE  Inv'
<1> USE DEF Inv
<1>1. PICK v, d : v = calls[t].obj /\ d = view[v].ds
  OBVIOUS
<1>2. /\ calls[t].op = "view" /\ calls[t].pc = "begin" /\ Goto(t, "handle")
      /\ UNCHANGED <<table, core, view>> /\ view' = view /\ running' = running
  BY DEF ReleaseCount, Pc
<1>3. v \in Views /\ view[v].mem = "live"
  BY <1>1, <1>2 DEF CallsInv, CallOK
<1>4. d \in Datasets /\ d \in core[view[v].core].datasets
  BY <1>1, <1>3 DEF MapsInv, ViewsMapped, InMap
<1>5. ds' = [ds EXCEPT ![d].views = ds[d].views - 1]
  BY <1>1, <1>4 DEF ReleaseCount, CountedOff, Typed
<1>6. ds[d].views \in Int
  BY <1>4, FlatTypes
<1>7. /\ ds'[d].mem = ds[d].mem /\ ds'[d].views = ds[d].views - 1
      /\ \A e \in Datasets \ {d} : SameDs(e)
  <2> DEFINE n == ds[d].views - 1
  <2>1. n \in Int /\ ds' = [ds EXCEPT ![d].views = n]
    BY <1>5, <1>6
  <2> HIDE DEF n
  <2>2. /\ ds'[d].mem = ds[d].mem /\ ds'[d].views = n /\ \A e \in Datasets \ {d} : SameDs(e)
    BY <1>4, <2>1, CountEffect
  <2>3. QED
    BY <2>2 DEF n
<1>8. /\ calls' \in [Threads -> CallRec]
      /\ \A u \in Threads \ {t} : SameCall(u)
      /\ calls'[t].op = calls[t].op /\ calls'[t].pc = "handle" /\ calls'[t].obj = calls[t].obj
      /\ calls'[t].new = calls[t].new /\ calls'[t].swept = calls[t].swept
  BY <1>2, GotoEffect DEF Pcs
<1>9. ~BeingCounted(v) /\ BeingCounted(v)'
  <2>1. \A u \in Threads : calls[u].new # v
    BY <1>1, <1>3, Sorts DEF Exclusive
  <2>2. \A u \in Threads \ {t} : calls[u].obj # v
    BY <1>1, <1>2 DEF Exclusive
  <2>3. ~BeingCounted(v)
    BY <1>2, <2>1, <2>2 DEF BeingCounted, Pc
  <2>4. BeingCounted(v)'
    BY <1>1, <1>2, <1>8 DEF BeingCounted, Pc
  <2>5. QED
    BY <2>3, <2>4
<1>10. \A w \in Views \ {v} : BeingCounted(w)' <=> BeingCounted(w)
  BY <1>1, <1>8 DEF BeingCounted, SameCall, Pc
<1>11. ViewsCounted'
  <2>1. Counted(d)' = Counted(d) \ {v} /\ v \in Counted(d)
    BY <1>1, <1>2, <1>3, <1>9, <1>10 DEF Counted
  <2>2. \A e \in Datasets \ {d} : Counted(e)' = Counted(e)
    BY <1>1, <1>2, <1>10 DEF Counted
  <2>3. Cardinality(Counted(d) \ {v}) = Cardinality(Counted(d)) - 1
    BY <2>1, CountedFinite, FS_RemoveElement
  <2>4. ds'[d].mem = "live" => ds'[d].views = Cardinality(Counted(d)')
    BY <1>4, <1>7, <2>1, <2>3 DEF ViewsCounted, Counted
  <2>5. \A e \in Datasets \ {d} : ds'[e].mem = "live" => ds'[e].views = Cardinality(Counted(e)')
    BY <1>7, <2>2 DEF ViewsCounted, Counted, SameDs
  <2>6. QED
    BY <2>4, <2>5 DEF ViewsCounted, Counted
<1>12. QED
  <2> DEFINE n == ds[d].views - 1
  <2>1. n \in Int /\ ds' = [ds EXCEPT ![d].views = n]
    BY <1>5, <1>6
  <2> HIDE DEF n
  <2>2. QED
    BY <1>2, <1>4, <1>8, <1>11, <2>1, CountKeeps

\* Two handles are of the same object exactly when they have the same token.
LEMMA SameHandle ==
  ASSUME TableInv, HandlesInv, NEW x \in handles, NEW h \in handles
  PROVE  h.token = x.token <=> h.payload = x.payload
<1>1. h.token = x.token => h.payload = x.payload
  BY HandleFacts
<1>2. h.payload = x.payload => h.token = x.token
  BY Sorts DEF HandlesInv, HandlesOfObjects
<1>3. QED
  BY <1>1, <1>2

\* release takes the handle of the object whose token it is given, and no other.
LEMMA ReleasedOne ==
  ASSUME Inv, NEW x \in handles, NEW k, H!Release(x.token, k)
  PROVE  /\ handles' = {h \in handles : h.payload # x.payload}
         /\ stale \subseteq stale'
         /\ \E r \in stale' : r.token = x.token
<1> USE DEF Inv
<1>1. handles' = {h \in handles : h.token # x.token}
  BY ReleaseEffect
<1>2. handles' = {h \in handles : h.payload # x.payload}
  BY <1>1, SameHandle
<1> DEFINE r == [token |-> x.token, since |-> releases[H!UnpackSlot(x.token)] + 1]
<1>3. stale' = stale \cup {r} /\ r.token = x.token
  BY ReleaseEffect
<1> HIDE DEF r
<1>4. stale \subseteq stale' /\ \E s \in stale' : s.token = x.token
  BY <1>3
<1>5. QED
  BY <1>2, <1>4

\* The token of a dataset resolves while the dataset's own handle is outstanding.
LEMMA DatasetHandle ==
  ASSUME Inv, NEW d \in Datasets, ds[d].mem = "live"
  PROVE  /\ H!Resolves(ds[d].token, "Dataset") =>
              \E x \in handles : x.payload = d /\ x.token = ds[d].token
         /\ ~H!Resolves(ds[d].token, "Dataset") =>
              /\ \A x \in handles : x.payload # d
              /\ \E r \in stale : r.token = ds[d].token
<1> USE DEF Inv
<1>1. \A x \in handles : x.payload = d => x.token = ds[d].token /\ x.kind = "Dataset"
  BY Sorts DEF HandlesInv, HandlesOfObjects
<1>2. (\E x \in handles : x.payload = d) \/ (\E r \in stale : r.token = ds[d].token)
  BY DEF HandlesInv, DatasetsHadHandles
<1>3. ASSUME H!Resolves(ds[d].token, "Dataset")
      PROVE  \E x \in handles : x.payload = d /\ x.token = ds[d].token
  BY <1>1, <1>2, <1>3, StaleFacts
<1>4. ASSUME ~H!Resolves(ds[d].token, "Dataset"), NEW x \in handles PROVE x.payload # d
  BY <1>1, <1>4, HandleFacts
<1>5. QED
  BY <1>2, <1>3, <1>4

\* A record of zeros, as what is left of an object.
LEMMA NothingLeft ==
  /\ NoView("gone") \in ViewRec /\ NoView("gone").mem = "gone"
  /\ NoDataset("gone") \in DsRec /\ NoDataset("gone").mem = "gone"
  /\ NoCore("gone") \in CoreRec /\ NoCore("gone").mem = "gone" /\ NoCore("gone").datasets = {}
<1>1. 0 \in H!Tokens
  BY LifecycleAssumption DEF H!Tokens
<1>2. NoView("gone") \in ViewRec /\ NoView("gone").mem = "gone"
  BY <1>1 DEF NoView, ViewRec, Mems
<1>3. NoDataset("gone") \in DsRec /\ NoDataset("gone").mem = "gone"
  BY <1>1 DEF NoDataset, DsRec, Mems
<1>4. /\ NoCore("gone") \in CoreRec /\ NoCore("gone").mem = "gone"
      /\ NoCore("gone").datasets = {}
  BY <1>1 DEF NoCore, CoreRec, Mems, Configs
<1>5. QED
  BY <1>2, <1>3, <1>4

\* amio_release_view releases the handle of its view and frees it.
LEMMA ReleaseHandleKeeps ==
  ASSUME Inv, NEW t \in Threads, ReleaseHandle(t)
  PROVE  Inv'
<1> USE DEF Inv
<1>a. PICK v : v = calls[t].obj
  OBVIOUS
<1>1. /\ calls[t].op = "view" /\ Pc(t, "view", "handle") /\ H!Release(view[v].token, "View")
      /\ Return(t) /\ core' = core /\ ds' = ds /\ running' = running
  BY <1>a DEF ReleaseHandle, Pc
<1>2. v \in Views /\ view[v].mem = "live" /\ calls[t].new = Null
  BY <1>a, <1>1 DEF CallsInv, CallOK, Pc
<1>3. PICK x \in handles : x.payload = v /\ x.token = view[v].token
  BY <1>2, Sorts DEF HandlesInv, HandlesOfObjects, ViewsHaveHandles
<1>4. TableInv'
  BY <1>1, <1>2, FlatTypes, ReleaseTable
<1>5. handles' = {h \in handles : h.payload # v} /\ stale \subseteq stale'
  BY <1>1, <1>3, ReleasedOne
<1>6. /\ calls' \in [Threads -> CallRec]
      /\ \A u \in Threads \ {t} : SameCall(u)
      /\ calls'[t].op = "idle" /\ calls'[t].obj = Null
      /\ calls'[t].new = Null /\ calls'[t].swept = {}
  BY <1>1, ReturnEffect
<1>7. view' \in [Views -> ViewRec] /\ view'[v].mem = "gone" /\ \A w \in Views \ {v} : SameView(w)
  <2>1. view' = [view EXCEPT ![v] = NoView("gone")]
    BY <1>a DEF ReleaseHandle
  <2>2. QED
    BY <1>2, <2>1, NothingLeft DEF Typed, SameView
<1>8. Typed'
  BY <1>1, <1>6, <1>7 DEF Typed
<1>9. \A u \in Threads \ {t} : calls[u].obj # v /\ calls[u].new # v
  BY <1>a, <1>1, <1>2, Sorts DEF Exclusive
<1>10. \A e \in Datasets : InMap(e)' <=> InMap(e)
  BY <1>1 DEF InMap
<1>11. CallsInv'
  <2>1. ASSUME NEW u \in Threads \ {t} PROVE CallOK(u)'
    <3>1. CallOK(u) /\ SameCall(u) /\ calls[u].obj # v /\ calls[u].new # v
      BY <1>6, <1>9 DEF CallsInv
    <3>2. /\ calls[u].obj \in Views => SameView(calls[u].obj)
          /\ calls[u].new \in Views => SameView(calls[u].new)
      BY <1>7, <3>1
    <3>3. QED
      BY <1>1, <1>10, <3>1, <3>2 DEF CallOK, SameCall, SameView, Pc
  <2>2. CallOK(t)'
    BY <1>6 DEF CallOK, Pc
  <2>3. QED
    BY <2>1, <2>2 DEF CallsInv
<1>12. MapsInv'
  <2>1. MapsLive' /\ MapsEmpty'
    BY <1>1 DEF MapsInv, MapsLive, MapsEmpty
  <2>2. LiveMapped'
    BY <1>1, <1>2, <1>6, <1>10, Sorts DEF MapsInv, LiveMapped, SameCall
  <2>3. ViewsMapped'
    BY <1>1, <1>7, <1>10 DEF MapsInv, ViewsMapped, SameView
  <2>4. TasksMapped'
    BY <1>1, <1>10, FlatTypes DEF MapsInv, TasksMapped
  <2>5. QED
    BY <2>1, <2>2, <2>3, <2>4 DEF MapsInv
<1>13. Exclusive'
  BY <1>6, Sorts DEF CallsInv, CallOK, Exclusive, SameCall
<1>14. FinalInv'
  <2>1. AloneWithCore'
    BY <1>1, <1>6, <1>7 DEF CallsInv, CallOK, FinalInv, AloneWithCore, Finalizing, SameCall, SameView
  <2>2. TasksJoined'
    BY <1>1, <1>6 DEF FinalInv, TasksJoined, Finalizing, SameCall
  <2>3. MapCleared'
    BY <1>1, <1>6 DEF FinalInv, MapCleared, Finalizing, SameCall
  <2>4. SweptReleased'
    BY <1>1, <1>5, <1>6 DEF FinalInv, SweptReleased, SameCall
  <2>5. QED
    BY <2>1, <2>2, <2>3, <2>4 DEF FinalInv
<1>15. HandlesInv'
  <2>1. HandlesOfObjects'
    BY <1>1, <1>5, <1>7 DEF HandlesInv, HandlesOfObjects, SameView
  <2>2. CoresHaveHandles'
    BY <1>1, <1>2, <1>5, Sorts DEF HandlesInv, CoresHaveHandles
  <2>3. ViewsHaveHandles'
    BY <1>5, <1>7 DEF HandlesInv, ViewsHaveHandles, SameView
  <2>4. DatasetsHadHandles'
    BY <1>1, <1>2, <1>5, Sorts DEF HandlesInv, DatasetsHadHandles
  <2>5. QED
    BY <2>1, <2>2, <2>3, <2>4 DEF HandlesInv
<1>16. ViewsCounted'
  <2>1. \A w \in Views \ {v} : BeingCounted(w)' <=> BeingCounted(w)
    BY <1>a, <1>2, <1>6, Sorts DEF BeingCounted, Pc, SameCall
  <2>2. BeingCounted(v)
    BY <1>a, <1>1 DEF BeingCounted
  <2>3. /\ \A w \in Views : view'[w].mem = "live" /\ ~BeingCounted(w)'
                              <=> view[w].mem = "live" /\ ~BeingCounted(w)
        /\ \A w \in Views : view'[w].mem = "live" /\ view[w].mem = "live"
                              => view'[w].ds = view[w].ds
    BY <1>7, <2>1, <2>2 DEF SameView
  <2>4. QED
    BY <1>1, <2>3, ViewsUntouched
<1>17. NoWrappedConfig'
  BY <1>1, ConfUntouched
<1>18. QED
  BY <1>4, <1>8, <1>11, <1>12, <1>13, <1>14, <1>15, <1>16, <1>17

\* amio_close releases the handle of its dataset and leaves the record in the map.
LEMMA CloseHandleKeeps ==
  ASSUME Inv, NEW t \in Threads, CloseHandle(t)
  PROVE  Inv'
<1> USE DEF Inv
<1>a. PICK d : d = calls[t].obj
  OBVIOUS
<1>1. /\ calls[t].op = "close" /\ calls[t].pc = "handle" /\ H!Release(ds[d].token, "Dataset")
      /\ Return(t) /\ core' = core /\ ds' = ds /\ view' = view /\ running' = running
  BY <1>a DEF CloseHandle, KeepRecord, Pc
<1>2. d \in Datasets /\ InMap(d) /\ ds[d].mem = "live" /\ calls[t].new = Null
  BY <1>a, <1>1 DEF CallsInv, CallOK, InMap, Pc, MapsInv, MapsLive
<1>3. PICK x \in handles : x.payload = d /\ x.token = ds[d].token
  BY <1>1, <1>2, DatasetHandle, ReleaseEffect
<1>4. TableInv'
  BY <1>1, <1>2, FlatTypes, ReleaseTable
<1>5. /\ handles' = {h \in handles : h.payload # d} /\ stale \subseteq stale'
      /\ \E r \in stale' : r.token = ds[d].token
  BY <1>1, <1>3, ReleasedOne
<1>6. /\ calls' \in [Threads -> CallRec]
      /\ \A u \in Threads \ {t} : SameCall(u)
      /\ calls'[t].op = "idle" /\ calls'[t].obj = Null
      /\ calls'[t].new = Null /\ calls'[t].swept = {}
  BY <1>1, ReturnEffect
<1>7. Typed'
  BY <1>1, <1>6 DEF Typed
<1>8. CallsInv'
  BY <1>1, <1>6 DEF CallsInv, CallOK, SameCall, InMap, Pc
<1>9. MapsInv'
  <2>1. MapsLive' /\ MapsEmpty'
    BY <1>1 DEF MapsInv, MapsLive, MapsEmpty
  <2>2. LiveMapped'
    BY <1>1, <1>2, <1>6, Sorts DEF MapsInv, LiveMapped, SameCall, InMap
  <2>3. ViewsMapped' /\ TasksMapped'
    BY <1>1 DEF MapsInv, ViewsMapped, TasksMapped, InMap
  <2>4. QED
    BY <2>1, <2>2, <2>3 DEF MapsInv
<1>10. Exclusive'
  BY <1>6, Sorts DEF CallsInv, CallOK, Exclusive, SameCall
<1>11. FinalInv'
  <2>1. AloneWithCore'
    BY <1>1, <1>6 DEF CallsInv, CallOK, FinalInv, AloneWithCore, Finalizing, SameCall
  <2>2. TasksJoined'
    BY <1>1, <1>6 DEF FinalInv, TasksJoined, Finalizing, SameCall
  <2>3. MapCleared'
    BY <1>1, <1>6 DEF FinalInv, MapCleared, Finalizing, SameCall
  <2>4. SweptReleased'
    BY <1>1, <1>5, <1>6 DEF FinalInv, SweptReleased, SameCall
  <2>5. QED
    BY <2>1, <2>2, <2>3, <2>4 DEF FinalInv
<1>12. HandlesInv'
  <2>1. HandlesOfObjects'
    BY <1>1, <1>5 DEF HandlesInv, HandlesOfObjects
  <2>2. CoresHaveHandles' /\ ViewsHaveHandles'
    BY <1>1, <1>2, <1>5, Sorts DEF HandlesInv, CoresHaveHandles, ViewsHaveHandles
  <2>3. DatasetsHadHandles'
    BY <1>1, <1>5 DEF HandlesInv, DatasetsHadHandles
  <2>4. QED
    BY <2>1, <2>2, <2>3 DEF HandlesInv
<1>13. ViewsCounted'
  <2>1. \A v \in Views : BeingCounted(v)' <=> BeingCounted(v)
    BY <1>1, <1>2, <1>6, Sorts DEF BeingCounted, Pc, SameCall
  <2>2. QED
    BY <1>1, <2>1, ViewsUntouched
<1>14. NoWrappedConfig'
  BY <1>1, ConfUntouched
<1>15. QED
  BY <1>4, <1>7, <1>8, <1>9, <1>10, <1>11, <1>12, <1>13, <1>14

\* amio_finalize releases the token of one dataset of the core, if it still resolves.
LEMMA FinalizeDatasetKeeps ==
  ASSUME Inv, NEW t \in Threads, NEW d \in Datasets, FinalizeDataset(t, d)
  PROVE  Inv'
<1> USE DEF Inv
<1>1. /\ calls[t].op = "finalize" /\ d \in core[calls[t].obj].datasets
      /\ core' = core /\ view' = view /\ running' = running
      /\ \/ H!Release(ds[d].token, "Dataset")
         \/ ~H!Resolves(ds[d].token, "Dataset") /\ UNCHANGED table
  BY DEF FinalizeDataset, Pc
<1>2. ds[d].mem = "live"
  BY <1>1 DEF CallsInv, CallOK, MapsInv, MapsLive
<1>3. /\ TableInv' /\ handles' = {h \in handles : h.payload # d} /\ stale \subseteq stale'
      /\ \E r \in stale' : r.token = ds[d].token
  <2>1. CASE H!Release(ds[d].token, "Dataset")
    <3>1. PICK x \in handles : x.payload = d /\ x.token = ds[d].token
      BY <1>2, <2>1, DatasetHandle, ReleaseEffect
    <3>2. TableInv'
      BY <2>1, FlatTypes, ReleaseTable
    <3>3. QED
      BY <2>1, <3>1, <3>2, ReleasedOne
  <2>2. CASE ~H!Resolves(ds[d].token, "Dataset") /\ UNCHANGED table
    <3>1. (\A x \in handles : x.payload # d) /\ (\E r \in stale : r.token = ds[d].token)
      BY <1>2, <2>2, DatasetHandle
    <3>2. handles' = handles /\ stale' = stale
      BY <2>2 DEF table
    <3>3. TableInv'
      BY <2>2, IdleTable
    <3>4. QED
      BY <3>1, <3>2, <3>3
  <2>3. QED
    BY <1>1, <2>1, <2>2
<1>4. ds' \in [Datasets -> DsRec] /\ \A e \in Datasets : SameDs(e)
  <2>1. PICK to \in {ds[d].driver, "closed"} : ds' = [ds EXCEPT ![d].driver = to]
    BY DEF FinalizeDataset
  <2>2. \A r \in DsRec : r.driver \in {"open", "closed"}
    BY DEF DsRec
  <2>3. to \in {"open", "closed"}
    BY <2>1, <2>2 DEF Typed
  <2>4. QED
    BY <2>1, <2>3, DriverEffect
<1>5. /\ calls' \in [Threads -> CallRec]
      /\ \A u \in Threads \ {t} : SameCall(u)
      /\ calls'[t].op = calls[t].op /\ calls'[t].pc = calls[t].pc
      /\ calls'[t].obj = calls[t].obj /\ calls'[t].new = calls[t].new
      /\ calls'[t].swept = calls[t].swept \cup {d}
  BY SweptEffect DEF FinalizeDataset
<1>6. \A u \in Threads : /\ calls'[u].op = calls[u].op /\ calls'[u].pc = calls[u].pc
                         /\ calls'[u].obj = calls[u].obj /\ calls'[u].new = calls[u].new
  BY <1>5 DEF SameCall
<1>7. Typed'
  BY <1>1, <1>4, <1>5 DEF Typed
<1>8. \A e \in Datasets : InMap(e)' <=> InMap(e)
  BY <1>1, <1>4 DEF InMap, SameDs
<1>9. CallsInv'
  <2>1. ASSUME NEW u \in Threads \ {t} PROVE CallOK(u)'
    <3>1. CallOK(u) /\ SameCall(u)
      BY <1>5 DEF CallsInv
    <3>2. QED
      BY <1>1, <1>4, <1>8, <3>1 DEF CallOK, SameCall, SameDs, Pc
  <2>2. CallOK(t)'
    <3>1. CallOK(t)
      BY DEF CallsInv
    <3>2. QED
      BY <1>1, <1>5, <3>1 DEF CallOK, Pc
  <2>3. QED
    BY <2>1, <2>2 DEF CallsInv
<1>10. MapsInv'
  <2>1. MapsLive' /\ MapsEmpty'
    BY <1>1, <1>4, FlatTypes DEF MapsInv, MapsLive, MapsEmpty, SameDs
  <2>2. LiveMapped'
    BY <1>4, <1>6, <1>8 DEF MapsInv, LiveMapped, SameDs
  <2>3. ViewsMapped'
    BY <1>1, <1>4, <1>8 DEF MapsInv, ViewsMapped, SameDs
  <2>4. TasksMapped'
    BY <1>1, <1>8, FlatTypes DEF MapsInv, TasksMapped
  <2>5. QED
    BY <2>1, <2>2, <2>3, <2>4 DEF MapsInv
<1>11. Exclusive'
  BY <1>6 DEF Exclusive
<1>12. FinalInv'
  <2>1. \A u \in Threads, c \in Cores : Finalizing(u, c)' <=> Finalizing(u, c)
    BY <1>6 DEF Finalizing
  <2>2. \A x \in Threads : calls[x].op \in {"close", "data"} =>
          ds'[calls[x].obj].core = ds[calls[x].obj].core
    BY <1>4 DEF CallsInv, CallOK, SameDs
  <2>3. AloneWithCore'
    BY <1>1, <1>6, <2>1, <2>2 DEF FinalInv, AloneWithCore
  <2>4. TasksJoined'
    BY <1>1, <1>4, <1>6, <2>1, FlatTypes DEF FinalInv, TasksJoined, SameDs
  <2>5. MapCleared'
    BY <1>1, <1>6, <2>1 DEF FinalInv, MapCleared
  <2>6. SweptReleased'
    BY <1>2, <1>3, <1>4, <1>5, FlatTypes DEF FinalInv, SweptReleased, SameCall, SameDs
  <2>7. QED
    BY <2>3, <2>4, <2>5, <2>6 DEF FinalInv
<1>13. HandlesInv'
  <2>1. HandlesOfObjects'
    BY <1>1, <1>3, <1>4 DEF HandlesInv, HandlesOfObjects, SameDs
  <2>2. CoresHaveHandles' /\ ViewsHaveHandles'
    BY <1>1, <1>3, Sorts DEF HandlesInv, CoresHaveHandles, ViewsHaveHandles
  <2>3. DatasetsHadHandles'
    BY <1>3, <1>4 DEF HandlesInv, DatasetsHadHandles, SameDs
  <2>4. QED
    BY <2>1, <2>2, <2>3 DEF HandlesInv
<1>14. ViewsCounted'
  <2>1. \A v \in Views : BeingCounted(v)' <=> BeingCounted(v)
    BY <1>6 DEF BeingCounted, Pc
  <2>2. QED
    BY <1>1, <1>4, <2>1, ViewsUntouched DEF SameDs
<1>15. NoWrappedConfig'
  BY <1>1, ConfUntouched
<1>16. QED
  BY <1>3, <1>7, <1>9, <1>10, <1>11, <1>12, <1>13, <1>14, <1>15

\* amio_finalize frees the datasets of the core, whose handles it has all released.
LEMMA FinalizeClearKeeps ==
  ASSUME Inv, NEW t \in Threads, FinalizeClear(t)
  PROVE  Inv'
<1> USE DEF Inv
<1>a. PICK c, D : c = calls[t].obj /\ D = core[c].datasets
  OBVIOUS
<1>1. /\ calls[t].op = "finalize" /\ calls[t].pc = "sweep" /\ calls[t].swept = D /\ Goto(t, "handle")
      /\ view' = view /\ running' = running /\ handles' = handles /\ stale' = stale
  BY <1>a DEF FinalizeClear, Pc, table
<1>2. c \in Cores /\ core[c].mem = "live" /\ Finalizing(t, c)
  BY <1>a, <1>1 DEF CallsInv, CallOK, Finalizing
<1>3. TableInv'
  BY IdleTable DEF FinalizeClear
<1>4. /\ calls' \in [Threads -> CallRec]
      /\ \A u \in Threads \ {t} : SameCall(u)
      /\ calls'[t].op = calls[t].op /\ calls'[t].pc = "handle" /\ calls'[t].obj = calls[t].obj
      /\ calls'[t].new = calls[t].new /\ calls'[t].swept = calls[t].swept
  BY <1>1, GotoEffect DEF Pcs
<1>5. \A u \in Threads : /\ calls'[u].op = calls[u].op /\ calls'[u].obj = calls[u].obj
                         /\ calls'[u].new = calls[u].new /\ calls'[u].swept = calls[u].swept
  BY <1>4 DEF SameCall
<1>6. /\ core' \in [Cores -> CoreRec]
      /\ \A e \in Cores \ {c} : SameCore(e)
      /\ core'[c].mem = core[c].mem /\ core'[c].token = core[c].token
      /\ core'[c].datasets = {}
      /\ core'[c].manifest = core[c].manifest /\ core'[c].cfg = core[c].cfg
  <2>1. core' = [core EXCEPT ![c].datasets = {}]
    BY <1>a DEF FinalizeClear
  <2>2. {} \in SUBSET Datasets
    OBVIOUS
  <2>3. QED
    BY <1>2, <2>1, <2>2, MapEffect
<1>7. /\ ds' \in [Datasets -> DsRec] /\ \A e \in Datasets \ D : SameDs(e)
      /\ \A e \in Datasets \cap D : ds'[e].mem = "gone"
  <2>1. ds' = [e \in Datasets |-> IF e \in D THEN NoDataset("gone") ELSE ds[e]]
    BY <1>a DEF FinalizeClear
  <2>2. QED
    BY <2>1, NothingLeft DEF Typed, SameDs
<1>8. Typed'
  BY <1>1, <1>4, <1>6, <1>7 DEF Typed
<1>9. \A e \in Datasets : ds[e].core # c => e \notin D
  BY <1>a, <1>2 DEF MapsInv, MapsLive
<1>10. \A e \in Datasets : InMap(e) /\ ds[e].core # c => InMap(e)' /\ SameDs(e)
  <2>1. SUFFICES ASSUME NEW e \in Datasets, InMap(e), ds[e].core # c PROVE InMap(e)' /\ SameDs(e)
    OBVIOUS
  <2>2. SameDs(e) /\ ds[e].core \in Cores /\ SameCore(ds[e].core)
    BY <1>6, <1>7, <1>9, <2>1 DEF InMap
  <2>3. QED
    BY <2>1, <2>2 DEF InMap, SameDs, SameCore
<1>11. /\ \A u \in Threads : calls[u].op = "open" => calls[u].obj # c
       /\ \A u \in Threads : calls[u].op \in {"close", "data"} => ds[calls[u].obj].core # c
       /\ \A v \in Views : view[v].mem = "live" => view[v].core # c
  BY <1>2 DEF FinalInv, AloneWithCore
<1>12. \A e \in running : ds[e].core # c
  BY <1>1, <1>2 DEF FinalInv, TasksJoined
<1>13. \A e \in Cores : core'[e].mem = core[e].mem
  BY <1>6 DEF SameCore
<1>14. CallsInv'
  <2>1. ASSUME NEW u \in Threads \ {t} PROVE CallOK(u)'
    <3>1. CallOK(u) /\ SameCall(u)
      BY <1>4 DEF CallsInv
    <3>2. calls[u].op \in {"close", "data"} => InMap(calls[u].obj)'
      BY <1>10, <1>11, <3>1, <1>5 DEF CallOK
    <3>3. Pc(u, "open", "register") => SameDs(calls[u].new)
      BY <1>7, <1>9, <1>11, <3>1 DEF CallOK, Pc
    <3>4. QED
      BY <1>1, <1>13, <3>1, <3>2, <3>3 DEF CallOK, SameCall, SameDs, Pc
  <2>2. CallOK(t)'
    <3>1. CallOK(t)
      BY DEF CallsInv
    <3>2. QED
      BY <1>1, <1>4, <1>13, <3>1 DEF CallOK, Pc
  <2>3. QED
    BY <2>1, <2>2 DEF CallsInv
<1>15. MapsInv'
  <2>1. MapsLive'
    <3>1. SUFFICES ASSUME NEW e \in Cores, NEW d \in core'[e].datasets
                   PROVE  ds'[d].core = e /\ ds'[d].mem = "live"
      BY DEF MapsLive
    <3>2. e # c /\ d \in core[e].datasets
      BY <1>6, <3>1 DEF SameCore
    <3>3. d \in Datasets /\ ds[d].core = e /\ ds[d].mem = "live"
      BY <3>2, FlatTypes DEF MapsInv, MapsLive
    <3>4. QED
      BY <1>7, <1>9, <3>2, <3>3 DEF SameDs
  <2>2. MapsEmpty'
    BY <1>6 DEF MapsInv, MapsEmpty, SameCore
  <2>3. LiveMapped'
    <3>1. SUFFICES ASSUME NEW e \in Datasets, ds'[e].mem = "live"
                   PROVE  InMap(e)' \/ \E u \in Threads : calls'[u].new = e
      BY DEF LiveMapped
    <3>2. e \notin D /\ SameDs(e)
      BY <1>7, <3>1
    <3>3. InMap(e) \/ \E u \in Threads : calls[u].new = e
      BY <3>1, <3>2 DEF MapsInv, LiveMapped, SameDs
    <3>4. InMap(e) => ds[e].core # c
      BY <1>a, <3>2 DEF InMap
    <3>5. QED
      BY <1>5, <1>10, <3>3, <3>4
  <2>4. ViewsMapped'
    <3>1. SUFFICES ASSUME NEW v \in Views, view[v].mem = "live"
                   PROVE  view[v].ds \in Datasets /\ InMap(view[v].ds)'
                          /\ ds'[view[v].ds].core = view[v].core
      BY <1>1 DEF ViewsMapped
    <3>2. /\ view[v].ds \in Datasets /\ InMap(view[v].ds) /\ ds[view[v].ds].core = view[v].core
          /\ view[v].core # c
      BY <1>11, <3>1 DEF MapsInv, ViewsMapped
    <3>3. QED
      BY <1>1, <1>10, <3>2 DEF SameDs
  <2>5. TasksMapped'
    BY <1>1, <1>10, <1>12, FlatTypes DEF MapsInv, TasksMapped
  <2>6. QED
    BY <2>1, <2>2, <2>3, <2>4, <2>5 DEF MapsInv
<1>16. Exclusive'
  BY <1>5 DEF Exclusive
<1>17. FinalInv'
  <2>1. \A u \in Threads, e \in Cores : Finalizing(u, e)' <=> Finalizing(u, e)
    BY <1>5 DEF Finalizing
  <2>2. \A x \in Threads : calls[x].op \in {"close", "data"} =>
          ds'[calls[x].obj].core = ds[calls[x].obj].core
    BY <1>10, <1>11 DEF CallsInv, CallOK, SameDs
  <2>3. AloneWithCore'
    BY <1>1, <1>5, <2>1, <2>2 DEF FinalInv, AloneWithCore
  <2>4. \A e \in running : ds'[e].core = ds[e].core
    BY <1>7, <1>9, <1>12, FlatTypes DEF SameDs
  <2>5. \A u \in Threads, e \in Cores : Finalizing(u, e)' => u = t
    BY <1>1, <2>1 DEF Finalizing, CallsInv, CallOK
  <2>6. TasksJoined'
    BY <1>1, <2>1, <2>4, <2>5 DEF FinalInv, TasksJoined
  <2>7. MapCleared'
    BY <1>a, <1>5, <1>6, <2>5 DEF MapCleared, Finalizing
  <2>8. SweptReleased'
    BY <1>1, <1>5, <1>7, FlatTypes DEF FinalInv, SweptReleased, SameDs
  <2>9. QED
    BY <2>3, <2>6, <2>7, <2>8 DEF FinalInv
<1>18. HandlesInv'
  <2>1. \A h \in handles : h.payload \notin D
    BY <1>1 DEF FinalInv, SweptReleased
  <2>2. HandlesOfObjects'
    BY <1>1, <1>6, <1>7, <2>1 DEF HandlesInv, HandlesOfObjects, SameDs, SameCore
  <2>3. CoresHaveHandles' /\ ViewsHaveHandles'
    BY <1>1, <1>13 DEF HandlesInv, CoresHaveHandles, ViewsHaveHandles
  <2>4. DatasetsHadHandles'
    BY <1>1, <1>7 DEF HandlesInv, DatasetsHadHandles, SameDs
  <2>5. QED
    BY <2>2, <2>3, <2>4 DEF HandlesInv
<1>19. ViewsCounted'
  <2>1. \A v \in Views : BeingCounted(v)' <=> BeingCounted(v)
    BY <1>1, <1>4 DEF BeingCounted, Pc, SameCall
  <2>2. \A e \in Datasets : ds'[e].mem = "live" => ds[e].mem = "live" /\ ds'[e].views = ds[e].views
    BY <1>7 DEF SameDs
  <2>3. QED
    BY <1>1, <2>1, <2>2, ViewsUntouched
<1>20. NoWrappedConfig'
  BY <1>6, ConfUntouched DEF SameCore
<1>21. QED
  BY <1>3, <1>8, <1>14, <1>15, <1>16, <1>17, <1>18, <1>19, <1>20

\* amio_finalize releases the handle of the core and frees it: its map is empty.
LEMMA FinalizeCoreKeeps ==
  ASSUME Inv, NEW t \in Threads, FinalizeCore(t)
  PROVE  Inv'
<1> USE DEF Inv
<1>a. PICK c : c = calls[t].obj
  OBVIOUS
<1>1. /\ calls[t].op = "finalize" /\ calls[t].pc = "handle" /\ H!Release(core[c].token, "Core")
      /\ Return(t) /\ ds' = ds /\ view' = view /\ running' = running
  BY <1>a DEF FinalizeCore, Pc
<1>2. c \in Cores /\ core[c].mem = "live" /\ calls[t].new = Null /\ Finalizing(t, c)
  BY <1>a, <1>1 DEF CallsInv, CallOK, Pc, Finalizing
<1>3. PICK x \in handles : x.payload = c /\ x.token = core[c].token
  BY <1>2, Sorts DEF HandlesInv, HandlesOfObjects, CoresHaveHandles
<1>4. TableInv'
  BY <1>1, <1>2, FlatTypes, ReleaseTable
<1>5. handles' = {h \in handles : h.payload # c} /\ stale \subseteq stale'
  BY <1>1, <1>3, ReleasedOne
<1>6. /\ calls' \in [Threads -> CallRec]
      /\ \A u \in Threads \ {t} : SameCall(u)
      /\ calls'[t].op = "idle" /\ calls'[t].obj = Null
      /\ calls'[t].new = Null /\ calls'[t].swept = {}
  BY <1>1, ReturnEffect
<1>7. /\ core' \in [Cores -> CoreRec] /\ core'[c].mem = "gone" /\ core'[c].datasets = {}
      /\ \A e \in Cores \ {c} : SameCore(e)
  <2>1. core' = [core EXCEPT ![c] = NoCore("gone")]
    BY <1>a DEF FinalizeCore
  <2>2. QED
    BY <1>2, <2>1, NothingLeft DEF Typed, SameCore
<1>8. Typed'
  BY <1>1, <1>6, <1>7 DEF Typed
<1>9. core[c].datasets = {}
  BY <1>1, <1>2 DEF FinalInv, MapCleared
<1>10. \A e \in Datasets : InMap(e)' <=> InMap(e)
  BY <1>1, <1>2, <1>7, <1>9 DEF InMap, SameCore
<1>11. \A u \in Threads : calls[u].op = "open" => calls[u].obj # c
  BY <1>2 DEF FinalInv, AloneWithCore
<1>12. \A u \in Threads \ {t} : calls[u].op # "finalize"
  BY <1>1 DEF CallsInv, CallOK
<1>13. CallsInv'
  <2>1. ASSUME NEW u \in Threads \ {t} PROVE CallOK(u)'
    <3>1. CallOK(u) /\ SameCall(u)
      BY <1>6 DEF CallsInv
    <3>2. calls[u].op = "open" => SameCore(calls[u].obj)
      BY <1>7, <1>11, <3>1 DEF CallOK
    <3>3. QED
      BY <1>1, <1>10, <1>12, <3>1, <3>2 DEF CallOK, SameCall, SameCore, Pc
  <2>2. CallOK(t)'
    BY <1>6 DEF CallOK, Pc
  <2>3. QED
    BY <2>1, <2>2 DEF CallsInv
<1>14. MapsInv'
  <2>1. MapsLive'
    BY <1>1, <1>7 DEF MapsInv, MapsLive, SameCore
  <2>2. MapsEmpty'
    BY <1>7 DEF MapsInv, MapsEmpty, SameCore
  <2>3. LiveMapped'
    BY <1>1, <1>2, <1>6, <1>10, Sorts DEF MapsInv, LiveMapped, SameCall
  <2>4. ViewsMapped'
    BY <1>1, <1>10 DEF MapsInv, ViewsMapped
  <2>5. TasksMapped'
    BY <1>1, <1>10, FlatTypes DEF MapsInv, TasksMapped
  <2>6. QED
    BY <2>1, <2>2, <2>3, <2>4, <2>5 DEF MapsInv
<1>15. Exclusive'
  BY <1>6, Sorts DEF CallsInv, CallOK, Exclusive, SameCall
<1>16. FinalInv'
  <2>1. \A u \in Threads, e \in Cores : ~Finalizing(u, e)'
    BY <1>6, <1>12 DEF Finalizing, SameCall
  <2>2. AloneWithCore' /\ TasksJoined' /\ MapCleared'
    BY <2>1 DEF AloneWithCore, TasksJoined, MapCleared
  <2>3. SweptReleased'
    BY <1>1, <1>5, <1>6 DEF FinalInv, SweptReleased, SameCall
  <2>4. QED
    BY <2>2, <2>3 DEF FinalInv
<1>17. HandlesInv'
  <2>1. HandlesOfObjects'
    BY <1>1, <1>5, <1>7 DEF HandlesInv, HandlesOfObjects, SameCore
  <2>2. CoresHaveHandles'
    BY <1>5, <1>7 DEF HandlesInv, CoresHaveHandles, SameCore
  <2>3. ViewsHaveHandles'
    BY <1>1, <1>2, <1>5, Sorts DEF HandlesInv, ViewsHaveHandles
  <2>4. DatasetsHadHandles'
    BY <1>1, <1>2, <1>5, Sorts DEF HandlesInv, DatasetsHadHandles
  <2>5. QED
    BY <2>1, <2>2, <2>3, <2>4 DEF HandlesInv
<1>18. ViewsCounted'
  <2>1. \A v \in Views : BeingCounted(v)' <=> BeingCounted(v)
    BY <1>1, <1>2, <1>6, Sorts DEF BeingCounted, Pc, SameCall
  <2>2. QED
    BY <1>1, <2>1, ViewsUntouched
<1>19. NoWrappedConfig'
  BY <1>7, ConfUntouched DEF SameCore
<1>20. QED
  BY <1>4, <1>8, <1>13, <1>14, <1>15, <1>16, <1>17, <1>18, <1>19

-----------------------------------------------------------------------------
(* The invariant and what follows from it.                                 *)

\* Nothing exists before the first amio_init.
LEMMA InitInv == Init => Inv
<1> SUFFICES ASSUME Init PROVE Inv
  OBVIOUS
<1>1. /\ core = [c \in Cores |-> NoCore("unborn")] /\ ds = [d \in Datasets |-> NoDataset("unborn")]
      /\ view = [v \in Views |-> NoView("unborn")] /\ running = {}
      /\ calls = [t \in Threads |-> IdleCall]
  BY DEF Init
<1>2. 0 \in H!Tokens
  BY LifecycleAssumption DEF H!Tokens
<1>3. /\ NoCore("unborn") \in CoreRec /\ NoCore("unborn").mem = "unborn"
      /\ NoCore("unborn").datasets = {}
  BY <1>2 DEF NoCore, CoreRec, Mems, Configs
<1>4. NoDataset("unborn") \in DsRec /\ NoDataset("unborn").mem = "unborn"
  BY <1>2 DEF NoDataset, DsRec, Mems
<1>5. NoView("unborn") \in ViewRec /\ NoView("unborn").mem = "unborn"
  BY <1>2 DEF NoView, ViewRec, Mems
<1>6. /\ IdleCall \in CallRec /\ IdleCall.op = "idle" /\ IdleCall.obj = Null
      /\ IdleCall.new = Null /\ IdleCall.swept = {}
  BY DEF IdleCall, CallRec, Ops, Pcs
<1>7. /\ \A c \in Cores : core[c].mem = "unborn" /\ core[c].datasets = {}
      /\ \A d \in Datasets : ds[d].mem = "unborn"
      /\ \A v \in Views : view[v].mem = "unborn"
      /\ \A t \in Threads : /\ calls[t].op = "idle" /\ calls[t].obj = Null
                            /\ calls[t].new = Null /\ calls[t].swept = {}
  BY <1>1, <1>3, <1>4, <1>5, <1>6
<1>8. Typed
  BY <1>1, <1>3, <1>4, <1>5, <1>6 DEF Typed
<1>9. handles = {} /\ stale = {} /\ releases = [s \in H!SlotIndex |-> 0]
  BY DEF Init, H!Init
<1>10. TableInv
  <2>1. HP!Init
    BY DEF Init, H!Init, HP!Init, H!SlotIndex, HP!SlotIndex, H!kMinGeneration, HP!kMinGeneration
  <2>2. HP!Inv
    BY <2>1, HP!InitInv, TableAssumption
  <2>3. QED
    BY <1>9, <2>2, LifecycleAssumption DEF TableInv
<1>11. CallsInv
  BY <1>7 DEF CallsInv, CallOK, Pc
<1>12. MapsInv
  BY <1>1, <1>7 DEF MapsInv, MapsLive, MapsEmpty, LiveMapped, ViewsMapped, TasksMapped
<1>13. Exclusive
  BY <1>7 DEF Exclusive
<1>14. FinalInv
  BY <1>7 DEF FinalInv, AloneWithCore, TasksJoined, MapCleared, SweptReleased, Finalizing
<1>15. HandlesInv
  BY <1>7, <1>9 DEF HandlesInv, HandlesOfObjects, CoresHaveHandles, ViewsHaveHandles,
     DatasetsHadHandles
<1>16. ViewsCounted /\ NoWrappedConfig
  BY <1>7 DEF ViewsCounted, NoWrappedConfig
<1>17. QED
  BY <1>8, <1>10, <1>11, <1>12, <1>13, <1>14, <1>15, <1>16 DEF Inv

\* Every step keeps the invariant.
LEMMA NextKeeps == Inv /\ [Next]_vars => Inv'
<1> SUFFICES ASSUME Inv, [Next]_vars PROVE Inv'
  OBVIOUS
<1>1. CASE UNCHANGED vars
  BY <1>1, TasksKeep DEF vars
<1>2. CASE \E c \in Cores, m \in Manifests : amio_init(c, m)
  BY <1>2, amio_initKeeps
<1>3. CASE \E d \in Datasets : TasksEnd(d)
  BY <1>3, TasksKeep DEF TasksEnd
<1>4. ASSUME NEW t \in Threads,
             \/ \E op \in DOMAIN Entry, token \in Known : kind_dispatch(t, op, token)
             \/ OpenFails(t) \/ OpenRegister(t)
             \/ \E d \in Datasets, m \in DatasetManifests, mode \in {"read", "write"} :
                  OpenRecord(t, d, m, mode)
             \/ Resolve(t) \/ QueryReturns(t) \/ ReadReturns(t) \/ WriteReturns(t)
             \/ schedule_fetch(t) \/ \E v \in Views : ReadBuffer(t, v)
             \/ ReleaseCount(t) \/ ReleaseHandle(t)
             \/ CloseRefused(t) \/ CloseGuard(t) \/ CloseCancel(t) \/ CloseDriver(t)
             \/ CloseHandle(t)
             \/ FinalizeDrain(t) \/ FinalizeClear(t) \/ FinalizeCore(t)
             \/ \E d \in Datasets : FinalizeDataset(t, d)
      PROVE  Inv'
  BY <1>4, DispatchKeeps, QuietActions, OpenRegisterKeeps, OpenRecordKeeps, ReadReturnsKeeps,
     ReadBufferKeeps, ReleaseCountKeeps, ReleaseHandleKeeps, CloseHandleKeeps,
     FinalizeDrainKeeps, FinalizeClearKeeps, FinalizeCoreKeeps, FinalizeDatasetKeeps
<1>5. QED
  BY <1>1, <1>2, <1>3, <1>4 DEF Next

\* Inv holds in every reachable state, for every manifest and number of objects and
\* threads: the ownership rules of amio_core.cpp from amio_init to amio_finalize.
THEOREM LifecycleInvariant == Spec => []Inv
BY InitInv, NextKeeps, PTL DEF Spec

\* Where an object of each sort keeps its state.
LEMMA SortsOf ==
  /\ \A o \in Cores : Mem(o) = core[o].mem /\ TokenOf(o) = core[o].token /\ CoreOf(o) = o
  /\ \A o \in Datasets : Mem(o) = ds[o].mem /\ TokenOf(o) = ds[o].token /\ CoreOf(o) = ds[o].core
  /\ \A o \in Views : Mem(o) = view[o].mem /\ TokenOf(o) = view[o].token
                      /\ CoreOf(o) = view[o].core
BY Sorts DEF Mem, TokenOf, CoreOf

\* What the invariant says of the types.
LEMMA InvTypeOK == Inv => TypeOK
<1> SUFFICES ASSUME Inv PROVE TypeOK
  OBVIOUS
<1> USE DEF Inv
<1>1. H!TypeOK
  <2>1. HP!SlotIndex = H!SlotIndex /\ HP!Generations = H!Generations /\ HP!Tokens = H!Tokens
    BY DEF HP!SlotIndex, H!SlotIndex, HP!Generations, H!Generations, HP!Tokens, H!Tokens,
       HP!kMinGeneration, H!kMinGeneration
  <2>2. HP!TypeOK
    BY DEF TableInv, HP!Inv
  <2>3. QED
    BY <2>1, <2>2, Zenon DEF HP!TypeOK, H!TypeOK
<1>2. running \subseteq Datasets
  BY FlatTypes
<1>3. ASSUME NEW t \in Threads PROVE calls[t].op = "idle" <=> calls[t].obj = Null
  <2>1. calls[t].op \in Ops /\ CallOK(t)
    BY FlatTypes DEF CallsInv
  <2>2. QED
    BY <2>1, Sorts DEF CallOK, Ops
<1>4. \A c \in Cores : \A d \in core[c].datasets : ds[d].core = c /\ ds[d].mem = "live"
  BY DEF MapsInv, MapsLive
<1>5. \A d \in Datasets :
        ds[d].mem = "live" =>
          d \in core[ds[d].core].datasets \/ \E t \in Threads : calls[t].new = d
  BY DEF MapsInv, LiveMapped, InMap
<1>6. QED
  BY <1>1, <1>2, <1>3, <1>4, <1>5 DEF TypeOK

\* A dataset in a map, and so everything that refers to one, has a core that is alive.
LEMMA MappedLive ==
  ASSUME Inv, NEW d \in Datasets, InMap(d)
  PROVE  ds[d].mem = "live" /\ core[ds[d].core].mem = "live"
<1>1. ds[d].mem = "live"
  BY DEF Inv, InMap, MapsInv, MapsLive
<1>2. core[ds[d].core].mem = "live"
  BY DEF Inv, InMap, MapsInv, MapsEmpty
<1>3. QED
  BY <1>1, <1>2

\* What calls and tasks hold is in a map or has a handle, and so is allocated.
LEMMA InvNoDanglingUse == Inv => NoDanglingUse
<1> SUFFICES ASSUME Inv PROVE NoDanglingUse
  OBVIOUS
<1> USE DEF Inv
<1>1. ASSUME NEW v \in Views, view[v].mem = "live" PROVE core[view[v].core].mem = "live"
  BY <1>1, MappedLive DEF MapsInv, ViewsMapped
<1>2. ASSUME NEW d \in running PROVE ds[d].mem = "live" /\ core[ds[d].core].mem = "live"
  BY <1>2, FlatTypes, MappedLive DEF MapsInv, TasksMapped
<1>3. ASSUME NEW t \in Threads, calls[t].op # "idle"
      PROVE  Mem(calls[t].obj) = "live" /\ core[CoreOf(calls[t].obj)].mem = "live"
  <2>1. calls[t].op \in {"open", "finalize", "close", "data", "view"} /\ CallOK(t)
    BY <1>3, FlatTypes DEF CallsInv, Ops
  <2>2. CASE calls[t].op \in {"open", "finalize"}
    BY <2>1, <2>2, SortsOf DEF CallOK
  <2>3. CASE calls[t].op \in {"close", "data"}
    BY <2>1, <2>3, SortsOf, MappedLive DEF CallOK
  <2>4. CASE calls[t].op = "view"
    BY <1>1, <2>1, <2>4, SortsOf DEF CallOK
  <2>5. QED
    BY <2>1, <2>2, <2>3, <2>4
<1>4. QED
  BY <1>1, <1>2, <1>3 DEF NoDanglingUse

\* Handles and objects match, kind by kind.
LEMMA InvHandlesExact == Inv => HandlesExact
<1> SUFFICES ASSUME Inv PROVE HandlesExact
  OBVIOUS
<1> USE DEF Inv
<1>1. ASSUME NEW h \in handles
      PROVE  /\ H!Lookup(h.token, h.kind) = h.payload
             /\ Mem(h.payload) = "live" /\ TokenOf(h.payload) = h.token
  BY <1>1, HandleFacts, SortsOf DEF HandlesInv, HandlesOfObjects
<1>2. ASSUME NEW o \in Objects, Mem(o) = "live"
      PROVE  \/ \E h \in handles : h.payload = o
             \/ o \in Datasets /\ \E r \in stale : r.token = ds[o].token
  BY <1>2, SortsOf DEF Objects, HandlesInv, CoresHaveHandles, ViewsHaveHandles, DatasetsHadHandles
<1>3. QED
  BY <1>1, <1>2 DEF HandlesExact

\* The type invariant of the life cycle, with the table of handles and the maps of the
\* cores: a dataset is in the map of its core from its registration until amio_finalize.
THEOREM LifecycleTypeCorrect == Spec => []TypeOK
BY LifecycleInvariant, InvTypeOK, PTL

\* kind_dispatch pins nothing, and yet no call and no task of the worker pool works on
\* a core, a dataset or a view that was freed, as long as the host keeps its rules.
THEOREM NothingDangles == Spec => []NoDanglingUse
BY LifecycleInvariant, InvNoDanglingUse, PTL

\* Outstanding handles resolve to their own allocated objects and allocated objects
\* have handles, although amio_finalize releases tokens that may be stale.
THEOREM HandlesStayExact == Spec => []HandlesExact
BY LifecycleInvariant, InvHandlesExact, PTL

\* outstanding_views, which amio_close tests, is the number of views on the dataset
\* but for those that amio_read and amio_release_view are just counting.
THEOREM OutstandingViewsExact == Spec => []ViewsCounted
BY LifecycleInvariant, PTL DEF Inv

\* No integer of a manifest that ConfigLoader::parse accepts was wrapped by the cast to
\* size_t, whatever the word size beyond the largest limit.
THEOREM ConfigNeverWraps == Spec => []NoWrappedConfig
BY LifecycleInvariant, PTL DEF Inv

=============================================================================
