----------------------- MODULE CommonServiceController -----------------------
(***************************************************************************)
(* The reconciler of the CommonService custom resources: the work queue,   *)
(* the informer cache behind Client.List, the API server's copy of every   *)
(* CR, and the OperandConfig that one worker computes from ALL the CRs.    *)
(*                                                                         *)
(* One reconcile is a sequence of API calls, and users edit CRs between    *)
(* any two of them, so every call is an action of its own.  Three flows    *)
(* share the worker (variable role): "master" is ReconcileMasterCR,        *)
(* "general" is ReconcileGeneralCR, "delete" is handleDelete.              *)
(*                                                                         *)
(* Data are abstracted to what the properties tell apart.  A CR's spec is  *)
(* a storage class and a size (0 is starterset).  The OperandConfig is the *)
(* storage class of its database resource, its size, and whether a field   *)
(* somebody added by hand to a service is still there.                     *)
(***************************************************************************)
EXTENDS Integers, FiniteSets, FiniteSetsExt

CONSTANTS
    CRs,             \* names of the CommonService CRs, clones excluded
    Master,          \* OperatorNs/common-service, the configurable CR
    StorageClasses,  \* values of spec.storageClass
    NoSC,            \* spec.storageClass left empty
    MaxSize,         \* largest size profile, sizes are 0 .. MaxSize
    AllNamespaces,   \* WATCH_NAMESPACE is empty: all namespaces are watched
    CppWatched,      \* ibm-cpp-config carries the label the cache selects on
    MaxEdits,        \* bound: changes made by users
    MaxFaults,       \* bound: API errors and expired waits
    MaxCrashes       \* bound: restarts of the operator

ASSUME MasterAssumption == Master \in CRs
ASSUME NoSCAssumption == NoSC \notin StorageClasses
ASSUME SizeAssumption == MaxSize \in Nat
ASSUME BoundAssumption ==
    /\ MaxEdits \in Nat /\ MaxFaults \in Nat /\ MaxCrashes \in Nat
    /\ CppWatched \in BOOLEAN /\ AllNamespaces \in BOOLEAN

VARIABLES
    live,      \* API server: the CRs that exist
    spec,      \* API server: their specs
    paused,    \* API server: the CRs with a pause annotation
    status,    \* API server: phase and conditions of each CR
    typeOk,    \* ibm-cpp-config names the right cluster type
    opcon,     \* API server: the OperandConfig
    odlm,      \* the ODLM operator
    cached,    \* informer cache: the CRs Client.List returns
    cacheSpec, \* informer cache: their specs
    notify,    \* events of each CR the informer has not delivered yet
    queue,     \* the work queue (a set: requests are deduplicated)
    pc,        \* the worker's next call, "idle" between reconciles
    role,      \* which flow the worker runs
    cur,       \* the CR it reconciles
    stale,     \* cur changed on the server since the worker last read it
    opStale,   \* the OperandConfig changed since the worker last read it
    mem,       \* the worker's in-memory copy of cur's status
    statusErr, \* ReconcileMasterCR's statusErr # nil when it returns
    retErr,    \* the error Reconcile returns # nil
    force,     \* forceUpdateODLMCRs
    crds,      \* existOpreg && existOpcon as InitResources saw it
    agg,       \* result of buildDesiredStateFromAllCRs
    largest,   \* result of getLargestSizeFromCRs
    settled,   \* history: cached CRs unchanged since the reconcile began
    edits, faults, crashes

apiVars    == <<live, spec, paused, status, typeOk>>
cacheVars  == <<cached, cacheSpec>>
workVars   == <<agg, largest>>
bounds     == <<edits, faults, crashes>>
vars == <<live, spec, paused, status, typeOk, opcon, odlm, cached, cacheSpec,
          notify, queue, pc, role, cur, stale, opStale, mem, statusErr, retErr,
          force, crds, agg, largest, settled, edits, faults, crashes>>

SCs   == StorageClasses \union {NoSC}
Sizes == 0 .. MaxSize
CRSpec == [sc : SCs, size : Sizes]
EmptySpec == [sc |-> NoSC, size |-> 0]

Phases == {"", "Initializing", "Updating", "Pending", "Failed", "Succeeded"}

\* CommonServiceStatus: the phase, and whether a Ready and an Error condition
\* are True.  The setters below never turn either of them off.
CommonServiceStatus == [phase : Phases, ready : BOOLEAN, error : BOOLEAN]
NewStatus == [phase |-> "", ready |-> FALSE, error |-> FALSE]

OperandConfig == [exists : BOOLEAN, sc : SCs, size : Sizes, manual : BOOLEAN]

(***************************************************************************)
(* The error handling of the flows, as sets of calls.  An error of a call  *)
(* in MarksFailed sets phase Failed before returning.  ReconcileMasterCR   *)
(* also remembers an error in statusErr, for its deferred function: an     *)
(* error of a call in KeepsError is still there at the return, one of a    *)
(* call in ReplacesError has been overwritten by the result of             *)
(* updatePhase(Failed), which is also what Reconcile then returns, and any *)
(* other error is returned but never stored in statusErr.                  *)
(***************************************************************************)
InitSteps   == {"init", "pending1", "install1", "subscribe", "wait",
                "pending2", "install2"}
UpdateSteps == {"opRead", "opLargest", "opWrite"}

MarksFailed(r) ==
    CASE r = "master"  -> {"maps", "clusterType", "clusterWrong", "build",
                           "certs", "operatorConfig", "collector"}
                          \union InitSteps \union UpdateSteps
      [] r = "general" -> {"getOpcon", "certs", "extract"} \union UpdateSteps
      [] OTHER         -> {}

KeepsError ==
    {"patch", "phase", "operatorConfig", "collector", "propagate", "labels",
     "rotation", "succeed"} \union InitSteps

ReplacesError == {"clusterWrong", "certs"}

MasterSteps ==
    {"patch", "phase", "maps", "clusterType", "clusterWrong", "build", "init",
     "pending1", "install1", "subscribe", "wait", "pending2", "install2", "opRead",
     "opLargest", "opWrite", "certs", "operatorConfig", "collector",
     "propagate", "labels", "rotation", "succeed", "subStatus", "defer"}
GeneralSteps ==
    {"gPhase", "getOpcon", "certs", "extract", "opRead", "opLargest",
     "opWrite", "labels", "rotation", "ready", "succeed", "pause"}
DeleteSteps == {"opRead", "opLargest", "opWrite", "certs"}

-----------------------------------------------------------------------------
(***************************************************************************)
(* What the CRs ask for                                                    *)
(***************************************************************************)

\* The storage classes a set of CRs declares.
Declared(S, sp) == {sp[c].sc : c \in S} \ {NoSC}

\* PASS 1 of buildDesiredStateFromAllCRs keeps the first non-empty storage
\* class in list order; the informer returns its items in no fixed order.
FeatureSC(S, sp) == IF Declared(S, sp) = {} THEN {NoSC} ELSE Declared(S, sp)

\* getLargestSizeFromCRs: the largest of the sizes, starterset without any.
LargestSize(S, sp) == Max({sp[c].size : c \in S} \union {0})

\* The OperandConfig asks for what the CRs in S ask for.
Matches(S, sp) ==
    /\ opcon.exists
    /\ opcon.sc \in FeatureSC(S, sp)
    /\ opcon.size = LargestSize(S, sp)

-----------------------------------------------------------------------------
Init ==
    /\ live = {Master}
    /\ spec \in {s \in [CRs -> CRSpec] : \A c \in CRs \ {Master} : s[c] = EmptySpec}
    /\ paused = {}
    /\ status = [c \in CRs |-> NewStatus]
    /\ typeOk = TRUE
    /\ opcon = [exists |-> FALSE, sc |-> NoSC, size |-> 0, manual |-> FALSE]
    /\ odlm = "absent"
    /\ cached = live
    /\ cacheSpec = spec
    /\ notify = [c \in CRs |-> "none"]
    /\ queue = live
    /\ pc = "idle" /\ role = "general" /\ cur = Master
    /\ stale = FALSE /\ opStale = FALSE
    /\ mem = NewStatus
    /\ statusErr = FALSE /\ retErr = FALSE /\ force = FALSE /\ crds = FALSE
    /\ agg = EmptySpec /\ largest = 0
    /\ settled = {}
    /\ edits = 0 /\ faults = 0 /\ crashes = 0

-----------------------------------------------------------------------------
(***************************************************************************)
(* Users and the platform                                                  *)
(***************************************************************************)

\* What every change a user makes to CR c does besides the change itself:
\* an event is on its way, and a worker that holds c has an old version.
Touch(c) ==
    /\ edits < MaxEdits
    /\ edits' = edits + 1
    /\ notify' = [notify EXCEPT ![c] = "spec"]
    /\ stale' = (stale \/ (pc # "idle" /\ cur = c))
    /\ settled' = settled \ {c}
    /\ UNCHANGED <<typeOk, opcon, odlm, cacheVars, queue, pc, role, cur,
                   opStale, mem, statusErr, retErr, force, crds, workVars,
                   faults, crashes>>

CreateCR(c, s) ==
    /\ c \notin live
    /\ live' = live \union {c}
    /\ spec' = [spec EXCEPT ![c] = s]
    /\ status' = [status EXCEPT ![c] = NewStatus]
    /\ Touch(c)
    /\ UNCHANGED paused

EditSpec(c, s) ==
    /\ c \in live
    /\ s # spec[c]
    /\ spec' = [spec EXCEPT ![c] = s]
    /\ Touch(c)
    /\ UNCHANGED <<live, paused, status>>

\* No finalizer is set on a CommonService: a deletion is immediate.
DeleteCR(c) ==
    /\ c \in live
    /\ live' = live \ {c}
    /\ paused' = paused \ {c}
    /\ spec' = [spec EXCEPT ![c] = EmptySpec]
    /\ status' = [status EXCEPT ![c] = NewStatus]
    /\ Touch(c)

\* Set or remove the annotation that reconcilePauseRequest looks for.
TogglePause(c) ==
    /\ c \in live
    /\ paused' = IF c \in paused THEN paused \ {c} ELSE paused \union {c}
    /\ Touch(c)
    /\ UNCHANGED <<live, spec, status>>

\* Somebody adds a field to a service of the OperandConfig by hand.
ManualEdit ==
    /\ edits < MaxEdits
    /\ edits' = edits + 1
    /\ opcon.exists /\ ~opcon.manual
    /\ opcon' = [opcon EXCEPT !.manual = TRUE]
    /\ opStale' = (opStale \/ pc \in {"opLargest", "opWrite"})
    /\ UNCHANGED <<apiVars, odlm, cacheVars, notify, queue, pc, role, cur,
                   stale, mem, statusErr, retErr, force, crds, workVars,
                   settled, faults, crashes>>

\* ibm-cpp-config changes; mappingToCsRequestForConfigMaps enqueues the
\* master CR, if the ConfigMap is one the cache selects.
EditCppConfig ==
    /\ edits < MaxEdits
    /\ edits' = edits + 1
    /\ typeOk' = ~typeOk
    /\ queue' = IF CppWatched THEN queue \union {Master} ELSE queue
    /\ UNCHANGED <<live, spec, paused, status, opcon, odlm, cacheVars, notify,
                   pc, role, cur, stale, opStale, mem, statusErr, retErr,
                   force, crds, workVars, settled, faults, crashes>>

\* OLM installs ODLM once it is subscribed to: its CRDs appear first, then
\* its CSV succeeds.  Later versions of it are installed the same way.
OdlmStep ==
    /\ \/ odlm = "subscribed" /\ odlm' = "upgrading"
       \/ odlm = "upgrading"  /\ odlm' = "ready"
    /\ UNCHANGED <<apiVars, opcon, cacheVars, notify, queue, pc, role, cur,
                   stale, opStale, mem, statusErr, retErr, force, crds,
                   workVars, settled, bounds>>

OdlmUpgrade ==
    /\ odlm = "ready"
    /\ edits < MaxEdits
    /\ edits' = edits + 1
    /\ odlm' = "upgrading"
    /\ UNCHANGED <<apiVars, opcon, cacheVars, notify, queue, pc, role, cur,
                   stale, opStale, mem, statusErr, retErr, force, crds,
                   workVars, settled, faults, crashes>>

CRDsExist == odlm \in {"upgrading", "ready"}

-----------------------------------------------------------------------------
(***************************************************************************)
(* Informer and work queue                                                 *)
(***************************************************************************)

\* Mutant of Requests: no event of another CR reaches the master.
RequestsOwn(c, event) == IF event = "spec" THEN {c} ELSE {}

\* The requests an event of CR c leads to: c itself, unless only its status
\* changed, and the master CR for any event of another CR
\* (mappingToCsRequestForCommonService).
Requests(c, event) ==
    (IF event = "spec" THEN {c} ELSE {}) \union (IF c # Master THEN {Master} ELSE {})

\* The informer delivers what it knows of c: first the cache, then the queue.
Deliver(c) ==
    /\ notify[c] # "none"
    /\ cached' = IF c \in live THEN cached \union {c} ELSE cached \ {c}
    /\ cacheSpec' = [cacheSpec EXCEPT ![c] = spec[c]]
    /\ queue' = queue \union Requests(c, notify[c])
    /\ notify' = [notify EXCEPT ![c] = "none"]
    /\ UNCHANGED <<apiVars, opcon, odlm, pc, role, cur, stale, opStale, mem,
                   statusErr, retErr, force, crds, workVars, settled, bounds>>

\* The worker is free again, with its variables at their initial values.
Idle ==
    /\ pc' = "idle" /\ role' = "general" /\ cur' = Master
    /\ stale' = FALSE /\ opStale' = FALSE
    /\ mem' = NewStatus
    /\ statusErr' = FALSE /\ retErr' = FALSE /\ force' = FALSE /\ crds' = FALSE
    /\ agg' = EmptySpec /\ largest' = 0
    /\ settled' = {}

\* Mutant of Finish: an error is not put back on the queue.
FinishForgets(err) == Idle /\ UNCHANGED queue

\* Reconcile returns: an error puts the request back on the queue.
Finish(err) ==
    /\ Idle
    /\ queue' = IF err THEN queue \union {cur} ELSE queue

\* Mutant of Restart: nothing is enqueued for the CRs that already exist.
RestartNoResync ==
    /\ Idle
    /\ cached' = live
    /\ cacheSpec' = spec
    /\ notify' = [c \in CRs |-> "none"]
    /\ queue' = {}
    /\ UNCHANGED <<apiVars, opcon, odlm>>

\* The process ends and starts again: the informer lists every CR anew and
\* delivers a create event for each.
Restart ==
    /\ Idle
    /\ cached' = live
    /\ cacheSpec' = spec
    /\ notify' = [c \in CRs |-> "none"]
    /\ queue' = UNION {Requests(c, "spec") : c \in live}
    /\ UNCHANGED <<apiVars, opcon, odlm>>

Crash ==
    /\ crashes < MaxCrashes
    /\ crashes' = crashes + 1
    /\ Restart
    /\ UNCHANGED <<edits, faults>>

\* Reconcile: read the CR from the API server and choose the flow.
Reconcile(c) ==
    /\ pc = "idle"
    /\ c \in queue
    /\ queue' = queue \ {c}
    /\ cur' = c
    /\ mem' = status[c]
    /\ settled' = {d \in live : notify[d] # "spec"}
    /\ \/ /\ c \notin live
          /\ role' = "delete" /\ pc' = "opRead"
       \/ /\ c \in paused
          /\ role' = "general" /\ pc' = "pause"
       \/ /\ c \in live \ paused
          /\ c = Master
          /\ role' = "master" /\ pc' = "patch"
       \/ /\ c \in live \ paused
          /\ c # Master
          /\ role' = "general" /\ pc' = "gPhase"
    /\ UNCHANGED <<apiVars, opcon, odlm, cacheVars, notify, stale, opStale,
                   statusErr, retErr, force, crds, workVars, bounds>>

-----------------------------------------------------------------------------
(***************************************************************************)
(* Status writes and returns                                               *)
(***************************************************************************)

\* Status().Update succeeds only on the version the worker has read.
CanWrite == cur \in live /\ ~stale

WriteStatus(m) ==
    /\ status' = [status EXCEPT ![cur] = m]
    /\ notify' = [notify EXCEPT ![cur] =
                    IF @ = "none" /\ cur # Master THEN "status" ELSE @]

KeepStatus == UNCHANGED <<status, notify>>

\* The call named by pc returns an error that costs that many faults, with m
\* the status in memory.  Where the code then calls updatePhase(Failed), that
\* write may fail too: always if the CR changed, else at the price of one
\* more fault.  ReconcileMasterCR goes on to its deferred function.
Marked(m) == IF pc \in MarksFailed(role) THEN [m EXCEPT !.phase = "Failed"] ELSE m

FailWith(m, cost, wrote) ==
    /\ wrote => pc \in MarksFailed(role) /\ CanWrite
    /\ faults' = IF pc \in MarksFailed(role) /\ CanWrite /\ ~wrote
                 THEN faults + cost + 1 ELSE faults + cost
    /\ faults' =< MaxFaults
    /\ IF wrote THEN WriteStatus(Marked(m)) ELSE KeepStatus
    /\ \/ /\ role = "master"
          /\ mem' = Marked(m)
          /\ statusErr' = (pc \in KeepsError \/ (pc \in ReplacesError /\ ~wrote))
          /\ retErr' = (pc \notin ReplacesError \/ ~wrote)
          /\ pc' = "defer"
          /\ UNCHANGED <<role, cur, stale, opStale, force, crds, workVars,
                         settled, queue>>
       \/ /\ role # "master"
          /\ Finish(TRUE)
    /\ UNCHANGED <<live, spec, paused, typeOk, opcon, odlm, cacheVars, edits,
                   crashes>>

Fail(m, cost) == \E wrote \in BOOLEAN : FailWith(m, cost, wrote)

\* Mutant of StartPhase: a condition type where a phase belongs.
StartPhaseWrong(m) == [m EXCEPT !.phase = "Reconciling"]

\* The phase a reconcile starts with: a CR without one is a new CR.
StartPhase(m) == [m EXCEPT !.phase = IF @ = "" THEN "Initializing" ELSE "Updating"]

\* Any call to the API server may fail, and any wait may expire.  updatePhase
\* sets the phase in memory before it calls the server.
Fault ==
    /\ pc \notin {"idle", "defer", "clusterWrong"}
    /\ pc = "maps" => AllNamespaces
    /\ Fail(CASE pc = "phase"   -> StartPhase(mem)
              [] pc = "succeed" -> [mem EXCEPT !.phase = "Succeeded"]
              [] OTHER          -> mem, 1)

\* The worker goes on to step t, status and OperandConfig as they were.
Goto(t) ==
    /\ pc' = t
    /\ UNCHANGED <<live, spec, paused, typeOk, odlm, cacheVars, queue, role,
                   cur, edits, faults, crashes>>

\* A call whose effects this module does not model.
Call(s, t) ==
    /\ pc = s
    /\ Goto(t)
    /\ UNCHANGED <<status, notify, opcon, stale, opStale, mem, statusErr,
                   retErr, force, crds, workVars, settled>>

\* updatePhase, and the other writes of the in-memory status: it is m that
\* is written, and m that stays in memory if the write meets a conflict.
PutStatus(m, t) ==
    \/ /\ CanWrite
       /\ WriteStatus(m)
       /\ mem' = m
       /\ Goto(t)
       /\ UNCHANGED <<opcon, stale, opStale, statusErr, retErr, force, crds,
                      workVars, settled>>
    \/ /\ ~CanWrite
       /\ Fail(m, 0)

-----------------------------------------------------------------------------
(***************************************************************************)
(* updateOperandConfig and handleDelete: read the OperandConfig, list the  *)
(* CRs (three times), write the result back.                               *)
(***************************************************************************)

\* Read the OperandConfig live; updateOperandConfig also lists the CRs and
\* builds the desired state from them.
OpRead ==
    /\ pc = "opRead"
    /\ \/ /\ ~opcon.exists
          /\ Fail(mem, 0)
       \/ /\ opcon.exists
          /\ IF role = "delete"
             THEN UNCHANGED agg
             ELSE \E sc \in FeatureSC(cached, cacheSpec) :
                    agg' = [sc |-> sc, size |-> LargestSize(cached, cacheSpec)]
          /\ opStale' = FALSE
          /\ force' = FALSE /\ crds' = FALSE /\ settled' = {}  \* not used again
          /\ Goto("opLargest")
          /\ UNCHANGED <<status, notify, opcon, stale, mem, statusErr, retErr,
                         largest>>

\* getLargestSizeFromCRs: a List of its own.
OpLargest ==
    /\ pc = "opLargest"
    /\ largest' = LargestSize(cached, cacheSpec)
    /\ Goto("opWrite")
    /\ UNCHANGED <<status, notify, opcon, stale, opStale, mem, statusErr,
                   retErr, force, crds, agg, settled>>

\* What updateOperandConfig makes of its three lists.  Where two storage
\* classes differ, shrinkSize(Max) keeps the one merged last from the third
\* list, and getExtremeizes merges the CRs in the order of a Go map.  A class
\* that only the third list has reaches the services the first list named.
Updated ==
    LET third == Declared(cached, cacheSpec)
        scs == IF third = {} THEN {agg.sc}
               ELSE IF agg.sc = NoSC THEN third \union {NoSC} ELSE third
        sz == IF cached # {} /\ largest > agg.size THEN largest ELSE agg.size
    IN  {[exists |-> TRUE, sc |-> sc, size |-> sz, manual |-> FALSE] : sc \in scs}

\* What handleDelete makes of the OperandConfig: shrinkSize(Min) against the
\* CRs that are left, with every field nobody asked for kept.
Shrunk ==
    LET declared == Declared(cached, cacheSpec)
        scs == IF opcon.sc = NoSC /\ declared # {} THEN declared \union {NoSC}
               ELSE {opcon.sc}
        sz  == IF cached # {} /\ largest < opcon.size THEN largest ELSE opcon.size
    IN  {[opcon EXCEPT !.sc = sc, !.size = sz] : sc \in scs}

AfterWrite == IF role = "general" THEN "labels" ELSE "certs"

\* The third List and the write.  updateOperandConfig writes only if the
\* hashes differ; a write on an old version is refused.
OpWrite ==
    /\ pc = "opWrite"
    /\ \E new \in (IF role = "delete" THEN Shrunk ELSE Updated) :
        LET old  == IF opStale THEN [opcon EXCEPT !.manual = FALSE] ELSE opcon
            same == role # "delete" /\ new = old
        IN  \/ /\ ~same /\ opStale
               /\ Fail(mem, 0)
            \/ /\ same \/ ~opStale
               /\ opcon' = IF same THEN opcon ELSE new
               /\ Goto(AfterWrite)
               /\ agg' = EmptySpec /\ largest' = 0 /\ opStale' = FALSE
               /\ UNCHANGED <<status, notify, stale, mem, statusErr, retErr,
                              force, crds, settled>>

-----------------------------------------------------------------------------
(***************************************************************************)
(* ReconcileMasterCR                                                       *)
(***************************************************************************)

\* Status().Patch carries no version: it succeeds on any version of the CR
\* and brings the worker's copy up to date.  The status differs from the one
\* read, which forces an update of the ODLM CRs, when the CR is new.
Patch ==
    /\ pc = "patch"
    /\ \/ cur \notin live /\ Fail(mem, 0)
       \/ /\ cur \in live
          /\ stale' = FALSE
          /\ force' = (mem.phase = "")
          /\ Goto("phase")
          /\ UNCHANGED <<status, notify, opcon, opStale, mem, statusErr,
                         retErr, crds, workVars, settled>>

\* Mutant of MasterPhase: success is reported before the work is done.
MasterPhaseEarly == pc = "phase" /\ PutStatus([mem EXCEPT !.phase = "Succeeded"], "maps")

MasterPhase == pc = "phase" /\ PutStatus(StartPhase(mem), "maps")

\* The common-service-maps ConfigMap: an error ends the process (os.Exit).
MapsExit ==
    /\ pc = "maps"
    /\ ~AllNamespaces
    /\ faults < MaxFaults
    /\ faults' = faults + 1
    /\ Restart
    /\ UNCHANGED <<edits, crashes>>

CheckClusterType == Call("clusterType", IF typeOk THEN "build" ELSE "clusterWrong")

ClusterWrong == pc = "clusterWrong" /\ Fail(mem, 0)

\* Mutant of Build: only the master CR is taken into account.
BuildMasterOnly ==
    /\ pc = "build"
    /\ agg' = cacheSpec[Master]
    /\ Goto("init")
    /\ UNCHANGED <<status, notify, opcon, stale, opStale, mem, statusErr,
                   retErr, force, crds, largest, settled>>

\* buildDesiredStateFromAllCRs, before the bootstrap.
Build ==
    /\ pc = "build"
    /\ \E sc \in FeatureSC(cached, cacheSpec) :
        agg' = [sc |-> sc, size |-> LargestSize(cached, cacheSpec)]
    /\ Goto("init")
    /\ UNCHANGED <<status, notify, opcon, stale, opStale, mem, statusErr,
                   retErr, force, crds, largest, settled>>

\* InitResources up to the first check for the ODLM CRDs.  An error of that
\* check is dropped: the CRDs then count as missing.
InitResources ==
    /\ pc = "init"
    /\ \E exist \in BOOLEAN :
        /\ exist => CRDsExist
        /\ crds' = exist
        /\ Goto(IF exist THEN "pending1" ELSE "subscribe")
    /\ UNCHANGED <<status, notify, opcon, stale, opStale, mem, statusErr,
                   retErr, force, workVars, settled>>

\* The Pending condition, written before the ODLM CRs are installed.
SetPending == \/ pc = "pending1" /\ PutStatus(mem, "install1")
              \/ pc = "pending2" /\ PutStatus(mem, "install2")

\* What InstallOrUpdateOpcon writes: the base with the aggregated state, and
\* the fields of an existing OperandConfig that neither of them has.
Merged == [exists |-> TRUE, sc |-> agg.sc, size |-> agg.size,
           manual |-> opcon.exists /\ opcon.manual]

InstallOrUpdateOpcon ==
    /\ pc \in {"install1", "install2"}
    /\ opcon' = Merged
    /\ Goto(IF pc = "install1" THEN "subscribe" ELSE "opRead")
    /\ UNCHANGED <<status, notify, stale, opStale, mem, statusErr, retErr,
                   force, crds, workVars, settled>>

\* CheckODLMCatalogSource and the ODLM subscription.
Subscribe ==
    /\ pc = "subscribe"
    /\ odlm' = IF odlm = "absent" THEN "subscribed" ELSE odlm
    /\ pc' = "wait"
    /\ UNCHANGED <<apiVars, opcon, cacheVars, notify, queue, role, cur, stale,
                   opStale, mem, statusErr, retErr, force, crds, workVars,
                   settled, bounds>>

\* waitOperatorCSV: having had to wait forces an update of the ODLM CRs.
WaitPoll ==
    /\ pc = "wait"
    /\ odlm # "ready" /\ ~force
    /\ force' = TRUE
    /\ Goto("wait")
    /\ UNCHANGED <<status, notify, opcon, stale, opStale, mem, statusErr,
                   retErr, crds, workVars, settled>>

WaitDone ==
    /\ odlm = "ready"
    /\ Call("wait", IF ~crds \/ force THEN "pending2" ELSE "opRead")

\* The calls of the master's flow whose effects this module does not model:
\* the tenant map, the OperatorConfig, the collected configuration, the clones
\* and the status of the operators.
CsMaps == Call("maps", "clusterType")
updateOperatorConfig == Call("operatorConfig", "collector")
CreateUpdateConfig == Call("collector", "propagate")
PropagateDefaultCR == Call("propagate", "labels")
CheckSubOperatorStatus == Call("subStatus", "defer")

MasterCalls ==
    \/ CsMaps \/ updateOperatorConfig \/ CreateUpdateConfig
    \/ PropagateDefaultCR \/ CheckSubOperatorStatus

\* The deferred function.  Its own write may fail: that is only logged.  It is
\* left out if the status is the one first read, so only if this changes none.
Defer ==
    /\ pc = "defer"
    /\ LET m == [mem EXCEPT !.ready = @ \/ ~statusErr, !.error = @ \/ statusErr]
       IN  \/ CanWrite /\ WriteStatus(m) /\ UNCHANGED faults
           \/ (~CanWrite \/ m = mem) /\ KeepStatus /\ UNCHANGED faults
           \/ /\ CanWrite /\ KeepStatus
              /\ faults < MaxFaults
              /\ faults' = faults + 1
    /\ Finish(retErr)
    /\ UNCHANGED <<live, spec, paused, typeOk, opcon, odlm, cacheVars, edits,
                   crashes>>

-----------------------------------------------------------------------------
(***************************************************************************)
(* ReconcileGeneralCR, and the calls it shares with the other flows        *)
(***************************************************************************)

GeneralPhase == pc = "gPhase" /\ PutStatus(StartPhase(mem), "getOpcon")

GetOpcon == \/ opcon.exists /\ Call("getOpcon", "certs")
            \/ pc = "getOpcon" /\ ~opcon.exists /\ Fail(mem, 0)

\* DeployCertManagerCR is the last call of handleDelete's flow.
Certs ==
    \/ role = "master" /\ Call("certs", "operatorConfig")
    \/ role = "general" /\ Call("certs", "extract")
    \/ /\ role = "delete" /\ pc = "certs"
       /\ Finish(FALSE)
       /\ UNCHANGED <<apiVars, notify, opcon, odlm, cacheVars, bounds>>

\* updateOperandConfig has no use for what is extracted here: it can only fail.
ExtractCommonServiceConfigs == Call("extract", "opRead")
UpdateResourceLabel == Call("labels", "rotation")
UpdateManageCertRotationLabel ==
    Call("rotation", IF role = "master" THEN "succeed" ELSE "ready")

GeneralCalls ==
    ExtractCommonServiceConfigs \/ UpdateResourceLabel \/ UpdateManageCertRotationLabel

SetReady == pc = "ready" /\ PutStatus([mem EXCEPT !.ready = TRUE], "succeed")

\* The last write of a general CR's reconcile, and of a paused CR's.
PutLast(m) ==
    \/ /\ CanWrite
       /\ WriteStatus(m)
       /\ Finish(FALSE)
       /\ UNCHANGED <<live, spec, paused, typeOk, opcon, odlm, cacheVars, bounds>>
    \/ ~CanWrite /\ Fail(m, 0)

Succeed ==
    /\ pc = "succeed"
    /\ IF role = "master"
       THEN PutStatus([mem EXCEPT !.phase = "Succeeded"], "subStatus")
       ELSE PutLast([mem EXCEPT !.phase = "Succeeded"])

Pause == pc = "pause" /\ PutLast([mem EXCEPT !.phase = "Pending"])

-----------------------------------------------------------------------------
MasterStep ==
    \/ Patch \/ MasterPhase \/ CheckClusterType \/ ClusterWrong
    \/ Build \/ InitResources \/ SetPending \/ InstallOrUpdateOpcon
    \/ Subscribe \/ WaitPoll \/ WaitDone \/ MasterCalls \/ Defer

SharedStep ==
    \/ OpRead \/ OpLargest \/ OpWrite \/ Certs \/ GeneralCalls \/ Succeed

GeneralStep == GeneralPhase \/ GetOpcon \/ SetReady \/ Pause

WorkerStep == MasterStep \/ SharedStep \/ GeneralStep

User ==
    \/ \E c \in CRs, s \in CRSpec : CreateCR(c, s) \/ EditSpec(c, s)
    \/ \E c \in CRs : DeleteCR(c) \/ TogglePause(c)
    \/ ManualEdit
    \/ EditCppConfig

Next ==
    \/ User
    \/ OdlmStep
    \/ OdlmUpgrade
    \/ \E c \in CRs : Deliver(c) \/ Reconcile(c)
    \/ WorkerStep
    \/ Fault
    \/ MapsExit
    \/ Crash

Spec == Init /\ [][Next]_vars

\* The informer delivers, the worker runs and OLM installs.  The work queue
\* is first in, first out, so no request in it is passed over for ever.
Fairness ==
    /\ WF_vars(OdlmStep)
    /\ WF_vars(WorkerStep)
    /\ \A c \in CRs : WF_vars(Deliver(c)) /\ SF_vars(Reconcile(c))

FairSpec == Spec /\ Fairness

-----------------------------------------------------------------------------
(***************************************************************************)
(* Properties                                                              *)
(***************************************************************************)

\* Every variable has its type; the worker's step belongs to its flow, and a
\* worker that is not deleting holds the status of its CR.
TypeOK ==
    /\ live \subseteq CRs /\ paused \subseteq live
    /\ spec \in [CRs -> CRSpec]
    /\ status \in [CRs -> CommonServiceStatus]
    /\ typeOk \in BOOLEAN
    /\ opcon \in OperandConfig
    /\ odlm \in {"absent", "subscribed", "upgrading", "ready"}
    /\ cached \subseteq CRs /\ cacheSpec \in [CRs -> CRSpec]
    /\ notify \in [CRs -> {"none", "status", "spec"}]
    /\ queue \subseteq CRs
    /\ role \in {"master", "general", "delete"}
    /\ role = "master"  => pc \in MasterSteps
    /\ role = "general" => pc \in GeneralSteps \union {"idle"}
    /\ role = "delete"  => pc \in DeleteSteps
    /\ cur \in CRs
    /\ stale \in BOOLEAN /\ opStale \in BOOLEAN
    /\ mem \in CommonServiceStatus
    /\ statusErr \in BOOLEAN /\ retErr \in BOOLEAN
    /\ force \in BOOLEAN /\ crds \in BOOLEAN
    /\ agg \in CRSpec /\ largest \in Sizes
    /\ settled \subseteq CRs
    /\ edits \in 0 .. MaxEdits /\ faults \in 0 .. MaxFaults
    /\ crashes \in 0 .. MaxCrashes

\* Nothing is left to do: no event on its way, no request, no reconcile.
Quiet ==
    /\ pc = "idle"
    /\ queue = {}
    /\ \A c \in CRs : notify[c] = "none"

\* Whatever edits, deletions, conflicts, errors and restarts came before, and
\* although one update lists the CRs three times: when the operator rests and
\* the master CR reports Succeeded, the OperandConfig asks for exactly what
\* the CRs now on the server ask for (updateOperandConfig, handleDelete).
QuiescentConverged ==
    Quiet /\ Master \in live /\ status[Master].phase = "Succeeded"
        => Matches(live, spec)

\* A CR never rests half-way: at rest an unpaused general CR has Succeeded,
\* the unpaused master has Succeeded or Failed, a paused CR is Pending.  Every
\* lost or refused status write is made up for by a retry (updatePhase).
SettledPhase ==
    Quiet => \A c \in live :
        status[c].phase \in IF c \in paused THEN {"Pending"}
                            ELSE IF c = Master THEN {"Succeeded", "Failed"} ELSE {"Succeeded"}

\* No CR reports Succeeded before the OperandConfig exists: the master has
\* been through InstallOrUpdateOpcon, a general CR has read it.
SucceededInstalled ==
    \A c \in CRs : status[c].phase = "Succeeded" => opcon.exists

\* The OperandConfig is complete when it is created: it takes into account
\* every CR that was in the cache when the reconcile began and has not
\* changed since (the aggregation before the bootstrap, ReconcileMasterCR).
CreatedComplete ==
    [][~opcon.exists /\ opcon'.exists =>
        \A c \in settled :
            /\ opcon'.size >= spec[c].size
            /\ spec[c].sc # NoSC => opcon'.sc # NoSC]_vars

\* Once users and faults stop, the OperandConfig follows the CRs for good,
\* as long as the master is there to be reconciled.
EventuallyConverged ==
    <>[](Master \in live \ paused /\ typeOk => Matches(live, spec))

\* What the repository says of the reconciler and its code does not do.

\* A failed call is tried again (the error paths of ReconcileMasterCR): once
\* faults stop, a master that may be reconciled does not stay Failed.
FailureRetried ==
    <>[](Master \in live \ paused /\ typeOk => status[Master].phase # "Failed")

=============================================================================
