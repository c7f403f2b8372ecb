--------------------------- MODULE NoOLMController ---------------------------
(***************************************************************************)
(* The reconciler where the operator runs without OLM (NO_OLM=true), and   *)
(* the clones of the master CR.                                            *)
(*                                                                         *)
(* Three flows share the one worker.  ReconcileNoOLMMasterCR writes the    *)
(* OperandConfig from its own spec at the largest size of ALL CRs, clones  *)
(* included, and copies its spec to the clones (PropagateDefaultCR); it    *)
(* never calls updateOperandConfig.  ReconcileNoOLMGeneralCR does, from    *)
(* all CRs but the clones.  ReconcileNonConfigurableCR only sets the phase *)
(* of a clone.  What keeps the three together is that every event of a CR  *)
(* that is not the master, a status update too, enqueues the master.       *)
(*                                                                         *)
(* A spec is a size profile, a replica count of its own (0: none, the      *)
(* profile decides) and the pause annotation; the OperandConfig is the     *)
(* replica count of one operand, and a profile stands for its count.       *)
(***************************************************************************)
EXTENDS Integers, FiniteSets, FiniteSetsExt

CONSTANTS
    Master,      \* OperatorNs/common-service
    Generals,    \* CommonService CRs of other names
    Clones,      \* common-service in the other watched namespaces
    Absent,      \* no such object
    MaxSize,     \* size profiles are 1 .. MaxSize
    OwnCounts,   \* replica counts a user may set
    Edited,      \* bound: the specs users write
    MaxUpsets    \* bound: changes made by users and failing calls, together

CRs == {Master} \cup Generals \cup Clones
Sizes == 1 .. MaxSize
Specs == [size : Sizes, own : OwnCounts \cup {0}, paused : BOOLEAN]

\* A reconcile in progress: its CR, its next call, the CR as it was read, and the
\* namespaces that the propagation has yet to visit.
Steps == {"pause", "type", "phase", "install", "configs", "propagate", "succeed",
          "getOpcon", "update", "delete"}
Jobs == [cr : CRs, pc : Steps, copy : Specs \cup {Absent}, todo : SUBSET Clones]

ASSUME EditedAssumption == Edited \subseteq Specs
ASSUME NamesAssumption == Master \notin Generals \cup Clones /\ Generals \cap Clones = {}
ASSUME CountsAssumption ==
    MaxSize \in Nat \ {0} /\ IsFiniteSet(OwnCounts) /\ OwnCounts \subseteq Nat \ {0}
ASSUME BoundAssumption == MaxUpsets \in Nat
ASSUME AbsentAssumption == Absent \notin Specs /\ Absent \notin Jobs

VARIABLES
    spec,     \* API server: the CRs
    phase,    \* API server: status.phase
    opcon,    \* API server: the replica count in the OperandConfig, 0 if absent
    cache,    \* informer cache behind Client.Get and Client.List
    events,   \* what changed in a CR since the informer last delivered it
    typeOk,   \* ibm-cpp-config names the right cluster type
    crds,     \* the CRDs of ODLM are there
    queue,    \* the work queue
    job,      \* the reconcile in progress, or Absent
    upsets

vars == <<spec, phase, opcon, cache, events, typeOk, crds, queue, job, upsets>>
api == <<spec, phase, opcon, cache, events, typeOk, crds>>

FirstSpec == [size |-> 1, own |-> 0, paused |-> FALSE]

Init ==
    /\ spec = [c \in CRs |-> IF c = Master THEN FirstSpec ELSE Absent]
    /\ phase = [c \in CRs |-> ""]
    /\ opcon = 0
    /\ cache = spec
    /\ events = [c \in CRs |-> {}]
    /\ typeOk = TRUE
    /\ crds \in BOOLEAN
    /\ queue = {Master}
    /\ job = Absent
    /\ upsets = 0

-----------------------------------------------------------------------------
(* Users and informers.                                                     *)

\* A user creates or edits a CR; a clone too, which is theirs until the next
\* propagation.
Edit(c, s) ==
    /\ upsets < MaxUpsets
    /\ spec[c] # s
    /\ c \in Clones => spec[c] # Absent
    /\ spec' = [spec EXCEPT ![c] = s]
    /\ phase' = IF spec[c] = Absent THEN [phase EXCEPT ![c] = ""] ELSE phase
    /\ events' = [events EXCEPT ![c] = @ \cup {"spec"}]
    /\ upsets' = upsets + 1
    /\ UNCHANGED <<opcon, cache, typeOk, crds, queue, job>>

Delete(c) ==
    /\ upsets < MaxUpsets
    /\ c # Master /\ spec[c] # Absent
    /\ spec' = [spec EXCEPT ![c] = Absent]
    /\ events' = [events EXCEPT ![c] = @ \cup {"spec"}]
    /\ upsets' = upsets + 1
    /\ UNCHANGED <<phase, opcon, cache, typeOk, crds, queue, job>>

\* mappingToCsRequestForConfigMaps: a change of ibm-cpp-config enqueues the master.
EditClusterType ==
    /\ upsets < MaxUpsets
    /\ typeOk' = ~typeOk
    /\ queue' = queue \cup {Master}
    /\ upsets' = upsets + 1
    /\ UNCHANGED <<spec, phase, opcon, cache, events, crds, job>>

\* A change of spec, label or annotation enqueues the CR itself.
OwnRequest(c) == IF "spec" \in events[c] THEN {c} ELSE {}

\* Mutant: the events of a clone are not mapped to the master.
mappingNoClones(c) == IF c \in Generals THEN {Master} ELSE {}
\* Mutant: the master's own events are mapped to a request as well.
mappingEveryCR(c) == {Master}

\* Any event of a CR that is not the master enqueues the master.
mappingToCsRequestForCommonService(c) == IF c # Master THEN {Master} ELSE {}

Deliver(c) ==
    /\ events[c] # {}
    /\ cache' = [cache EXCEPT ![c] = spec[c]]
    /\ queue' = queue \cup OwnRequest(c) \cup mappingToCsRequestForCommonService(c)
    /\ events' = [events EXCEPT ![c] = {}]
    /\ UNCHANGED <<spec, phase, opcon, typeOk, crds, job, upsets>>

-----------------------------------------------------------------------------
(* The worker.                                                              *)

At(step) == job # Absent /\ job.pc = step
GoTo(step) == job' = [job EXCEPT !.pc = step]
Done == job' = Absent /\ UNCHANGED queue

\* Mutant of Retry: a reconcile that failed is forgotten.
RetryForgets == job' = Absent /\ UNCHANGED queue

\* The reconcile returns an error: the request is queued again.
Retry == job' = Absent /\ queue' = queue \cup {job.cr}

Unstarted(c, p) ==
    [cr |-> c, pc |-> p, copy |-> IF c \in Clones THEN cache[c] ELSE spec[c], todo |-> Clones]

\* Reconcile: which flow a request takes.  A clone is read from the cache, any
\* other CR from the API server.
Reconcile(c) ==
    /\ job = Absent
    /\ c \in queue
    /\ queue' = queue \ {c}
    /\ job' = CASE c \in Clones /\ cache[c] = Absent -> Absent
                [] c \in Clones /\ cache[c] # Absent -> Unstarted(c, "phase")
                [] c \notin Clones /\ spec[c] = Absent -> Unstarted(c, "delete")
                [] c \notin Clones /\ spec[c] # Absent ->
                     Unstarted(c, IF spec[c].paused THEN "pause"
                                  ELSE IF c = Master THEN "type" ELSE "phase")
    /\ UNCHANGED <<api, upsets>>

\* updatePhase is refused if the CR has changed since it was read.
Conflict == spec[job.cr] # job.copy

SetPhase(p) ==
    /\ phase' = [phase EXCEPT ![job.cr] = p]
    /\ events' = IF phase[job.cr] = p THEN events
                 ELSE [events EXCEPT ![job.cr] = @ \cup {"status"}]
    /\ UNCHANGED <<spec, opcon, cache, typeOk, crds, upsets>>

Refused == Conflict /\ Retry /\ UNCHANGED <<api, upsets>>

\* A paused CR only gets the phase Pending.
Pause ==
    /\ At("pause")
    /\ \/ Refused
       \/ ~Conflict /\ SetPhase("Pending") /\ Done

\* CheckClusterType: a wrong type fails the CR, and no error is returned.
CheckClusterType ==
    /\ At("type")
    /\ \/ typeOk /\ GoTo("phase") /\ UNCHANGED <<api, queue, upsets>>
       \/ ~typeOk /\ Conflict /\ Retry /\ UNCHANGED <<api, upsets>>
       \/ ~typeOk /\ ~Conflict /\ SetPhase("Failed") /\ Done

BeginPhase ==
    /\ At("phase")
    /\ \/ Refused
       \/ /\ ~Conflict
          /\ SetPhase(IF phase[job.cr] = "" THEN "Initializing" ELSE "Updating")
          /\ GoTo(CASE job.cr = Master -> "install"
                    [] job.cr \in Generals -> "getOpcon"
                    [] job.cr \in Clones -> "succeed")
          /\ UNCHANGED queue

Listed(S) == {c \in S : cache[c] # Absent}
LargestSize(S) == Max({cache[c].size : c \in Listed(S)} \cup {1})

\* Mutant of Asks: the two sizes are added.
AsksAdds(s, p) == s.own + p

\* What a CR asks for when profile p is applied to it.
Asks(s, p) == IF s.own # 0 THEN s.own ELSE p

\* InstallOrUpdateOpcon from the master alone: a count of its own, or the
\* largest profile of all CRs (getLargestSizeFromAllCRs lists the clones too).
InstallOrUpdateOpcon ==
    /\ At("install")
    /\ opcon' = IF crds THEN Asks(job.copy, LargestSize(CRs)) ELSE opcon
    /\ GoTo("configs")
    /\ UNCHANGED <<spec, phase, cache, events, typeOk, crds, queue, upsets>>

\* updateOperatorConfig and CreateUpdateConfig
UpdateConfigs ==
    /\ At("configs")
    /\ GoTo("propagate")
    /\ UNCHANGED <<api, queue, upsets>>

\* Create only: an existing clone is left as it is.
PropagateCreateOnly(n) ==
    /\ At("propagate") /\ n \in job.todo
    /\ spec' = IF spec[n] = Absent THEN [spec EXCEPT ![n] = cache[Master]] ELSE spec
    /\ events' = IF spec[n] = Absent THEN [events EXCEPT ![n] = @ \cup {"spec"}] ELSE events
    /\ phase' = IF spec[n] = Absent THEN [phase EXCEPT ![n] = ""] ELSE phase
    /\ job' = [job EXCEPT !.todo = @ \ {n}]
    /\ UNCHANGED <<opcon, cache, typeOk, crds, queue, upsets>>

\* PropagateDefaultCR, one namespace: the cached master is created, or written
\* over the clone if the cached clone differs.
PropagateDefaultCR(n) ==
    /\ At("propagate") /\ n \in job.todo
    /\ LET main == cache[Master]
           write == spec[n] = Absent \/ cache[n] # main
           refused == spec[n] # Absent /\ cache[n] # main /\ cache[n] # spec[n]
       IN  \/ refused /\ Retry /\ UNCHANGED <<spec, events, phase>>
           \/ /\ ~refused
              /\ spec' = IF write THEN [spec EXCEPT ![n] = main] ELSE spec
              /\ events' = IF write THEN [events EXCEPT ![n] = @ \cup {"spec"}] ELSE events
              /\ phase' = IF spec[n] = Absent THEN [phase EXCEPT ![n] = ""] ELSE phase
              /\ job' = [job EXCEPT !.todo = @ \ {n}]
              /\ UNCHANGED queue
    /\ UNCHANGED <<opcon, cache, typeOk, crds, upsets>>

Propagated ==
    /\ At("propagate") /\ job.todo = {}
    /\ GoTo("succeed")
    /\ UNCHANGED <<api, queue, upsets>>

Succeed ==
    /\ At("succeed")
    /\ \/ Refused
       \/ ~Conflict /\ SetPhase("Succeeded") /\ Done

\* ReconcileNoOLMGeneralCR needs the OperandConfig to exist.
GetOpcon ==
    /\ At("getOpcon")
    /\ \/ opcon # 0 /\ GoTo("update") /\ UNCHANGED <<api, queue, upsets>>
       \/ opcon = 0 /\ Conflict /\ Retry /\ UNCHANGED <<api, upsets>>
       \/ opcon = 0 /\ ~Conflict /\ SetPhase("Failed") /\ Retry

\* updateOperandConfig: the largest count of all CRs but the clones, each with
\* its own size and with the largest.
UpdateOperandConfig ==
    /\ At("update")
    /\ LET listed == Listed({Master} \cup Generals)
           largest == LargestSize({Master} \cup Generals)
       IN  opcon' = Max(UNION {{Asks(cache[c], cache[c].size), Asks(cache[c], largest)} : c \in listed})
    /\ GoTo("succeed")
    /\ UNCHANGED <<spec, phase, cache, events, typeOk, crds, queue, upsets>>

\* handleDelete: the smaller of what is there and what the others ask for.
HandleDelete ==
    /\ At("delete")
    /\ \/ opcon = 0 /\ Retry /\ UNCHANGED api
       \/ /\ opcon # 0
          /\ LET listed == Listed({Master} \cup Generals)
                 largest == LargestSize({Master} \cup Generals)
             IN  opcon' = Min({opcon, Max({Asks(cache[c], largest) : c \in listed})})
          /\ Done
          /\ UNCHANGED <<spec, phase, cache, events, typeOk, crds>>
    /\ UNCHANGED <<upsets>>

\* A call fails: the error is returned, after the phase was set to Failed where
\* the flow does so.
MarksFailed == {"type", "configs", "getOpcon", "update"}

Fault ==
    /\ job # Absent
    /\ upsets < MaxUpsets
    /\ upsets' = upsets + 1
    /\ Retry
    /\ IF job.pc \in MarksFailed /\ ~Conflict
       THEN /\ phase' = [phase EXCEPT ![job.cr] = "Failed"]
            /\ events' = IF phase[job.cr] = "Failed" THEN events
                         ELSE [events EXCEPT ![job.cr] = @ \cup {"status"}]
       ELSE UNCHANGED <<phase, events>>
    /\ UNCHANGED <<spec, opcon, cache, typeOk, crds>>

Work ==
    \/ Pause \/ CheckClusterType \/ BeginPhase
    \/ InstallOrUpdateOpcon \/ UpdateConfigs \/ Propagated \/ Succeed
    \/ GetOpcon \/ UpdateOperandConfig \/ HandleDelete
    \/ \E n \in Clones : PropagateDefaultCR(n)

Next ==
    \/ \E c \in CRs : (\E s \in Edited : Edit(c, s)) \/ Delete(c) \/ Deliver(c) \/ Reconcile(c)
    \/ EditClusterType
    \/ Work
    \/ Fault

Spec == Init /\ [][Next]_vars

\* Informers deliver, the queue is served in order and a reconcile goes on.
Fairness ==
    /\ WF_vars(Work)
    /\ \A c \in CRs : WF_vars(Deliver(c)) /\ SF_vars(Reconcile(c))

FairSpec == Spec /\ Fairness

-----------------------------------------------------------------------------
(* Properties.                                                              *)

\* Type invariant.
TypeOK ==
    /\ spec \in [CRs -> Specs \cup {Absent}] /\ cache \in [CRs -> Specs \cup {Absent}]
    /\ phase \in [CRs -> {"", "Initializing", "Updating", "Pending", "Failed", "Succeeded"}]
    /\ opcon \in {0} \cup Sizes \cup OwnCounts
    /\ events \in [CRs -> SUBSET {"spec", "status"}]
    /\ typeOk \in BOOLEAN /\ crds \in BOOLEAN
    /\ queue \subseteq CRs
    /\ job \in Jobs \cup {Absent}
    /\ upsets \in 0 .. MaxUpsets

Quiet == queue = {} /\ job = Absent /\ \A c \in CRs : events[c] = {}

\* The master's flow runs to its end when it runs.
MasterRuns == typeOk /\ ~spec[Master].paused

Existing(S) == {c \in S : spec[c] # Absent}
LargestProfile == Max({spec[c].size : c \in Existing({Master} \cup Generals)})

\* When nothing is left to do, the OperandConfig is sized by the specs now on
\* the server: no profile of a CR that exists is forgotten, nor a count the
\* master sets itself, and nothing is left of a clone a user edited, of clones
\* of an older master or of a CR that was deleted, all of which a reconcile may
\* have read.  That the count a general CR sets itself is kept is NOT said, and
\* the code does not keep it: see README.md, section 3.
QuiescentSize ==
    Quiet /\ crds /\ MasterRuns =>
        /\ opcon >= Asks(spec[Master], LargestProfile)
        /\ \E c \in Existing({Master} \cup Generals) : opcon = Asks(spec[c], LargestProfile)

\* When nothing is left to do, every clone is there and is the master's spec,
\* whatever users did to clones or master while it was propagated.
ClonesFollow == Quiet /\ MasterRuns => \A n \in Clones : spec[n] = spec[Master]

\* When nothing is left to do, a CR that is neither paused nor of the wrong
\* cluster type has Succeeded.
SettledPhase ==
    Quiet /\ MasterRuns =>
        \A c \in Existing(CRs) :
            phase[c] = IF c \in Generals /\ spec[c].paused THEN "Pending" ELSE "Succeeded"

\* Once users leave the CRs alone, the flows stop triggering each other: the
\* clones' status updates enqueue the master, whose propagation enqueues the
\* clones, and this comes to rest.
EventuallyQuiet == crds /\ <>[]MasterRuns => <>[]Quiet
=============================================================================
