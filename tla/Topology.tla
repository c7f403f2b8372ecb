------------------------------ MODULE Topology ------------------------------
(***************************************************************************)
(* Where the services of a tenant live.  The operator starts, a goroutine  *)
(* creates the master CR where there is none, and every pass over the      *)
(* master CR settles the services namespace (UpdateConfigStatus), removes  *)
(* the OperandRegistry and the OperandConfig from every other namespace    *)
(* (ConfigODLMOperandManagedByOperator) and installs them there.  Users    *)
(* edit the CR and request operands through the webhooks, and ODLM moves   *)
(* the phases of what the operator installed.                              *)
(***************************************************************************)
EXTENDS Integers, FiniteSets

CONSTANTS
    Namespaces,   \* those the operator watches
    Foreign,      \* a namespace it does not watch, or that does not exist
    OperatorNs,   \* the operator's own
    MasterNs,     \* ibm-common-services
    Absent,       \* no such object, or an empty field
    MaxEdits,     \* bound: changes made by users
    MaxRequests,  \* bound: changes of the OperandRequests
    MaxFaults     \* bound: failing calls and killed processes, together

ASSUME NamespacesAssumption ==
    /\ OperatorNs \in Namespaces /\ MasterNs \in Namespaces
    /\ Foreign \notin Namespaces /\ Absent \notin Namespaces \cup {Foreign}
ASSUME BoundsAssumption == MaxEdits \in Nat /\ MaxRequests \in Nat /\ MaxFaults \in Nat

VARIABLES
    allNs,       \* WATCH_NAMESPACE is empty: AllNamespaces mode
    exists,      \* API server: the namespaces
    cr,          \* API server: the master CR's spec, or Absent
    st,          \* API server: its status.configStatus.servicesNamespace
    registry,    \* API server: the OperandRegistry of each namespace, or Absent
    config,      \* API server: the phase of each OperandConfig, or Absent
    crd,         \* API server: the kinds of ODLM exist
    asked,       \* API server: the registryNamespaces of the OperandRequests
    pc,          \* where main, and then the reconciler's worker, is
    creator,     \* where the goroutine WaitToCreateCsCR is
    servicesNs,  \* CSData.ServicesNs, which both write
    mode,        \* CSData.ApprovalMode
    watching,    \* the OperandRegistry watch was set up at the start
    due,         \* the master CR is in the work queue
    inst,        \* the pass: the CR it has read
    stale,       \* the pass: the CR has changed since
    seen,        \* the pass: the objects listed outside the services namespace
    idle,        \* the pass: those of them that were idle
    clean,       \* the pass: nothing has kept it from seeing every object
    home,        \* ghost: the services namespace of the last pass, if clean
    raced,       \* ghost: ODLM deployed what was listed as idle
    late,        \* ghost: the goroutine overwrote ServicesNs for a CR it did not create
    unpatched,   \* ghost: ServicesNs has changed and the status has not
    swallowed,   \* ghost: a failing check or list was ignored
    ran,         \* ghost: services have been deployed
    edits, requests, faults

vars == <<allNs, exists, cr, st, registry, config, crd, asked, pc, creator, servicesNs, mode,
          watching, due, inst, stale, seen, idle, clean, home, raced, late, unpatched, swallowed, ran,
          edits, requests, faults>>
odlmVars == <<registry, config, crd, asked>>
passVars == <<inst, stale, seen, idle, clean>>
ghosts == <<home, raced, late, unpatched, swallowed, ran>>
bounds == <<edits, requests, faults>>

Approvals == {Absent, "Manual"}
Specs == [svc : Namespaces \cup {Absent}, approval : Approvals]
Registries == [phase : {"", "Ready", "Running"}, approval : {"Automatic", "Manual"}]
Phases == {"", "Init", "Running"}
ASSUME AbsentAssumption ==
    Absent \notin Specs /\ Absent \notin Registries /\ Absent \notin Phases \cup {"Manual"}

Init ==
    /\ allNs \in BOOLEAN
    /\ exists \in {Namespaces} \cup (IF allNs THEN {{OperatorNs}} ELSE {})
    /\ \/ \* a fresh installation
          /\ cr = Absent /\ st = Absent
          /\ registry = [n \in Namespaces |-> Absent]
          /\ config = [n \in Namespaces |-> Absent]
          /\ crd \in BOOLEAN
          /\ asked = {}
       \/ \* one an earlier process has made
          /\ \E h \in exists, deployed \in BOOLEAN :
                 /\ cr = [svc |-> h, approval |-> Absent]
                 /\ st = h
                 /\ registry = [n \in Namespaces |->
                        IF n # h THEN Absent
                        ELSE [phase |-> IF deployed THEN "Running" ELSE "Ready",
                              approval |-> "Automatic"]]
                 /\ config = [n \in Namespaces |->
                        IF n # h THEN Absent ELSE IF deployed THEN "Running" ELSE "Init"]
                 /\ asked = IF deployed THEN {h} ELSE {}
          /\ crd = TRUE
    /\ pc = "down" /\ creator = "done"
    /\ servicesNs = OperatorNs /\ mode = "Automatic" /\ watching = FALSE /\ due = FALSE
    /\ inst = Absent /\ stale = FALSE /\ seen = {} /\ idle = {} /\ clean = TRUE
    /\ home = Absent /\ raced = FALSE /\ late = FALSE /\ unpatched = FALSE /\ swallowed = FALSE
    /\ ran = (asked # {})
    /\ edits = 0 /\ requests = 0 /\ faults = 0

Serving == pc \notin {"down", "setup"}
InPass == Serving /\ pc # "idle"

\* The services namespace as the CR has it: status before spec.
GetServicesNamespace ==
    IF cr = Absent THEN OperatorNs
    ELSE IF st # Absent THEN st
    ELSE IF cr.svc # Absent THEN cr.svc ELSE OperatorNs

-----------------------------------------------------------------------------
(* Users, through the webhooks.                                             *)

\* The validating webhook: a namespace in the master CR is empty or watched.
CheckNamespace(n) == n = Absent \/ n \in Namespaces

\* The CR changes: its watch enqueues it, a pass that has read it is stale.
WriteCR(spec) ==
    /\ Serving /\ edits < MaxEdits
    /\ edits' = edits + 1
    /\ cr' = spec
    /\ due' = TRUE
    /\ stale' = InPass
    /\ UNCHANGED <<allNs, exists, st, odlmVars, pc, creator, servicesNs, mode, watching, inst, seen,
                   idle, clean, ghosts, requests, faults>>

\* A user creates the CR, or moves the services.
Move(n) ==
    /\ CheckNamespace(n)
    /\ cr # Absent => cr.svc # n
    /\ WriteCR([svc |-> n, approval |-> IF cr = Absent THEN Absent ELSE cr.approval])

\* spec.installPlanApproval.
Approve(a) ==
    /\ cr # Absent /\ cr.approval # a
    /\ WriteCR([cr EXCEPT !.approval = a])

CreateNamespace(n) ==
    /\ n \notin exists
    /\ exists' = exists \cup {n}
    /\ UNCHANGED <<allNs, cr, st, odlmVars, pc, creator, servicesNs, mode, watching, due, passVars,
                   ghosts, bounds>>

\* The mutating webhook: a request for a namespace that is not watched, or does
\* not exist, is for the services namespace.
Default(n) ==
    IF n = Foreign \/ (allNs /\ n \notin exists) THEN GetServicesNamespace ELSE n

\* An OperandRequest is created for n, or deleted.
ChangeRequests(new) ==
    /\ Serving /\ requests < MaxRequests
    /\ new # asked
    /\ requests' = requests + 1
    /\ asked' = new
    /\ UNCHANGED <<allNs, exists, cr, st, registry, config, crd, pc, creator, servicesNs, mode,
                   watching, due, passVars, ghosts, edits, faults>>

Request(n) == ChangeRequests(asked \cup {Default(n)})
Withdraw(n) == ChangeRequests(asked \ {n})

-----------------------------------------------------------------------------
(* ODLM.                                                                    *)

\* It follows the requests.  A registry whose number of operators changes
\* enqueues the master CR, if the kind was there when the operator started.
RegistryPhase(n) ==
    /\ registry[n] # Absent
    /\ LET phase == IF n \in asked THEN "Running" ELSE "Ready"
       IN  /\ phase # registry[n].phase
           /\ registry' = [registry EXCEPT ![n].phase = phase]
           /\ due' = (due \/ (Serving /\ watching /\ "Running" \in {phase, registry[n].phase}))
           /\ raced' = (raced \/ (phase = "Running" /\ pc = "deleteRegistries" /\ n \in idle))
           /\ ran' = (ran \/ phase = "Running")
    /\ UNCHANGED <<allNs, exists, cr, st, config, crd, asked, pc, creator, servicesNs, mode,
                   watching, passVars, home, late, unpatched, swallowed, bounds>>

\* Nothing is enqueued for an OperandConfig.
ConfigPhase(n) ==
    /\ config[n] # Absent
    /\ LET phase == IF n \in asked THEN "Running" ELSE "Init"
       IN  /\ phase # config[n]
           /\ config' = [config EXCEPT ![n] = phase]
           /\ raced' = (raced \/ (phase = "Running" /\ pc = "deleteConfigs" /\ n \in idle))
           /\ ran' = (ran \/ phase = "Running")
    /\ UNCHANGED <<allNs, exists, cr, st, registry, crd, asked, pc, creator, servicesNs, mode,
                   watching, due, passVars, home, late, unpatched, swallowed, bounds>>

-----------------------------------------------------------------------------
(* The start, and the goroutine that creates the CR.                        *)

\* NewBootstrap.
Start ==
    /\ pc = "down"
    /\ pc' = "setup"
    /\ creator' = "get"
    /\ servicesNs' = GetServicesNamespace
    /\ mode' = "Automatic"
    /\ watching' = crd
    /\ UNCHANGED <<allNs, exists, cr, st, odlmVars, due, passVars, ghosts, bounds>>

\* mgr.Start: the webhooks answer, and the informer lists the CR.
StartManager ==
    /\ pc = "setup"
    /\ pc' = "idle"
    /\ due' = (cr # Absent)
    /\ UNCHANGED <<allNs, exists, cr, st, odlmVars, creator, servicesNs, mode, watching, passVars,
                   ghosts, bounds>>

\* CreateCsCR looks for the CR.
FindCsCR ==
    /\ creator = "get"
    /\ creator' = IF cr = Absent THEN "create" ELSE "done"
    /\ UNCHANGED <<allNs, exists, cr, st, odlmVars, pc, servicesNs, mode, watching, due, passVars,
                   ghosts, bounds>>

\* Mutant: a CR that could not be created is not tried again.
CreateCsCROnce ==
    /\ creator = "create"
    /\ creator' = "done"
    /\ servicesNs' = IF allNs THEN MasterNs ELSE servicesNs
    /\ LET created == cr = Absent /\ Serving
       IN  /\ cr' = IF created THEN [svc |-> servicesNs', approval |-> Absent] ELSE cr
           /\ due' = (due \/ created)
    /\ late' = (late \/ (cr # Absent /\ servicesNs' # servicesNs))
    /\ clean' = (clean /\ servicesNs' = servicesNs)
    /\ UNCHANGED <<allNs, exists, st, odlmVars, pc, mode, watching, inst, stale, seen, idle, home,
                   raced, unpatched, swallowed, ran, bounds>>

\* CreateCsCR found none: in AllNamespaces mode the services go to MasterNs.  While
\* the webhook does not answer it starts over; a CR that is there by now stays as
\* it is, since the template's version is the smallest.
CreateCsCR ==
    /\ creator = "create"
    /\ creator' = IF cr = Absent /\ ~Serving THEN "get" ELSE "done"
    /\ servicesNs' = IF allNs THEN MasterNs ELSE servicesNs
    /\ LET created == cr = Absent /\ Serving
       IN  /\ cr' = IF created THEN [svc |-> servicesNs', approval |-> Absent] ELSE cr
           /\ due' = (due \/ created)
    /\ late' = (late \/ (cr # Absent /\ servicesNs' # servicesNs))
    /\ clean' = (clean /\ servicesNs' = servicesNs)
    /\ UNCHANGED <<allNs, exists, st, odlmVars, pc, mode, watching, inst, stale, seen, idle, home,
                   raced, unpatched, swallowed, ran, bounds>>

-----------------------------------------------------------------------------
(* One pass over the master CR.                                             *)

Begin ==
    /\ pc = "idle" /\ due
    /\ pc' = "status"
    /\ due' = FALSE
    /\ inst' = cr /\ stale' = FALSE /\ clean' = TRUE
    /\ home' = Absent
    /\ UNCHANGED <<allNs, exists, cr, st, odlmVars, creator, servicesNs, mode, watching, seen, idle,
                   raced, late, unpatched, swallowed, ran, bounds>>

\* Mutant: the next pass begins with the last one's CR.
FinishKeeps(err) ==
    /\ pc' = "idle"
    /\ due' = (due \/ err)
    /\ seen' = {} /\ idle' = {}
    /\ UNCHANGED <<inst, stale>>

\* Ends a pass: an error puts the CR back on the queue.
Finish(err) ==
    /\ pc' = "idle"
    /\ due' = (due \/ err)
    /\ inst' = Absent /\ stale' = FALSE /\ seen' = {} /\ idle' = {}

Abort ==
    /\ Finish(TRUE)
    /\ UNCHANGED <<servicesNs, mode, registry, config, crd, clean, home>>

\* The pass goes on to step t with what it knows.
Goto(t) == pc' = t /\ UNCHANGED <<due, inst, stale>>

\* Mutant: the services move wherever the spec says.
Unpinned == IF inst.svc # Absent THEN inst.svc ELSE servicesNs

\* UpdateConfigStatus: the services namespace is the spec's, unless the services
\* in the one of CSData count as deployed.
ServicesNamespace(deployed) == IF inst.svc # Absent /\ ~deployed THEN inst.svc ELSE servicesNs

\* CheckDeployStatus: they do, if their OperandConfig is Running.
PinnedServicesNs == ServicesNamespace(config[servicesNs] = "Running")

\* CSData has the namespace before the status has it.  The patch carries no
\* version, and its answer is the current CR.
SettleServicesNs(n) ==
    /\ pc = "status"
    /\ servicesNs' = n
    /\ st' = n
    /\ inst' = cr /\ stale' = FALSE
    /\ pc' = "init"
    /\ UNCHANGED <<allNs, exists, cr, odlmVars, creator, mode, watching, due, seen, idle, clean,
                   ghosts, edits, requests>>

UpdateConfigStatus == SettleServicesNs(PinnedServicesNs) /\ UNCHANGED faults

\* The Get of the OperandConfig fails: CheckDeployStatus drops the error, and the
\* services count as not deployed.
CheckFails ==
    /\ faults < MaxFaults
    /\ faults' = faults + 1
    /\ SettleServicesNs(ServicesNamespace(FALSE))

\* The patch fails, with or without the Get before it.
PatchFails ==
    /\ pc = "status" /\ faults < MaxFaults
    /\ faults' = faults + 1
    /\ servicesNs' \in {PinnedServicesNs, ServicesNamespace(FALSE)}
    /\ unpatched' = (unpatched \/ servicesNs' # st)
    /\ Finish(TRUE)
    /\ UNCHANGED <<allNs, exists, cr, st, odlmVars, creator, mode, watching, clean, home, raced,
                   late, swallowed, ran, edits, requests>>

\* The phase is written, the services namespace must exist, and InitResources
\* begins: an approval mode once given is the one of this process.
InitResources ==
    /\ pc = "init"
    /\ IF stale \/ (allNs /\ servicesNs \notin exists)
       THEN Abort
       ELSE /\ Goto("listRegistries")
            /\ mode' = IF inst.approval # Absent THEN inst.approval ELSE mode
            /\ UNCHANGED <<servicesNs, registry, config, crd, seen, idle, clean, home>>
    /\ UNCHANGED <<allNs, exists, cr, st, asked, creator, watching, raced, late, unpatched, swallowed, ran, bounds>>

\* Mutant: what is not in the services namespace is idle.
ListAllIdle(objects, ready) == seen' = objects /\ idle' = objects

\* The objects in other namespaces, as the list returns them.
List(objects, ready) == seen' = objects /\ idle' = ready

ListRegistries ==
    /\ pc = "listRegistries"
    /\ LET others == {n \in Namespaces \ {servicesNs} : registry[n] # Absent}
       IN  List(others, {n \in others : registry[n].phase = "Ready"})
    /\ Goto(IF crd THEN "deleteRegistries" ELSE "pending")
    /\ UNCHANGED <<allNs, exists, cr, st, odlmVars, creator, servicesNs, mode, watching, clean,
                   ghosts, bounds>>

\* One after the other: what was idle goes, what was not ends the pass.
DeleteRegistries ==
    /\ pc = "deleteRegistries"
    /\ \/ /\ seen = {}
          /\ Goto("listConfigs")
          /\ UNCHANGED <<servicesNs, mode, registry, config, crd, seen, idle, clean, home>>
       \/ \E n \in seen \cap idle :
              /\ registry' = [registry EXCEPT ![n] = Absent]
              /\ seen' = seen \ {n} /\ idle' = idle \ {n}
              /\ UNCHANGED <<pc, due, inst, stale, servicesNs, mode, config, crd, clean, home>>
       \/ /\ seen \ idle # {}
          /\ Abort
    /\ UNCHANGED <<allNs, exists, cr, st, asked, creator, watching, raced, late, unpatched, swallowed, ran, bounds>>

ListConfigs ==
    /\ pc = "listConfigs"
    /\ LET others == {n \in Namespaces \ {servicesNs} : config[n] # Absent}
       IN  List(others, {n \in others : config[n] = "Init"})
    /\ Goto("deleteConfigs")
    /\ UNCHANGED <<allNs, exists, cr, st, odlmVars, creator, servicesNs, mode, watching, clean,
                   ghosts, bounds>>

\* Mutant: a config that is in use is only skipped.
DeleteConfigsSkips ==
    /\ pc = "deleteConfigs"
    /\ \/ /\ seen \cap idle = {}
          /\ Goto("pending")
          /\ UNCHANGED <<servicesNs, mode, registry, config, crd, seen, idle, clean, home>>
       \/ \E n \in seen \cap idle :
              /\ config' = [config EXCEPT ![n] = Absent]
              /\ seen' = seen \ {n} /\ idle' = idle \ {n}
              /\ UNCHANGED <<pc, due, inst, stale, servicesNs, mode, registry, crd, clean, home>>
    /\ UNCHANGED <<allNs, exists, cr, st, asked, creator, watching, raced, late, unpatched, swallowed,
                   ran, bounds>>

DeleteConfigs ==
    /\ pc = "deleteConfigs"
    /\ \/ /\ seen = {}
          /\ Goto("pending")
          /\ UNCHANGED <<servicesNs, mode, registry, config, crd, seen, idle, clean, home>>
       \/ \E n \in seen \cap idle :
              /\ config' = [config EXCEPT ![n] = Absent]
              /\ seen' = seen \ {n} /\ idle' = idle \ {n}
              /\ UNCHANGED <<pc, due, inst, stale, servicesNs, mode, registry, crd, clean, home>>
       \/ /\ seen \ idle # {}
          /\ Abort
    /\ UNCHANGED <<allNs, exists, cr, st, asked, creator, watching, raced, late, unpatched, swallowed, ran, bounds>>

\* The Pending condition is written before anything is installed.
SetPending ==
    /\ pc = "pending"
    /\ IF stale
       THEN Abort
       ELSE /\ Goto("registry")
            /\ UNCHANGED <<servicesNs, mode, registry, config, crd, seen, idle, clean, home>>
    /\ UNCHANGED <<allNs, exists, cr, st, asked, creator, watching, raced, late, unpatched, swallowed, ran, bounds>>

\* A registry that is there keeps its status.  Without ODLM's kinds the pass has
\* installed ODLM and waited for them first.
InstallOrUpdateOpreg ==
    /\ pc = "registry"
    /\ Goto("config")
    /\ crd' = TRUE
    /\ registry' = [registry EXCEPT ![servicesNs] =
           [phase |-> IF @ = Absent THEN "" ELSE @.phase, approval |-> mode]]
    /\ UNCHANGED <<allNs, exists, cr, st, config, asked, creator, servicesNs, mode, watching, seen,
                   idle, clean, ghosts, bounds>>

InstallOrUpdateOpcon ==
    /\ pc = "config"
    /\ config' = [config EXCEPT ![servicesNs] = IF @ = Absent THEN "" ELSE @]
    /\ Finish(FALSE)
    /\ home' = IF clean THEN servicesNs ELSE Absent
    /\ UNCHANGED <<allNs, exists, cr, st, registry, crd, asked, creator, servicesNs, mode, watching,
                   clean, raced, late, unpatched, swallowed, ran, bounds>>

-----------------------------------------------------------------------------
(* Failures.                                                                *)

\* A call fails.
Fail ==
    /\ InPass /\ pc # "status" /\ faults < MaxFaults
    /\ faults' = faults + 1
    /\ Abort
    /\ UNCHANGED <<allNs, exists, cr, st, asked, creator, watching, raced, late, unpatched, swallowed, ran, edits,
                   requests>>

\* A list that fails is an empty one, a lookup of a kind that fails finds none, and
\* a cache that lags behind misses what it should list.
ListMisses ==
    /\ pc \in {"listRegistries", "listConfigs"} /\ faults < MaxFaults
    /\ faults' = faults + 1
    /\ seen' = {} /\ idle' = {}
    /\ Goto(IF pc = "listRegistries" THEN "deleteRegistries" ELSE "deleteConfigs")
    /\ clean' = FALSE /\ swallowed' = TRUE
    /\ UNCHANGED <<allNs, exists, cr, st, odlmVars, creator, servicesNs, mode, watching, home, raced,
                   late, unpatched, ran, edits, requests>>

\* The process ends.
Kill ==
    /\ pc # "down" /\ faults < MaxFaults
    /\ faults' = faults + 1
    /\ pc' = "down" /\ creator' = "done" /\ due' = FALSE
    /\ inst' = Absent /\ stale' = FALSE /\ seen' = {} /\ idle' = {} /\ clean' = TRUE
    /\ UNCHANGED <<allNs, exists, cr, st, odlmVars, servicesNs, mode, watching, ghosts, edits, requests>>

Pass ==
    \/ Begin \/ UpdateConfigStatus \/ InitResources \/ ListRegistries \/ DeleteRegistries
    \/ ListConfigs \/ DeleteConfigs \/ SetPending \/ InstallOrUpdateOpreg \/ InstallOrUpdateOpcon

Creator == FindCsCR \/ CreateCsCR

Odlm == \E n \in Namespaces : RegistryPhase(n) \/ ConfigPhase(n)

User ==
    \/ \E n \in Namespaces \cup {Foreign, Absent} : Move(n)
    \/ \E a \in Approvals : Approve(a)
    \/ \E n \in Namespaces : CreateNamespace(n)
    \/ \E n \in Namespaces \cup {Foreign} : Request(n)
    \/ \E n \in Namespaces : Withdraw(n)

Next == Start \/ StartManager \/ Creator \/ Pass \/ Odlm \/ User \/ Fail \/ CheckFails \/ PatchFails
        \/ ListMisses \/ Kill

Spec == Init /\ [][Next]_vars

\* The kubelet starts the process again, its goroutines and ODLM go on.  Nobody has
\* to create a namespace, or to change what is requested.
FairSpec ==
    Spec /\ WF_vars(Start) /\ WF_vars(StartManager) /\ WF_vars(Creator) /\ WF_vars(Pass)
         /\ \A n \in Namespaces : WF_vars(RegistryPhase(n)) /\ WF_vars(ConfigPhase(n))

-----------------------------------------------------------------------------
(* Properties.                                                              *)

\* The type invariant: only what has been listed is deleted.
TypeOK ==
    /\ allNs \in BOOLEAN /\ exists \subseteq Namespaces
    /\ cr \in Specs \cup {Absent} /\ st \in Namespaces \cup {Absent}
    /\ registry \in [Namespaces -> Registries \cup {Absent}]
    /\ config \in [Namespaces -> Phases \cup {Absent}]
    /\ crd \in BOOLEAN /\ asked \subseteq Namespaces
    /\ pc \in {"down", "setup", "idle", "status", "init", "listRegistries", "deleteRegistries",
               "listConfigs", "deleteConfigs", "pending", "registry", "config"}
    /\ creator \in {"get", "create", "done"}
    /\ servicesNs \in Namespaces /\ mode \in {"Automatic", "Manual"}
    /\ watching \in BOOLEAN /\ due \in BOOLEAN
    /\ inst \in Specs \cup {Absent} /\ (inst # Absent) <=> InPass
    /\ stale \in BOOLEAN /\ clean \in BOOLEAN /\ seen \subseteq Namespaces /\ idle \subseteq seen
    /\ home \in Namespaces \cup {Absent}
    /\ raced \in BOOLEAN /\ late \in BOOLEAN /\ unpatched \in BOOLEAN /\ swallowed \in BOOLEAN /\ ran \in BOOLEAN
    /\ edits \in 0 .. MaxEdits /\ requests \in 0 .. MaxRequests /\ faults \in 0 .. MaxFaults

\* After a pass that has succeeded and saw every object, the services have one
\* home: no OperandRegistry or OperandConfig of the tenant is left anywhere else,
\* whatever the earlier passes, which may have been cut short, have installed
\* (ConfigODLMOperandManagedByOperator).
OneHome ==
    home # Absent => \A n \in Namespaces \ {home} : registry[n] = Absent /\ config[n] = Absent

\* A pass never takes the OperandRegistry or the OperandConfig from under services
\* that are deployed, unless ODLM deploys them between its list and its delete.
RunningKept ==
    [][\A n \in Namespaces :
           /\ registry[n] # Absent /\ registry'[n] = Absent => registry[n].phase # "Running" \/ raced
           /\ config[n] = "Running" => config'[n] # Absent \/ raced]_vars

\* Services that are deployed pin the tenant to their namespace: the status names
\* no other one, whatever the CR says and however often the process starts over.
\* Two things excuse a move: CSData, which the check goes by, has lost the status's
\* namespace before, or the Get of this very check has failed (CheckDeployStatus
\* takes its error for services that are not deployed).
Pinned ==
    [][st # Absent /\ st' # st => config[st] # "Running" \/ late \/ unpatched \/ CheckFails]_vars

\* Everything is in the namespace that the status names, installed as the spec
\* says; that namespace is the spec's, unless services have ever been deployed.
InHome ==
    /\ cr # Absent /\ st # Absent
    /\ registry[st] # Absent /\ config[st] # Absent
    /\ \A n \in Namespaces \ {st} : registry[n] = Absent /\ config[n] = Absent
    /\ cr.approval # Absent => registry[st].approval = cr.approval
    /\ st = cr.svc \/ cr.svc = Absent \/ ran

\* What the code tells the user to put right: services are deployed somewhere else
\* than where the CR wants them, or that namespace does not exist.
Blocked ==
    /\ cr # Absent
    /\ \/ \E n \in Namespaces \ {cr.svc} : n \in asked /\ (registry[n] # Absent \/ config[n] # Absent)
       \/ allNs /\ st \notin exists

\* A CR exists in the end, and the services are in their home or the user has to
\* act, whatever fails on the way and however often the process starts over;
\* except after a failing list, which is ignored, or when the goroutine that
\* creates the CR overwrites the namespace of a CR it found missing before.
EventuallyHome == <>[](InHome \/ Blocked \/ late \/ swallowed)

=============================================================================
