--------------------------- MODULE TopologyProofs ---------------------------
(***************************************************************************)
(* Theorems about Topology, for any set of namespaces and any bounds: its  *)
(* types, the one home of the services, that a pass removes nothing that   *)
(* is in use, and that services which are deployed stay where they are.    *)
(***************************************************************************)
EXTENDS Topology, TLAPS

-----------------------------------------------------------------------------
(***************************************************************************)
(* Type correctness                                                        *)
(***************************************************************************)

\* As long as there is no CR, nothing is queued, no pass runs, and nothing has
\* been installed: what makes a pass find the CR.
NoCRInv ==
    cr = Absent => /\ st = Absent /\ ~due /\ ~InPass
                   /\ \A n \in Namespaces : registry[n] = Absent

TypeInv == TypeOK /\ NoCRInv

\* The state of the cluster and of the process at the start.
LEMMA InitType == Init => TypeInv
<1>. SUFFICES ASSUME Init PROVE TypeInv
  OBVIOUS
<1>. USE NamespacesAssumption, BoundsAssumption, AbsentAssumption DEF Init
<1>1. allNs \in BOOLEAN /\ exists \subseteq Namespaces
  OBVIOUS
<1>2. /\ ran \in BOOLEAN /\ servicesNs \in Namespaces
      /\ edits \in 0 .. MaxEdits /\ requests \in 0 .. MaxRequests /\ faults \in 0 .. MaxFaults
  OBVIOUS
<1>3. inst = Absent /\ ~InPass /\ ~due
  BY DEF InPass, Serving
<1>4. CASE /\ cr = Absent /\ st = Absent
           /\ registry = [n \in Namespaces |-> Absent]
           /\ config = [n \in Namespaces |-> Absent]
           /\ crd \in BOOLEAN
           /\ asked = {}
  <2>1. /\ registry \in [Namespaces -> Registries \cup {Absent}]
        /\ config \in [Namespaces -> Phases \cup {Absent}]
        /\ \A n \in Namespaces : registry[n] = Absent
    BY <1>4
  <2>. QED  BY <1>1, <1>2, <1>3, <1>4, <2>1 DEF TypeInv, TypeOK, NoCRInv
<1>5. ASSUME NEW h \in exists, NEW deployed \in BOOLEAN,
             cr = [svc |-> h, approval |-> Absent], st = h, crd = TRUE,
             registry = [n \in Namespaces |->
                 IF n # h THEN Absent
                 ELSE [phase |-> IF deployed THEN "Running" ELSE "Ready",
                       approval |-> "Automatic"]],
             config = [n \in Namespaces |->
                 IF n # h THEN Absent ELSE IF deployed THEN "Running" ELSE "Init"],
             asked = IF deployed THEN {h} ELSE {}
      PROVE  TypeInv
  <2>1. h \in Namespaces /\ cr \in Specs /\ cr # Absent
    BY <1>1, <1>5 DEF Specs, Approvals
  <2>2. registry \in [Namespaces -> Registries \cup {Absent}]
    BY <1>5 DEF Registries
  <2>3. config \in [Namespaces -> Phases \cup {Absent}]
    BY <1>5 DEF Phases
  <2>4. asked \subseteq Namespaces
    BY <1>5, <2>1
  <2>. QED  BY <1>1, <1>2, <1>3, <1>5, <2>1, <2>2, <2>3, <2>4 DEF TypeInv, TypeOK, NoCRInv
<1>. QED  BY <1>4, <1>5

\* Where the services are to be is a namespace.
LEMMA ServicesNsType ==
    ASSUME TypeInv
    PROVE  /\ GetServicesNamespace \in Namespaces
           /\ InPass => PinnedServicesNs \in Namespaces /\ ServicesNamespace(FALSE) \in Namespaces
BY NamespacesAssumption, AbsentAssumption
   DEF TypeInv, TypeOK, GetServicesNamespace, PinnedServicesNs, ServicesNamespace, Specs

\* The services namespace is settled, and the status patched.
LEMMA SettleType ==
    ASSUME TypeInv, NEW n \in Namespaces, SettleServicesNs(n), faults' \in 0 .. MaxFaults
    PROVE  TypeInv'
<1>. USE DEF odlmVars, passVars, ghosts, bounds
<1>1. InPass /\ InPass' /\ cr # Absent
  BY DEF SettleServicesNs, InPass, Serving, TypeInv, NoCRInv
<1>2. stale' \in BOOLEAN /\ inst' = cr /\ pc' = "init" /\ servicesNs' = n /\ st' = n
  BY DEF SettleServicesNs
<1>3. UNCHANGED <<allNs, exists, cr, odlmVars, creator, mode, watching, due, seen, idle, clean,
                  ghosts, edits, requests>>
  BY DEF SettleServicesNs
<1>. QED  BY <1>1, <1>2, <1>3 DEF TypeInv, TypeOK, NoCRInv

\* A change of the CR.
LEMMA WriteCRType ==
    ASSUME TypeInv, NEW spec \in Specs, WriteCR(spec)
    PROVE  TypeInv'
<1>. USE DEF WriteCR, odlmVars, ghosts
<1>1. edits' \in 0 .. MaxEdits
  BY BoundsAssumption DEF TypeInv, TypeOK
<1>2. spec # Absent
  BY AbsentAssumption
<1>3. stale' \in BOOLEAN /\ InPass' = InPass
  BY DEF InPass, Serving
<1>. QED  BY <1>1, <1>2, <1>3 DEF TypeInv, TypeOK, NoCRInv

\* What users do.
LEMMA UserType ==
    ASSUME TypeInv, User
    PROVE  TypeInv'
<1>1. ASSUME NEW n, Move(n)
      PROVE  TypeInv'
  <2>1. [svc |-> n, approval |-> IF cr = Absent THEN Absent ELSE cr.approval] \in Specs
    BY <1>1 DEF Move, CheckNamespace, TypeInv, TypeOK, Specs, Approvals
  <2>. QED  BY <1>1, <2>1, WriteCRType DEF Move
<1>2. ASSUME NEW a \in Approvals, Approve(a)
      PROVE  TypeInv'
  <2>1. [cr EXCEPT !.approval = a] \in Specs
    BY <1>2 DEF Approve, TypeInv, TypeOK, Specs
  <2>. QED  BY <1>2, <2>1, WriteCRType DEF Approve
<1>3. ASSUME NEW n \in Namespaces, CreateNamespace(n)
      PROVE  TypeInv'
  BY <1>3 DEF CreateNamespace, TypeInv, TypeOK, NoCRInv, InPass, Serving, odlmVars, passVars, ghosts, bounds
<1>4. ASSUME NEW new \in SUBSET Namespaces, ChangeRequests(new)
      PROVE  TypeInv'
  <2>1. requests' \in 0 .. MaxRequests
    BY <1>4, BoundsAssumption DEF ChangeRequests, TypeInv, TypeOK
  <2>. QED
    BY <1>4, <2>1 DEF ChangeRequests, TypeInv, TypeOK, NoCRInv, InPass, Serving, passVars, ghosts
<1>5. ASSUME NEW n \in Namespaces \cup {Foreign}, Request(n)
      PROVE  TypeInv'
  <2>1. asked \cup {Default(n)} \in SUBSET Namespaces
    BY ServicesNsType DEF Default, TypeInv, TypeOK
  <2>. QED  BY <1>4, <1>5, <2>1 DEF Request
<1>6. ASSUME NEW n \in Namespaces, Withdraw(n)
      PROVE  TypeInv'
  <2>1. asked \ {n} \in SUBSET Namespaces
    BY DEF TypeInv, TypeOK
  <2>. QED  BY <1>4, <1>6, <2>1 DEF Withdraw
<1>. QED  BY <1>1, <1>2, <1>3, <1>5, <1>6 DEF User

\* What ODLM does.
LEMMA OdlmType ==
    ASSUME TypeInv, Odlm
    PROVE  TypeInv'
<1>1. ASSUME NEW n \in Namespaces, RegistryPhase(n)
      PROVE  TypeInv'
  <2>. USE <1>1 DEF RegistryPhase
  <2>1. registry' \in [Namespaces -> Registries \cup {Absent}] /\ due' \in BOOLEAN
    BY DEF TypeInv, TypeOK, Registries
  <2>2. cr # Absent /\ cr' = cr
    BY DEF TypeInv, NoCRInv
  <2>3. raced' \in BOOLEAN /\ ran' \in BOOLEAN
    OBVIOUS
  <2>. QED  BY <2>1, <2>2, <2>3 DEF TypeInv, TypeOK, NoCRInv, InPass, Serving, passVars, bounds
<1>2. ASSUME NEW n \in Namespaces, ConfigPhase(n)
      PROVE  TypeInv'
  <2>. USE <1>2 DEF ConfigPhase
  <2>1. config' \in [Namespaces -> Phases \cup {Absent}]
    BY DEF TypeInv, TypeOK, Phases
  <2>2. raced' \in BOOLEAN /\ ran' \in BOOLEAN
    OBVIOUS
  <2>. QED  BY <2>1, <2>2 DEF TypeInv, TypeOK, NoCRInv, InPass, Serving, passVars, bounds
<1>. QED  BY <1>1, <1>2 DEF Odlm

\* The start of the process, and the goroutine that creates the CR.
LEMMA StartType ==
    ASSUME TypeInv, Start \/ StartManager \/ Creator
    PROVE  TypeInv'
<1>. USE DEF odlmVars, passVars, ghosts, bounds
<1>1. CASE Start
  <2>1. servicesNs' \in Namespaces /\ InPass' = InPass /\ watching' \in BOOLEAN
    BY <1>1, ServicesNsType DEF Start, InPass, Serving, TypeInv, TypeOK
  <2>. QED  BY <1>1, <2>1 DEF Start, TypeInv, TypeOK, NoCRInv
<1>2. CASE StartManager
  <2>1. InPass' = InPass /\ due' \in BOOLEAN
    BY <1>2 DEF StartManager, InPass, Serving
  <2>. QED  BY <1>2, <2>1 DEF StartManager, TypeInv, TypeOK, NoCRInv
<1>3. CASE FindCsCR
  BY <1>3 DEF FindCsCR, TypeInv, TypeOK, NoCRInv, InPass, Serving
<1>4. CASE CreateCsCR
  <2>. USE <1>4 DEF CreateCsCR
  <2>1. servicesNs' \in Namespaces
    BY NamespacesAssumption DEF TypeInv, TypeOK
  <2>2. [svc |-> servicesNs', approval |-> Absent] \in Specs
    BY <2>1 DEF Specs, Approvals
  <2>3. cr' \in Specs \cup {Absent} /\ (cr # Absent => cr' = cr)
    BY <2>2 DEF TypeInv, TypeOK
  <2>4. due' \in BOOLEAN /\ late' \in BOOLEAN /\ clean' \in BOOLEAN
    OBVIOUS
  <2>5. cr' = Absent => cr = Absent /\ due' = due
    BY <2>2, <2>3, AbsentAssumption DEF TypeInv, TypeOK
  <2>6. InPass' = InPass
    BY DEF InPass, Serving
  <2>. QED  BY <2>1, <2>3, <2>4, <2>5, <2>6 DEF TypeInv, TypeOK, NoCRInv
<1>. QED  BY <1>1, <1>2, <1>3, <1>4 DEF Creator

\* The end of a pass that leaves the cluster as it is.
LEMMA FinishType ==
    ASSUME TypeInv, NEW err \in BOOLEAN, Finish(err), InPass,
           servicesNs' \in Namespaces, faults' \in 0 .. MaxFaults,
           unpatched' \in BOOLEAN, home' \in Namespaces \cup {Absent},
           config' \in [Namespaces -> Phases \cup {Absent}],
           UNCHANGED <<allNs, exists, cr, st, registry, crd, asked, creator, mode, watching, clean,
                       raced, late, swallowed, ran, edits, requests>>
    PROVE  TypeInv'
<1>1. ~InPass' /\ inst' = Absent /\ due' \in BOOLEAN /\ stale' \in BOOLEAN /\ seen' = {} /\ idle' = {}
  BY DEF Finish, InPass, Serving
<1>2. cr # Absent /\ pc' = "idle"
  BY DEF TypeInv, NoCRInv, Finish
<1>. QED  BY <1>1, <1>2 DEF TypeInv, TypeOK, NoCRInv

\* The end of a pass with an error.
LEMMA AbortType ==
    ASSUME TypeInv, Abort, InPass, faults' \in 0 .. MaxFaults,
           UNCHANGED <<allNs, exists, cr, st, asked, creator, watching, raced, late, unpatched,
                       swallowed, ran, edits, requests>>
    PROVE  TypeInv'
<1>1. /\ servicesNs' \in Namespaces /\ unpatched' \in BOOLEAN
      /\ home' \in Namespaces \cup {Absent} /\ config' \in [Namespaces -> Phases \cup {Absent}]
  BY DEF Abort, TypeInv, TypeOK
<1>2. UNCHANGED <<allNs, exists, cr, st, registry, crd, asked, creator, mode, watching, clean,
                  raced, late, swallowed, ran, edits, requests>>
  BY DEF Abort
<1>. QED  BY <1>1, <1>2, FinishType DEF Abort

\* The steps of a pass.
LEMMA PassType ==
    ASSUME TypeInv, Pass
    PROVE  TypeInv'
<1>. USE DEF odlmVars, passVars, ghosts, bounds, Goto
<1>1. CASE Begin
  <2>1. cr # Absent /\ InPass'
    BY <1>1 DEF Begin, InPass, Serving, TypeInv, NoCRInv
  <2>2. /\ due' \in BOOLEAN /\ stale' \in BOOLEAN /\ clean' \in BOOLEAN
        /\ inst' = cr /\ pc' = "status" /\ home' = Absent
    BY <1>1 DEF Begin
  <2>3. UNCHANGED <<allNs, exists, cr, st, odlmVars, creator, servicesNs, mode, watching, seen, idle,
                    raced, late, unpatched, swallowed, ran, bounds>>
    BY <1>1 DEF Begin
  <2>. QED  BY <2>1, <2>2, <2>3 DEF TypeInv, TypeOK, NoCRInv
<1>2. CASE UpdateConfigStatus
  <2>1. InPass /\ faults' \in 0 .. MaxFaults
    BY <1>2 DEF UpdateConfigStatus, SettleServicesNs, InPass, Serving, TypeInv, TypeOK
  <2>. QED  BY <1>2, <2>1, ServicesNsType, SettleType DEF UpdateConfigStatus
<1>3. CASE InitResources
  <2>1. InPass /\ inst \in Specs
    BY <1>3 DEF InitResources, InPass, Serving, TypeInv, TypeOK
  <2>2. CASE Abort
    BY <1>3, <2>1, <2>2, AbortType DEF InitResources, TypeInv, TypeOK
  <2>3. CASE /\ Goto("listRegistries")
             /\ mode' = IF inst.approval # Absent THEN inst.approval ELSE mode
             /\ UNCHANGED <<servicesNs, registry, config, crd, seen, idle, clean, home>>
    <3>1. InPass'
      BY <2>3 DEF InPass, Serving
    <3>2. mode' \in {"Automatic", "Manual"}
      BY <2>1, <2>3 DEF Specs, Approvals, TypeInv, TypeOK
    <3>. QED  BY <1>3, <2>1, <2>3, <3>1, <3>2 DEF InitResources, TypeInv, TypeOK, NoCRInv
  <2>. QED  BY <1>3, <2>2, <2>3 DEF InitResources
<1>4. CASE ListRegistries
  <2>1. InPass /\ InPass'
    BY <1>4 DEF ListRegistries, InPass, Serving
  <2>2. seen' \subseteq Namespaces /\ idle' \subseteq seen'
    BY <1>4 DEF ListRegistries, List
  <2>. QED  BY <1>4, <2>1, <2>2 DEF ListRegistries, TypeInv, TypeOK, NoCRInv
<1>5. CASE ListConfigs
  <2>1. InPass /\ InPass'
    BY <1>5 DEF ListConfigs, InPass, Serving
  <2>2. seen' \subseteq Namespaces /\ idle' \subseteq seen'
    BY <1>5 DEF ListConfigs, List
  <2>. QED  BY <1>5, <2>1, <2>2 DEF ListConfigs, TypeInv, TypeOK, NoCRInv
<1>6. CASE DeleteRegistries
  <2>1. InPass
    BY <1>6 DEF DeleteRegistries, InPass, Serving
  <2>2. CASE Goto("listConfigs") /\ UNCHANGED <<servicesNs, mode, registry, config, crd, seen, idle, clean, home>>
    <3>1. InPass'
      BY <2>2 DEF InPass, Serving
    <3>. QED  BY <1>6, <2>1, <2>2, <3>1 DEF DeleteRegistries, TypeInv, TypeOK, NoCRInv
  <2>3. ASSUME NEW n \in seen \cap idle,
               registry' = [registry EXCEPT ![n] = Absent],
               seen' = seen \ {n}, idle' = idle \ {n},
               UNCHANGED <<pc, due, inst, stale, servicesNs, mode, config, crd, clean, home>>
        PROVE  TypeInv'
    <3>1. InPass' /\ cr # Absent
      BY <2>1, <2>3 DEF InPass, Serving, TypeInv, NoCRInv
    <3>2. registry' \in [Namespaces -> Registries \cup {Absent}]
      BY <2>3 DEF TypeInv, TypeOK
    <3>. QED  BY <1>6, <2>1, <2>3, <3>1, <3>2 DEF DeleteRegistries, TypeInv, TypeOK, NoCRInv
  <2>4. CASE Abort
    BY <1>6, <2>1, <2>4, AbortType DEF DeleteRegistries, TypeInv, TypeOK
  <2>. QED  BY <1>6, <2>2, <2>3, <2>4 DEF DeleteRegistries
<1>7. CASE DeleteConfigs
  <2>1. InPass
    BY <1>7 DEF DeleteConfigs, InPass, Serving
  <2>2. CASE Goto("pending") /\ UNCHANGED <<servicesNs, mode, registry, config, crd, seen, idle, clean, home>>
    <3>1. InPass'
      BY <2>2 DEF InPass, Serving
    <3>. QED  BY <1>7, <2>1, <2>2, <3>1 DEF DeleteConfigs, TypeInv, TypeOK, NoCRInv
  <2>3. ASSUME NEW n \in seen \cap idle,
               config' = [config EXCEPT ![n] = Absent],
               seen' = seen \ {n}, idle' = idle \ {n},
               UNCHANGED <<pc, due, inst, stale, servicesNs, mode, registry, crd, clean, home>>
        PROVE  TypeInv'
    <3>1. InPass' /\ cr # Absent
      BY <2>1, <2>3 DEF InPass, Serving, TypeInv, NoCRInv
    <3>2. config' \in [Namespaces -> Phases \cup {Absent}]
      BY <2>3 DEF TypeInv, TypeOK
    <3>. QED  BY <1>7, <2>1, <2>3, <3>1, <3>2 DEF DeleteConfigs, TypeInv, TypeOK, NoCRInv
  <2>4. CASE Abort
    BY <1>7, <2>1, <2>4, AbortType DEF DeleteConfigs, TypeInv, TypeOK
  <2>. QED  BY <1>7, <2>2, <2>3, <2>4 DEF DeleteConfigs
<1>8. CASE SetPending
  <2>1. InPass
    BY <1>8 DEF SetPending, InPass, Serving
  <2>2. CASE Abort
    BY <1>8, <2>1, <2>2, AbortType DEF SetPending, TypeInv, TypeOK
  <2>3. CASE Goto("registry") /\ UNCHANGED <<servicesNs, mode, registry, config, crd, seen, idle, clean, home>>
    <3>1. InPass'
      BY <2>3 DEF InPass, Serving
    <3>. QED  BY <1>8, <2>1, <2>3, <3>1 DEF SetPending, TypeInv, TypeOK, NoCRInv
  <2>. QED  BY <1>8, <2>2, <2>3 DEF SetPending
<1>9. CASE InstallOrUpdateOpreg
  <2>1. InPass /\ InPass' /\ cr # Absent
    BY <1>9 DEF InstallOrUpdateOpreg, InPass, Serving, TypeInv, NoCRInv
  <2>2. registry' \in [Namespaces -> Registries \cup {Absent}]
    BY <1>9 DEF InstallOrUpdateOpreg, TypeInv, TypeOK, Registries
  <2>3. crd' \in BOOLEAN /\ pc' = "config"
    BY <1>9 DEF InstallOrUpdateOpreg
  <2>4. UNCHANGED <<allNs, exists, cr, st, config, asked, creator, servicesNs, mode, watching, due,
                    passVars, ghosts, bounds>>
    BY <1>9 DEF InstallOrUpdateOpreg
  <2>. QED  BY <2>1, <2>2, <2>3, <2>4 DEF TypeInv, TypeOK, NoCRInv
<1>10. CASE InstallOrUpdateOpcon
  <2>1. InPass
    BY <1>10 DEF InstallOrUpdateOpcon, InPass, Serving
  <2>2. config' \in [Namespaces -> Phases \cup {Absent}] /\ home' \in Namespaces \cup {Absent}
    BY <1>10 DEF InstallOrUpdateOpcon, TypeInv, TypeOK, Phases
  <2>. QED  BY <1>10, <2>1, <2>2, FinishType DEF InstallOrUpdateOpcon, TypeInv, TypeOK
<1>. QED
  BY <1>1, <1>2, <1>3, <1>4, <1>5, <1>6, <1>7, <1>8, <1>9, <1>10 DEF Pass

\* Every step keeps the types.
LEMMA NextType ==
    ASSUME TypeInv, [Next]_vars
    PROVE  TypeInv'
<1>. USE DEF odlmVars, passVars, ghosts, bounds
<1>1. ASSUME faults < MaxFaults, faults' = faults + 1
      PROVE  faults' \in 0 .. MaxFaults
  BY <1>1, BoundsAssumption DEF TypeInv, TypeOK
<1>2. CASE Fail
  BY <1>1, <1>2, AbortType DEF Fail
<1>3. CASE PatchFails
  <2>1. InPass
    BY <1>3 DEF PatchFails, InPass, Serving
  <2>2. servicesNs' \in Namespaces /\ unpatched' \in BOOLEAN
    BY <1>3, <2>1, ServicesNsType DEF PatchFails
  <2>. QED  BY <1>1, <1>3, <2>1, <2>2, FinishType DEF PatchFails, TypeInv, TypeOK
<1>check. CASE CheckFails
  <2>1. InPass /\ faults' \in 0 .. MaxFaults
    BY <1>1, <1>check DEF CheckFails, SettleServicesNs, InPass, Serving
  <2>. QED  BY <1>check, <2>1, ServicesNsType, SettleType DEF CheckFails
<1>4. CASE ListMisses
  <2>1. InPass /\ InPass' /\ faults' \in 0 .. MaxFaults
    BY <1>1, <1>4 DEF ListMisses, Goto, InPass, Serving
  <2>2. /\ pc' \in {"deleteRegistries", "deleteConfigs"} /\ clean' \in BOOLEAN /\ swallowed' \in BOOLEAN
        /\ seen' = {} /\ idle' = {}
    BY <1>4 DEF ListMisses, Goto
  <2>3. UNCHANGED <<allNs, exists, cr, st, odlmVars, creator, servicesNs, mode, watching, due, inst,
                    stale, home, raced, late, unpatched, ran, edits, requests>>
    BY <1>4 DEF ListMisses, Goto
  <2>. QED  BY <2>1, <2>2, <2>3 DEF TypeInv, TypeOK, NoCRInv
<1>5. CASE Kill
  <2>1. ~InPass' /\ faults' \in 0 .. MaxFaults
    BY <1>1, <1>5 DEF Kill, InPass, Serving
  <2>2. /\ due' \in BOOLEAN /\ ~due' /\ stale' \in BOOLEAN /\ clean' \in BOOLEAN
        /\ inst' = Absent /\ seen' = {} /\ idle' = {} /\ pc' = "down" /\ creator' = "done"
    BY <1>5 DEF Kill
  <2>3. UNCHANGED <<allNs, exists, cr, st, odlmVars, servicesNs, mode, watching, ghosts, edits, requests>>
    BY <1>5 DEF Kill
  <2>. QED  BY <2>1, <2>2, <2>3 DEF TypeInv, TypeOK, NoCRInv
<1>6. CASE UNCHANGED vars
  BY <1>6 DEF vars, TypeInv, TypeOK, NoCRInv, InPass, Serving
<1>. QED
  BY <1>2, <1>3, <1>4, <1>5, <1>6, <1>check, StartType, PassType, OdlmType, UserType DEF Next

\* The inductive part of the types.
LEMMA TypeInvariance == Spec => []TypeInv
BY InitType, NextType, PTL DEF Spec

\* Every object, namespace and step of a pass has its type: a pass runs exactly
\* while it has a CR, and only deletes what it has listed.
THEOREM TypeCorrect == Spec => []TypeOK
BY TypeInvariance, PTL DEF TypeInv

-----------------------------------------------------------------------------
(***************************************************************************)
(* One home                                                                *)
(***************************************************************************)

\* What a pass that has missed nothing knows of the other namespaces: behind each
\* list everything that is there has been seen, behind each round of deletes
\* nothing is there.  Without ODLM's kinds there is nothing at all.
HomeInv ==
    /\ ~crd => \A n \in Namespaces : registry[n] = Absent /\ config[n] = Absent
    /\ pc = "config" => crd
    /\ InPass => home = Absent
    /\ OneHome
    /\ clean => \A n \in Namespaces \ {servicesNs} :
           /\ pc = "deleteRegistries" /\ registry[n] # Absent => n \in seen
           /\ pc \in {"listConfigs", "deleteConfigs", "pending", "registry", "config"} =>
                  registry[n] = Absent
           /\ pc = "deleteConfigs" /\ config[n] # Absent => n \in seen
           /\ pc \in {"pending", "registry", "config"} => config[n] = Absent

\* What a pass is about to delete is not in use, unless ODLM has deployed it since
\* the list.
IdleInv ==
    \A n \in idle :
        /\ pc = "deleteRegistries" => registry[n] = Absent \/ registry[n].phase # "Running" \/ raced
        /\ pc = "deleteConfigs" => config[n] # "Running" \/ raced

\* CSData has the namespace of the status, once a process has read it.
PinInv == pc # "down" /\ st # Absent => servicesNs = st \/ late \/ unpatched

\* A step outside the pass that neither installs nor removes anything.
LEMMA HomeKept ==
    ASSUME HomeInv, UNCHANGED <<registry, config, crd, home, pc, seen>>,
           clean' => clean /\ servicesNs' = servicesNs
    PROVE  HomeInv'
BY DEF HomeInv, OneHome, InPass, Serving

\* A step after which no pass runs.
LEMMA HomeEnded ==
    ASSUME HomeInv, UNCHANGED <<registry, config, crd, home>>, pc' \in {"down", "setup", "idle"}
    PROVE  HomeInv'
BY DEF HomeInv, OneHome, InPass, Serving

\* Every step of a pass keeps what it knows of the other namespaces.
LEMMA PassHome ==
    ASSUME TypeInv, HomeInv, Pass
    PROVE  HomeInv'
<1>. USE DEF odlmVars, passVars, ghosts, bounds, Goto
<1>1. CASE Begin \/ UpdateConfigStatus
  <2>1. /\ UNCHANGED <<registry, config, crd>> /\ home' = Absent
        /\ pc' \in {"status", "init"}
    BY <1>1 DEF Begin, UpdateConfigStatus, SettleServicesNs, HomeInv, InPass, Serving
  <2>. QED  BY <2>1 DEF HomeInv, OneHome
<1>2. CASE InitResources
  <2>1. /\ UNCHANGED <<registry, config, crd, home>> /\ pc' \in {"listRegistries", "idle"}
    BY <1>2 DEF InitResources, Abort, Finish
  <2>2. home' = Absent
    BY <1>2, <2>1 DEF InitResources, HomeInv, InPass, Serving
  <2>. QED  BY <2>1, <2>2 DEF HomeInv, OneHome
<1>3. CASE ListRegistries
  <2>1. /\ UNCHANGED <<registry, config, crd, home, servicesNs, clean>> /\ home = Absent
        /\ pc' = IF crd THEN "deleteRegistries" ELSE "pending"
        /\ seen' = {n \in Namespaces \ {servicesNs} : registry[n] # Absent}
    BY <1>3 DEF ListRegistries, List, HomeInv, InPass, Serving
  <2>. QED  BY <2>1 DEF HomeInv, OneHome
<1>4. CASE DeleteRegistries
  <2>0. home = Absent /\ home' = Absent
    BY <1>4 DEF DeleteRegistries, Abort, HomeInv, InPass, Serving
  <2>1. CASE seen = {} /\ Goto("listConfigs") /\ UNCHANGED <<servicesNs, registry, config, crd, seen, clean>>
    BY <1>4, <2>0, <2>1 DEF DeleteRegistries, HomeInv, OneHome
  <2>2. ASSUME NEW n \in seen \cap idle,
               registry' = [registry EXCEPT ![n] = Absent], seen' = seen \ {n},
               UNCHANGED <<pc, servicesNs, config, crd, clean>>
        PROVE  HomeInv'
    <3>1. \A m \in Namespaces : registry'[m] # Absent => registry[m] # Absent /\ m # n
      BY <2>2 DEF TypeInv, TypeOK
    <3>. QED  BY <1>4, <2>0, <2>2, <3>1 DEF DeleteRegistries, HomeInv, OneHome
  <2>3. CASE Abort
    BY <2>3, HomeEnded DEF Abort, Finish
  <2>. QED  BY <1>4, <2>1, <2>2, <2>3 DEF DeleteRegistries
<1>5. CASE ListConfigs
  <2>1. /\ UNCHANGED <<registry, config, crd, home, servicesNs, clean>> /\ home = Absent
        /\ pc' = "deleteConfigs" /\ pc = "listConfigs"
        /\ seen' = {n \in Namespaces \ {servicesNs} : config[n] # Absent}
    BY <1>5 DEF ListConfigs, List, HomeInv, InPass, Serving
  <2>. QED  BY <2>1 DEF HomeInv, OneHome
<1>6. CASE DeleteConfigs
  <2>0. home = Absent /\ home' = Absent
    BY <1>6 DEF DeleteConfigs, Abort, HomeInv, InPass, Serving
  <2>1. CASE seen = {} /\ Goto("pending") /\ UNCHANGED <<servicesNs, registry, config, crd, seen, clean>>
    BY <1>6, <2>0, <2>1 DEF DeleteConfigs, HomeInv, OneHome
  <2>2. ASSUME NEW n \in seen \cap idle,
               config' = [config EXCEPT ![n] = Absent], seen' = seen \ {n},
               UNCHANGED <<pc, servicesNs, registry, crd, clean>>
        PROVE  HomeInv'
    <3>1. \A m \in Namespaces : config'[m] # Absent => config[m] # Absent /\ m # n
      BY <2>2 DEF TypeInv, TypeOK
    <3>. QED  BY <1>6, <2>0, <2>2, <3>1 DEF DeleteConfigs, HomeInv, OneHome
  <2>3. CASE Abort
    BY <2>3, HomeEnded DEF Abort, Finish
  <2>. QED  BY <1>6, <2>1, <2>2, <2>3 DEF DeleteConfigs
<1>7. CASE SetPending
  <2>1. CASE Abort
    BY <2>1, HomeEnded DEF Abort, Finish
  <2>2. CASE Goto("registry") /\ UNCHANGED <<servicesNs, registry, config, crd, seen, clean, home>>
    <3>1. home = Absent
      BY <1>7 DEF SetPending, HomeInv, InPass, Serving
    <3>. QED  BY <1>7, <2>2, <3>1 DEF SetPending, HomeInv, OneHome
  <2>. QED  BY <1>7, <2>1, <2>2 DEF SetPending
<1>8. CASE InstallOrUpdateOpreg
  <2>1. /\ pc = "registry" /\ pc' = "config" /\ crd' /\ home = Absent
        /\ UNCHANGED <<config, servicesNs, seen, clean, home>>
    BY <1>8 DEF InstallOrUpdateOpreg, HomeInv, InPass, Serving
  <2>2. \A n \in Namespaces \ {servicesNs} : registry'[n] = registry[n]
    BY <1>8 DEF InstallOrUpdateOpreg, TypeInv, TypeOK
  <2>. QED  BY <2>1, <2>2 DEF HomeInv, OneHome
<1>9. CASE InstallOrUpdateOpcon
  <2>1. /\ pc = "config" /\ pc' = "idle" /\ UNCHANGED <<registry, crd, servicesNs, clean>>
        /\ home' = IF clean THEN servicesNs ELSE Absent
    BY <1>9 DEF InstallOrUpdateOpcon, Finish
  <2>2. \A n \in Namespaces \ {servicesNs} : config'[n] = config[n]
    BY <1>9 DEF InstallOrUpdateOpcon, TypeInv, TypeOK
  <2>3. OneHome'
    BY <2>1, <2>2 DEF HomeInv, OneHome
  <2>. QED  BY <2>1, <2>2, <2>3 DEF HomeInv, InPass, Serving
<1>. QED
  BY <1>1, <1>2, <1>3, <1>4, <1>5, <1>6, <1>7, <1>8, <1>9 DEF Pass

\* Every step keeps the home of the services.
LEMMA NextHome ==
    ASSUME TypeInv, HomeInv, [Next]_vars
    PROVE  HomeInv'
<1>. USE DEF odlmVars, passVars, ghosts, bounds
<1>1. CASE Start \/ StartManager \/ Kill
  BY <1>1, HomeEnded DEF Start, StartManager, Kill
<1>2. CASE Creator
  <2>1. UNCHANGED <<registry, config, crd, home, pc, seen>>
    BY <1>2 DEF Creator, FindCsCR, CreateCsCR
  <2>2. clean' => clean /\ servicesNs' = servicesNs
    BY <1>2 DEF Creator, FindCsCR, CreateCsCR
  <2>. QED  BY <2>1, <2>2, HomeKept
<1>3. CASE User
  BY <1>3, HomeKept
     DEF User, Move, Approve, WriteCR, CreateNamespace, Request, Withdraw, ChangeRequests
<1>4. CASE Fail \/ PatchFails
  BY <1>4, HomeEnded DEF Fail, PatchFails, Abort, Finish
<1>check. CASE CheckFails
  <2>1. UNCHANGED <<registry, config, crd>> /\ home' = Absent /\ pc' = "init"
    BY <1>check DEF CheckFails, SettleServicesNs, HomeInv, InPass, Serving
  <2>. QED  BY <2>1 DEF HomeInv, OneHome
<1>5. CASE ListMisses
  <2>1. /\ UNCHANGED <<registry, config, crd, home>> /\ ~clean' /\ home = Absent
        /\ pc' # "config"
    BY <1>5 DEF ListMisses, Goto, HomeInv, InPass, Serving
  <2>. QED  BY <2>1 DEF HomeInv, OneHome
<1>6. ASSUME NEW n \in Namespaces, RegistryPhase(n)
      PROVE  HomeInv'
  <2>1. UNCHANGED <<config, crd, home, pc, seen, clean, servicesNs>>
    BY <1>6 DEF RegistryPhase
  <2>2. \A m \in Namespaces : registry'[m] = Absent <=> registry[m] = Absent
    <3>1. registry[n] # Absent /\ registry[n] \in Registries
      BY <1>6 DEF RegistryPhase, TypeInv, TypeOK
    <3>2. registry'[n] \in Registries
      BY <1>6, <3>1 DEF RegistryPhase, TypeInv, TypeOK, Registries
    <3>3. \A m \in Namespaces : m # n => registry'[m] = registry[m]
      BY <1>6 DEF RegistryPhase, TypeInv, TypeOK
    <3>. QED  BY <3>1, <3>2, <3>3, AbsentAssumption
  <2>. QED  BY <2>1, <2>2, NamespacesAssumption DEF HomeInv, OneHome, InPass, Serving, TypeInv, TypeOK
<1>7. ASSUME NEW n \in Namespaces, ConfigPhase(n)
      PROVE  HomeInv'
  <2>1. UNCHANGED <<registry, crd, home, pc, seen, clean, servicesNs>>
    BY <1>7 DEF ConfigPhase
  <2>2. \A m \in Namespaces : config'[m] = Absent <=> config[m] = Absent
    BY <1>7, AbsentAssumption DEF ConfigPhase, TypeInv, TypeOK, Phases
  <2>. QED  BY <2>1, <2>2, NamespacesAssumption DEF HomeInv, OneHome, InPass, Serving, TypeInv, TypeOK
<1>8. CASE UNCHANGED vars
  BY <1>8, HomeKept DEF vars
<1>. QED
  BY <1>1, <1>2, <1>3, <1>4, <1>5, <1>6, <1>7, <1>8, <1>check, PassHome DEF Next, Odlm

\* After a pass that succeeded and saw every object, no OperandRegistry and no
\* OperandConfig is left outside the services namespace, however many passes were
\* cut short before.
THEOREM ServicesHaveOneHome == Spec => []OneHome
<1>1. Init => HomeInv
  BY DEF Init, HomeInv, OneHome, InPass, Serving
<1>2. TypeInv /\ HomeInv /\ [Next]_vars => HomeInv'
  BY NextHome
<1>3. HomeInv => OneHome
  BY DEF HomeInv
<1>. QED  BY <1>1, <1>2, <1>3, TypeInvariance, PTL DEF Spec

-----------------------------------------------------------------------------
(***************************************************************************)
(* Nothing in use is removed                                               *)
(***************************************************************************)

\* Every step keeps that what is to be deleted is not in use.
LEMMA NextIdle ==
    ASSUME TypeInv, IdleInv, [Next]_vars
    PROVE  IdleInv'
<1>. USE DEF odlmVars, passVars, ghosts, bounds, Goto
<1>1. CASE idle' = {}
  BY <1>1 DEF IdleInv
<1>2. CASE pc' \notin {"deleteRegistries", "deleteConfigs"}
  BY <1>2 DEF IdleInv
<1>3. CASE UNCHANGED <<registry, config, pc, idle, raced>>
  BY <1>3 DEF IdleInv
<1>4. CASE ListRegistries
  <2>1. \A n \in idle' : registry'[n].phase = "Ready"
    BY <1>4 DEF ListRegistries, List
  <2>2. pc' # "deleteConfigs"
    BY <1>4 DEF ListRegistries
  <2>. QED  BY <2>1, <2>2 DEF IdleInv
<1>5. CASE ListConfigs
  <2>1. \A n \in idle' : config'[n] = "Init"
    BY <1>5 DEF ListConfigs, List
  <2>2. pc' = "deleteConfigs"
    BY <1>5 DEF ListConfigs
  <2>. QED  BY <2>1, <2>2 DEF IdleInv
<1>6. ASSUME NEW n \in seen \cap idle, DeleteRegistries,
             registry' = [registry EXCEPT ![n] = Absent], idle' = idle \ {n},
             UNCHANGED <<pc, config>>
      PROVE  IdleInv'
  <2>1. raced' = raced /\ \A m \in idle' : m \in idle /\ registry'[m] = registry[m]
    BY <1>6 DEF DeleteRegistries, TypeInv, TypeOK
  <2>. QED  BY <1>6, <2>1 DEF IdleInv
<1>7. ASSUME NEW n \in seen \cap idle, DeleteConfigs,
             config' = [config EXCEPT ![n] = Absent], idle' = idle \ {n},
             UNCHANGED <<pc, registry>>
      PROVE  IdleInv'
  <2>1. raced' = raced /\ \A m \in idle' : m \in idle /\ config'[m] = config[m]
    BY <1>7 DEF DeleteConfigs, TypeInv, TypeOK
  <2>. QED  BY <1>7, <2>1 DEF IdleInv
<1>8. ASSUME NEW n \in Namespaces, RegistryPhase(n)
      PROVE  IdleInv'
  <2>1. UNCHANGED <<config, pc, idle>> /\ (raced => raced')
    BY <1>8 DEF RegistryPhase
  <2>2. \A m \in Namespaces : m # n => registry'[m] = registry[m]
    BY <1>8 DEF RegistryPhase, TypeInv, TypeOK
  <2>3. pc = "deleteRegistries" /\ n \in idle => registry'[n].phase # "Running" \/ raced'
    BY <1>8 DEF RegistryPhase, TypeInv, TypeOK, Registries
  <2>4. idle \subseteq Namespaces
    BY DEF TypeInv, TypeOK
  <2>. QED  BY <2>1, <2>2, <2>3, <2>4 DEF IdleInv
<1>9. ASSUME NEW n \in Namespaces, ConfigPhase(n)
      PROVE  IdleInv'
  <2>1. UNCHANGED <<registry, pc, idle>> /\ (raced => raced')
    BY <1>9 DEF ConfigPhase
  <2>2. \A m \in Namespaces : m # n => config'[m] = config[m]
    BY <1>9 DEF ConfigPhase, TypeInv, TypeOK
  <2>3. pc = "deleteConfigs" /\ n \in idle => config'[n] # "Running" \/ raced'
    BY <1>9 DEF ConfigPhase, TypeInv, TypeOK
  <2>4. idle \subseteq Namespaces
    BY DEF TypeInv, TypeOK
  <2>. QED  BY <2>1, <2>2, <2>3, <2>4 DEF IdleInv
<1>10. CASE Pass
  <2>1. CASE Begin \/ UpdateConfigStatus \/ InitResources
    BY <1>2, <2>1 DEF Begin, UpdateConfigStatus, SettleServicesNs, InitResources, Abort, Finish
  <2>2. CASE SetPending \/ InstallOrUpdateOpreg \/ InstallOrUpdateOpcon
    BY <1>2, <2>2 DEF SetPending, InstallOrUpdateOpreg, InstallOrUpdateOpcon, Abort, Finish
  <2>3. CASE DeleteRegistries
    BY <1>2, <1>6, <2>3 DEF DeleteRegistries, Abort, Finish
  <2>4. CASE DeleteConfigs
    BY <1>2, <1>7, <2>4 DEF DeleteConfigs, Abort, Finish
  <2>. QED  BY <1>4, <1>5, <1>10, <2>1, <2>2, <2>3, <2>4 DEF Pass
<1>11. CASE Start \/ StartManager \/ Kill \/ Fail \/ CheckFails \/ PatchFails \/ ListMisses
  BY <1>1, <1>2, <1>11
     DEF Start, StartManager, Kill, Fail, CheckFails, SettleServicesNs, PatchFails, ListMisses, Abort, Finish
<1>12. CASE Creator \/ User
  BY <1>3, <1>12
     DEF Creator, FindCsCR, CreateCsCR, User, Move, Approve, WriteCR, CreateNamespace, Request,
         Withdraw, ChangeRequests
<1>13. CASE UNCHANGED vars
  BY <1>3, <1>13 DEF vars
<1>. QED
  BY <1>8, <1>9, <1>10, <1>11, <1>12, <1>13 DEF Next, Odlm

\* What is to be deleted is not in use.
LEMMA IdleInvariance == Spec => []IdleInv
<1>1. Init => IdleInv
  BY DEF Init, IdleInv
<1>2. TypeInv /\ IdleInv /\ [Next]_vars => IdleInv'
  BY NextIdle
<1>. QED  BY <1>1, <1>2, TypeInvariance, PTL DEF Spec

\* Only the deletes of a pass remove a registry or a config.
LEMMA Removals ==
    ASSUME TypeInv, [Next]_vars, NEW n \in Namespaces
    PROVE  /\ registry[n] # Absent /\ registry'[n] = Absent =>
                  pc = "deleteRegistries" /\ n \in idle
           /\ config[n] # Absent /\ config'[n] = Absent =>
                  pc = "deleteConfigs" /\ n \in idle
<1>. USE DEF odlmVars, passVars, ghosts, bounds
<1>1. CASE UNCHANGED <<registry, config>>
  BY <1>1
<1>2. CASE DeleteRegistries
  BY <1>2 DEF DeleteRegistries, Abort, TypeInv, TypeOK
<1>3. CASE DeleteConfigs
  BY <1>3 DEF DeleteConfigs, Abort, TypeInv, TypeOK
<1>4. CASE InstallOrUpdateOpreg
  <2>1. /\ \A m \in Namespaces \ {servicesNs} : registry'[m] = registry[m]
        /\ registry'[servicesNs] \in Registries /\ config' = config
    BY <1>4 DEF InstallOrUpdateOpreg, TypeInv, TypeOK, Registries
  <2>. QED  BY <2>1, AbsentAssumption
<1>5. CASE InstallOrUpdateOpcon
  BY <1>5, AbsentAssumption DEF InstallOrUpdateOpcon, TypeInv, TypeOK
<1>6. ASSUME NEW m \in Namespaces, RegistryPhase(m)
      PROVE  registry'[n] = Absent => registry[n] = Absent
  <2>1. registry'[m] \in Registries
    BY <1>6 DEF RegistryPhase, TypeInv, TypeOK, Registries
  <2>2. n # m => registry'[n] = registry[n]
    BY <1>6 DEF RegistryPhase, TypeInv, TypeOK
  <2>. QED  BY <2>1, <2>2, AbsentAssumption
<1>7. ASSUME NEW m \in Namespaces, ConfigPhase(m)
      PROVE  config'[n] = Absent => config[n] = Absent
  BY <1>7, AbsentAssumption DEF ConfigPhase, TypeInv, TypeOK, Phases
<1>8. CASE Odlm
  BY <1>6, <1>7, <1>8 DEF Odlm, RegistryPhase, ConfigPhase
<1>9. CASE Pass
  <2>1. CASE Begin \/ UpdateConfigStatus \/ InitResources \/ ListRegistries \/ ListConfigs \/ SetPending
    BY <1>1, <2>1
       DEF Begin, UpdateConfigStatus, SettleServicesNs, InitResources, ListRegistries, ListConfigs,
           SetPending, Abort
  <2>. QED  BY <1>2, <1>3, <1>4, <1>5, <1>9, <2>1 DEF Pass
<1>10. CASE Start \/ StartManager \/ Kill \/ Fail \/ CheckFails \/ PatchFails \/ ListMisses
  BY <1>1, <1>10
     DEF Start, StartManager, Kill, Fail, CheckFails, SettleServicesNs, PatchFails, ListMisses, Abort
<1>11. CASE Creator \/ User
  BY <1>1, <1>11
     DEF Creator, FindCsCR, CreateCsCR, User, Move, Approve, WriteCR, CreateNamespace, Request,
         Withdraw, ChangeRequests
<1>12. CASE UNCHANGED vars
  BY <1>1, <1>12 DEF vars
<1>. QED  BY <1>8, <1>9, <1>10, <1>11, <1>12 DEF Next

\* No step takes the OperandRegistry or the OperandConfig from under services that
\* are deployed, unless ODLM deploys them between the list and the delete.
THEOREM NothingInUseIsRemoved == Spec => RunningKept
<1>1. TypeInv /\ IdleInv /\ [Next]_vars =>
          [\A n \in Namespaces :
               /\ registry[n] # Absent /\ registry'[n] = Absent => registry[n].phase # "Running" \/ raced
               /\ config[n] = "Running" => config'[n] # Absent \/ raced]_vars
  <2>. SUFFICES ASSUME TypeInv, IdleInv, [Next]_vars, NEW n \in Namespaces
                PROVE  /\ registry[n] # Absent /\ registry'[n] = Absent =>
                              registry[n].phase # "Running" \/ raced
                       /\ config[n] = "Running" => config'[n] # Absent \/ raced
    OBVIOUS
  <2>1. "Running" # Absent
    BY AbsentAssumption DEF Phases
  <2>. QED  BY <2>1, Removals DEF IdleInv
<1>. QED  BY <1>1, TypeInvariance, IdleInvariance, PTL DEF Spec, RunningKept

-----------------------------------------------------------------------------
(***************************************************************************)
(* Deployed services stay where they are                                   *)
(***************************************************************************)

\* Every step keeps that CSData has the status's namespace.
LEMMA NextPin ==
    ASSUME TypeInv, PinInv, [Next]_vars
    PROVE  PinInv'
<1>. USE DEF odlmVars, passVars, ghosts, bounds
<1>1. CASE UNCHANGED <<st, servicesNs, late, unpatched>> /\ pc # "down"
  BY <1>1 DEF PinInv
<1>2. CASE UNCHANGED <<st, servicesNs, late, unpatched, pc>>
  BY <1>2 DEF PinInv
<1>3. CASE Start
  BY <1>3 DEF Start, GetServicesNamespace, PinInv, TypeInv, NoCRInv
<1>4. CASE CreateCsCR
  <2>1. st' = st /\ pc' = pc /\ unpatched' = unpatched /\ (late => late')
    BY <1>4 DEF CreateCsCR
  <2>2. cr # Absent => servicesNs' = servicesNs \/ late'
    BY <1>4 DEF CreateCsCR
  <2>3. cr = Absent => st = Absent
    BY DEF TypeInv, NoCRInv
  <2>. QED  BY <2>1, <2>2, <2>3 DEF PinInv
<1>5. CASE UpdateConfigStatus \/ CheckFails
  BY <1>5 DEF UpdateConfigStatus, CheckFails, SettleServicesNs, PinInv
<1>6. CASE PatchFails
  BY <1>6 DEF PatchFails, PinInv
<1>7. CASE Kill
  BY <1>7 DEF Kill, PinInv
<1>8. CASE StartManager \/ FindCsCR \/ Fail \/ ListMisses
  BY <1>1, <1>2, <1>8 DEF StartManager, FindCsCR, Fail, ListMisses, Abort, InPass, Serving
<1>9. CASE Odlm \/ User
  BY <1>2, <1>9
     DEF Odlm, RegistryPhase, ConfigPhase, User, Move, Approve, WriteCR, CreateNamespace, Request,
         Withdraw, ChangeRequests
<1>10. CASE Begin \/ InitResources \/ ListRegistries \/ DeleteRegistries \/ ListConfigs
  BY <1>1, <1>10 DEF Begin, InitResources, ListRegistries, DeleteRegistries, ListConfigs, Abort
<1>11. CASE DeleteConfigs \/ SetPending \/ InstallOrUpdateOpreg \/ InstallOrUpdateOpcon
  BY <1>1, <1>11 DEF DeleteConfigs, SetPending, InstallOrUpdateOpreg, InstallOrUpdateOpcon, Abort
<1>12. CASE UNCHANGED vars
  BY <1>2, <1>12 DEF vars
<1>. QED
  BY <1>3, <1>4, <1>5, <1>6, <1>7, <1>8, <1>9, <1>10, <1>11, <1>12 DEF Next, Creator, Pass

\* Only UpdateConfigStatus writes the status, with or without an answer of the check.
LEMMA StatusKept ==
    ASSUME [Next]_vars, ~UpdateConfigStatus, ~CheckFails
    PROVE  st' = st
<1>. USE DEF odlmVars, passVars, ghosts, bounds
<1>1. CASE Start \/ StartManager \/ Creator \/ Fail \/ PatchFails \/ ListMisses \/ Kill
  BY <1>1 DEF Start, StartManager, Creator, FindCsCR, CreateCsCR, Fail, PatchFails, ListMisses, Kill
<1>2. CASE Odlm \/ User
  BY <1>2
     DEF Odlm, RegistryPhase, ConfigPhase, User, Move, Approve, WriteCR, CreateNamespace, Request,
         Withdraw, ChangeRequests
<1>3. CASE Pass
  BY <1>3
     DEF Pass, Begin, InitResources, ListRegistries, DeleteRegistries, ListConfigs, DeleteConfigs,
         SetPending, InstallOrUpdateOpreg, InstallOrUpdateOpcon
<1>4. CASE UNCHANGED vars
  BY <1>4 DEF vars
<1>. QED  BY <1>1, <1>2, <1>3, <1>4 DEF Next

\* The status does not leave a namespace whose services are deployed, whatever the
\* CR says and however often the process starts over, unless CSData has lost the
\* status's namespace before or the Get of CheckDeployStatus fails.
THEOREM DeployedServicesArePinned == Spec => Pinned
<1>1. Init => PinInv
  BY DEF Init, PinInv
<1>2. TypeInv /\ PinInv /\ [Next]_vars => PinInv'
  BY NextPin
<1>3. TypeInv /\ PinInv /\ [Next]_vars =>
          [st # Absent /\ st' # st => config[st] # "Running" \/ late \/ unpatched \/ CheckFails]_vars
  <2>. SUFFICES ASSUME TypeInv, PinInv, UpdateConfigStatus, st # Absent, st' # st,
                       config[st] = "Running", ~late, ~unpatched
                PROVE  FALSE
    BY StatusKept
  <2>1. servicesNs = st
    BY DEF UpdateConfigStatus, SettleServicesNs, PinInv
  <2>. QED  BY <2>1 DEF UpdateConfigStatus, SettleServicesNs, PinnedServicesNs, ServicesNamespace
<1>. QED  BY <1>1, <1>2, <1>3, TypeInvariance, PTL DEF Spec, Pinned
=============================================================================
