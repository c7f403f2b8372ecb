-------------------- MODULE CommonServiceControllerProofs --------------------
(***************************************************************************)
(* Theorems about CommonServiceController, for any set of CRs, storage     *)
(* classes and sizes and any bounds.                                       *)
(***************************************************************************)
EXTENDS CommonServiceController, WellFoundedInduction, TLAPS

-----------------------------------------------------------------------------
(***************************************************************************)
(* The size the CRs ask for                                                *)
(***************************************************************************)

\* A non-empty set of sizes has a largest element, which Max chooses.
LEMMA MaxOfSizes ==
    ASSUME NEW S, S \subseteq Sizes, S # {}
    PROVE  Max(S) \in S /\ \A y \in S : Max(S) >= y
<1>1. MaxSize \in Nat
  BY SizeAssumption
<1>. DEFINE T == {MaxSize - x : x \in S}
<1>2. T \subseteq Nat /\ T # {}
  <2>1. \A x \in S : MaxSize - x \in Nat
    BY <1>1 DEF Sizes
  <2>2. PICK x \in S : TRUE
    OBVIOUS
  <2>3. MaxSize - x \in T
    OBVIOUS
  <2>. QED  BY <2>1, <2>3
<1>3. PICK t \in T : \A y \in T : ~(<<y, t>> \in OpToRel(<, Nat))
  <2>. HIDE DEF T
  <2>. QED  BY <1>2, NatLessThanWellFounded, WFMin
<1>4. \A y \in T : ~(y < t)
  <2>. SUFFICES ASSUME NEW y \in T, y < t PROVE FALSE
    OBVIOUS
  <2>1. <<y, t>> \in OpToRel(<, Nat)
    <3>. HIDE DEF T
    <3>. QED  BY <1>2 DEF OpToRel
  <2>. QED  BY <2>1, <1>3
<1>5. PICK x \in S : t = MaxSize - x
  OBVIOUS
<1>6. \A y \in S : x >= y
  BY <1>1, <1>4, <1>5 DEF Sizes
<1>. QED  BY <1>6 DEF Max

\* getLargestSizeFromCRs returns a size.
LEMMA LargestSizeType ==
    ASSUME NEW S \in SUBSET CRs, NEW sp \in [CRs -> CRSpec]
    PROVE  LargestSize(S, sp) \in Sizes
<1>. DEFINE T == {sp[c].size : c \in S} \union {0}
<1>1. T \subseteq Sizes /\ T # {}
  BY SizeAssumption DEF CRSpec, Sizes
<1>2. Max(T) \in T
  <2>. HIDE DEF T
  <2>. QED  BY <1>1, MaxOfSizes
<1>. QED  BY <1>1, <1>2 DEF LargestSize

\* What the first pass over the CRs collects is a storage class or none.
LEMMA FeatureSCType ==
    ASSUME NEW S \in SUBSET CRs, NEW sp \in [CRs -> CRSpec]
    PROVE  FeatureSC(S, sp) \subseteq SCs
BY DEF FeatureSC, Declared, SCs, CRSpec

-----------------------------------------------------------------------------
(***************************************************************************)
(* Type correctness                                                        *)
(***************************************************************************)

\* What the constants give the proofs below.
LEMMA ConstantTypes ==
    /\ Master \in CRs
    /\ EmptySpec \in CRSpec
    /\ NewStatus \in CommonServiceStatus
    /\ 0 \in Sizes
BY MasterAssumption, SizeAssumption
   DEF EmptySpec, CRSpec, SCs, Sizes, NewStatus, CommonServiceStatus, Phases

\* The state after the installation of the operator is well typed.
LEMMA InitType == Init => TypeOK
<1>. SUFFICES ASSUME Init PROVE TypeOK
  OBVIOUS
<1>. USE ConstantTypes, BoundAssumption, SizeAssumption DEF Init
<1>1. opcon \in OperandConfig
  BY DEF OperandConfig, SCs
<1>2. spec \in [CRs -> CRSpec] /\ cacheSpec \in [CRs -> CRSpec]
  OBVIOUS
<1>3. /\ status \in [CRs -> CommonServiceStatus]
      /\ notify \in [CRs -> {"none", "status", "spec"}]
  OBVIOUS
<1>4. /\ edits \in 0 .. MaxEdits /\ faults \in 0 .. MaxFaults
      /\ crashes \in 0 .. MaxCrashes
  OBVIOUS
<1>5. /\ live \subseteq CRs /\ paused \subseteq live /\ cached \subseteq CRs
      /\ queue \subseteq CRs /\ settled \subseteq CRs
  OBVIOUS
<1>6. /\ typeOk \in BOOLEAN /\ stale \in BOOLEAN /\ opStale \in BOOLEAN
      /\ statusErr \in BOOLEAN /\ retErr \in BOOLEAN
      /\ force \in BOOLEAN /\ crds \in BOOLEAN
  OBVIOUS
<1>7. /\ role = "general" /\ pc = "idle" /\ odlm = "absent" /\ cur \in CRs
      /\ mem \in CommonServiceStatus /\ agg \in CRSpec /\ largest \in Sizes
  OBVIOUS
<1>. QED
  BY <1>1, <1>2, <1>3, <1>4, <1>5, <1>6, <1>7, Zenon DEF TypeOK, GeneralSteps

\* The worker at rest has values of the right types.
LEMMA IdleType ==
    ASSUME Idle
    PROVE  /\ role' = "general" /\ pc' = "idle" /\ cur' \in CRs
           /\ stale' \in BOOLEAN /\ opStale' \in BOOLEAN
           /\ mem' \in CommonServiceStatus
           /\ statusErr' \in BOOLEAN /\ retErr' \in BOOLEAN
           /\ force' \in BOOLEAN /\ crds' \in BOOLEAN
           /\ agg' \in CRSpec /\ largest' \in Sizes /\ settled' = {}
BY ConstantTypes DEF Idle

\* A write of the status leaves statuses and events well typed.
LEMMA WriteStatusType ==
    ASSUME TypeOK, NEW m \in CommonServiceStatus, WriteStatus(m)
    PROVE  /\ status' \in [CRs -> CommonServiceStatus]
           /\ notify' \in [CRs -> {"none", "status", "spec"}]
BY DEF TypeOK, WriteStatus

\* A call that returns an error, whether or not phase Failed can be written.
LEMMA FailType ==
    ASSUME TypeOK, NEW m \in CommonServiceStatus, NEW cost \in Nat, Fail(m, cost)
    PROVE  TypeOK'
<1>1. PICK wrote \in BOOLEAN : FailWith(m, cost, wrote)
  BY DEF Fail
<1>2. Marked(m) \in CommonServiceStatus
  BY DEF Marked, CommonServiceStatus, Phases
<1>3. faults' \in 0 .. MaxFaults
  BY <1>1, BoundAssumption DEF TypeOK, FailWith
<1>4. /\ status' \in [CRs -> CommonServiceStatus]
      /\ notify' \in [CRs -> {"none", "status", "spec"}]
  <2>1. CASE wrote
    BY <1>1, <1>2, <2>1, WriteStatusType DEF FailWith
  <2>2. CASE ~wrote
    BY <1>1, <2>2 DEF FailWith, KeepStatus, TypeOK
  <2>. QED  BY <2>1, <2>2
<1>5. CASE role = "master"
  BY <1>1, <1>2, <1>3, <1>4, <1>5 DEF FailWith, TypeOK, MasterSteps, cacheVars, workVars
<1>6. CASE role # "master"
  <2>1. Idle /\ queue' \subseteq CRs
    BY <1>1, <1>6 DEF FailWith, Finish, TypeOK
  <2>. QED  BY <1>1, <1>3, <1>4, <2>1, IdleType DEF FailWith, TypeOK, cacheVars, GeneralSteps
<1>. QED  BY <1>5, <1>6

\* A write of the status, after which the worker goes on to step t.
LEMMA PutStatusType ==
    ASSUME TypeOK, NEW m \in CommonServiceStatus, NEW t, PutStatus(m, t),
           role = "master"  => t \in MasterSteps,
           role = "general" => t \in GeneralSteps,
           role = "delete"  => t \in DeleteSteps
    PROVE  TypeOK'
<1>1. CASE CanWrite
  <2>1. WriteStatus(m) /\ mem' = m /\ Goto(t)
        /\ UNCHANGED <<opcon, stale, opStale, statusErr, retErr, force, crds,
                       workVars, settled>>
    BY <1>1 DEF PutStatus
  <2>2. /\ status' \in [CRs -> CommonServiceStatus]
        /\ notify' \in [CRs -> {"none", "status", "spec"}]
    BY <2>1, WriteStatusType
  <2>. QED  BY <2>1, <2>2 DEF TypeOK, Goto, cacheVars, workVars
<1>2. CASE ~CanWrite
  BY <1>2, FailType DEF PutStatus
<1>. QED  BY <1>1, <1>2

\* A call this module does not model.
LEMMA CallType ==
    ASSUME TypeOK, NEW f, NEW t, Call(f, t),
           role = "master"  => t \in MasterSteps,
           role = "general" => t \in GeneralSteps,
           role = "delete"  => t \in DeleteSteps
    PROVE  TypeOK'
BY DEF TypeOK, Call, Goto, cacheVars, workVars

\* The last write of a reconcile.
LEMMA PutLastType ==
    ASSUME TypeOK, NEW m \in CommonServiceStatus, PutLast(m)
    PROVE  TypeOK'
<1>1. CASE CanWrite
  <2>1. /\ WriteStatus(m) /\ Idle /\ UNCHANGED queue
        /\ UNCHANGED <<live, spec, paused, typeOk, opcon, odlm, cacheVars, bounds>>
    BY <1>1 DEF PutLast, Finish
  <2>2. /\ status' \in [CRs -> CommonServiceStatus]
        /\ notify' \in [CRs -> {"none", "status", "spec"}]
    BY <2>1, WriteStatusType
  <2>. QED  BY <2>1, <2>2, IdleType DEF TypeOK, cacheVars, bounds, GeneralSteps
<1>2. CASE ~CanWrite
  BY <1>2, FailType DEF PutLast
<1>. QED  BY <1>1, <1>2

\* The changes users make.
LEMMA UserType ==
    ASSUME TypeOK, User
    PROVE  TypeOK'
<1>. USE DEF TypeOK
<1>1. ASSUME NEW c \in CRs, Touch(c)
      PROVE  /\ edits' \in 0 .. MaxEdits
             /\ notify' \in [CRs -> {"none", "status", "spec"}]
             /\ stale' \in BOOLEAN /\ settled' \subseteq CRs
  <2>1. edits' \in 0 .. MaxEdits
    BY <1>1, BoundAssumption DEF Touch
  <2>2. notify' \in [CRs -> {"none", "status", "spec"}]
    BY <1>1 DEF Touch
  <2>3. stale' \in BOOLEAN /\ settled' \subseteq CRs
    BY <1>1 DEF Touch
  <2>. QED  BY <2>1, <2>2, <2>3
<1>2. ASSUME NEW c \in CRs, NEW s \in CRSpec, CreateCR(c, s)
      PROVE  TypeOK'
  <2>1. /\ spec' \in [CRs -> CRSpec] /\ status' \in [CRs -> CommonServiceStatus]
        /\ live' \subseteq CRs /\ paused' \subseteq live'
    BY <1>2, ConstantTypes DEF CreateCR
  <2>2. Touch(c)
    BY <1>2 DEF CreateCR
  <2>3. /\ edits' \in 0 .. MaxEdits
        /\ notify' \in [CRs -> {"none", "status", "spec"}]
        /\ stale' \in BOOLEAN /\ settled' \subseteq CRs
    BY <1>1, <2>2
  <2>. QED  BY <1>2, <2>1, <2>2, <2>3 DEF CreateCR, Touch, cacheVars, workVars
<1>3. ASSUME NEW c \in CRs, NEW s \in CRSpec, EditSpec(c, s)
      PROVE  TypeOK'
  <2>1. spec' \in [CRs -> CRSpec]
    BY <1>3 DEF EditSpec
  <2>2. Touch(c)
    BY <1>3 DEF EditSpec
  <2>3. /\ edits' \in 0 .. MaxEdits
        /\ notify' \in [CRs -> {"none", "status", "spec"}]
        /\ stale' \in BOOLEAN /\ settled' \subseteq CRs
    BY <1>1, <2>2
  <2>. QED  BY <1>3, <2>1, <2>2, <2>3 DEF EditSpec, Touch, cacheVars, workVars
<1>4. ASSUME NEW c \in CRs, DeleteCR(c)
      PROVE  TypeOK'
  <2>1. /\ spec' \in [CRs -> CRSpec] /\ status' \in [CRs -> CommonServiceStatus]
        /\ live' \subseteq CRs /\ paused' \subseteq live'
    BY <1>4, ConstantTypes DEF DeleteCR
  <2>2. Touch(c)
    BY <1>4 DEF DeleteCR
  <2>3. /\ edits' \in 0 .. MaxEdits
        /\ notify' \in [CRs -> {"none", "status", "spec"}]
        /\ stale' \in BOOLEAN /\ settled' \subseteq CRs
    BY <1>1, <2>2
  <2>. QED  BY <1>4, <2>1, <2>2, <2>3 DEF DeleteCR, Touch, cacheVars, workVars
<1>5. ASSUME NEW c \in CRs, TogglePause(c)
      PROVE  TypeOK'
  <2>1. paused' \subseteq live'
    BY <1>5 DEF TogglePause
  <2>2. Touch(c)
    BY <1>5 DEF TogglePause
  <2>3. /\ edits' \in 0 .. MaxEdits
        /\ notify' \in [CRs -> {"none", "status", "spec"}]
        /\ stale' \in BOOLEAN /\ settled' \subseteq CRs
    BY <1>1, <2>2
  <2>. QED  BY <1>5, <2>1, <2>2, <2>3 DEF TogglePause, Touch, cacheVars, workVars
<1>6. CASE ManualEdit
  <2>1. opcon' \in OperandConfig /\ opStale' \in BOOLEAN
    BY <1>6 DEF ManualEdit, OperandConfig
  <2>2. edits' \in 0 .. MaxEdits
    BY <1>6, BoundAssumption DEF ManualEdit
  <2>. QED  BY <1>6, <2>1, <2>2 DEF ManualEdit, apiVars, cacheVars, workVars
<1>7. CASE EditCppConfig
  <2>1. queue' \subseteq CRs /\ typeOk' \in BOOLEAN
    BY <1>7, MasterAssumption DEF EditCppConfig
  <2>2. edits' \in 0 .. MaxEdits
    BY <1>7, BoundAssumption DEF EditCppConfig
  <2>. QED  BY <1>7, <2>1, <2>2 DEF EditCppConfig, cacheVars, workVars
<1>. QED
  BY <1>2, <1>3, <1>4, <1>5, <1>6, <1>7 DEF User

\* Informer, work queue and restarts.
LEMMA QueueType ==
    ASSUME TypeOK,
           \/ OdlmStep \/ OdlmUpgrade \/ MapsExit \/ Crash
           \/ \E c \in CRs : Deliver(c) \/ Reconcile(c)
    PROVE  TypeOK'
<1>. USE DEF TypeOK
<1>1. CASE OdlmStep
  BY <1>1 DEF OdlmStep, apiVars, cacheVars, workVars, bounds
<1>2. CASE OdlmUpgrade
  <2>1. edits' \in 0 .. MaxEdits
    BY <1>2, BoundAssumption DEF OdlmUpgrade
  <2>. QED  BY <1>2, <2>1 DEF OdlmUpgrade, apiVars, cacheVars, workVars
<1>3. ASSUME Restart
      PROVE  /\ Idle /\ UNCHANGED <<apiVars, opcon, odlm>>
             /\ cached' = live /\ cacheSpec' = spec
             /\ notify' \in [CRs -> {"none", "status", "spec"}]
             /\ queue' \subseteq CRs
  <2>1. \A c \in CRs : Requests(c, "spec") \subseteq CRs
    BY MasterAssumption DEF Requests
  <2>2. queue' \subseteq CRs
    BY <1>3, <2>1 DEF Restart
  <2>. QED  BY <1>3, <2>2 DEF Restart
<1>4. CASE MapsExit
  <2>1. Restart /\ faults' \in 0 .. MaxFaults /\ UNCHANGED <<edits, crashes>>
    BY <1>4, BoundAssumption DEF MapsExit
  <2>. QED  BY <1>3, <2>1, IdleType DEF apiVars, GeneralSteps
<1>5. CASE Crash
  <2>1. Restart /\ crashes' \in 0 .. MaxCrashes /\ UNCHANGED <<edits, faults>>
    BY <1>5, BoundAssumption DEF Crash
  <2>. QED  BY <1>3, <2>1, IdleType DEF apiVars, GeneralSteps
<1>6. ASSUME NEW c \in CRs, Deliver(c)
      PROVE  TypeOK'
  <2>1. Requests(c, notify[c]) \subseteq CRs
    BY MasterAssumption DEF Requests
  <2>2. cacheSpec' \in [CRs -> CRSpec] /\ cached' \subseteq CRs
    BY <1>6 DEF Deliver
  <2>3. notify' \in [CRs -> {"none", "status", "spec"}]
    BY <1>6 DEF Deliver
  <2>. QED  BY <1>6, <2>1, <2>2, <2>3 DEF Deliver, apiVars, workVars, bounds
<1>7. ASSUME NEW c \in CRs, Reconcile(c)
      PROVE  TypeOK'
  <2>1. mem' \in CommonServiceStatus /\ settled' \subseteq CRs
    BY <1>7 DEF Reconcile
  <2>2. /\ role' \in {"master", "general", "delete"}
        /\ role' = "master"  => pc' \in MasterSteps
        /\ role' = "general" => pc' \in GeneralSteps \union {"idle"}
        /\ role' = "delete"  => pc' \in DeleteSteps
    BY <1>7 DEF Reconcile, MasterSteps, GeneralSteps, DeleteSteps
  <2>. QED
    BY <1>7, <2>1, <2>2 DEF Reconcile, apiVars, cacheVars, workVars, bounds
<1>. QED  BY <1>1, <1>2, <1>4, <1>5, <1>6, <1>7

\* An API error in any call of a reconcile.
LEMMA FaultType ==
    ASSUME TypeOK, Fault
    PROVE  TypeOK'
<1>1. /\ mem \in CommonServiceStatus
      /\ StartPhase(mem) \in CommonServiceStatus
      /\ [mem EXCEPT !.phase = "Succeeded"] \in CommonServiceStatus
  BY DEF TypeOK, StartPhase, CommonServiceStatus, Phases
<1>2. CASE pc = "phase"
  BY <1>1, <1>2, FailType DEF Fault
<1>3. CASE pc = "succeed"
  BY <1>1, <1>3, FailType DEF Fault
<1>4. CASE pc \notin {"phase", "succeed"}
  BY <1>1, <1>4, FailType DEF Fault
<1>. QED  BY <1>2, <1>3, <1>4

\* Reading and writing the OperandConfig.
LEMMA UpdateType ==
    ASSUME TypeOK, OpRead \/ OpLargest \/ OpWrite
    PROVE  TypeOK'
<1>. USE DEF TypeOK
<1>1. mem \in CommonServiceStatus
  OBVIOUS
<1>2. CASE OpRead
  <2>1. CASE ~opcon.exists
    BY <1>1, <1>2, <2>1, FailType DEF OpRead
  <2>2. CASE opcon.exists
    <3>1. agg' \in CRSpec
      BY <1>2, <2>2, FeatureSCType, LargestSizeType DEF OpRead, CRSpec
    <3>. QED
      BY <1>2, <2>2, <3>1 DEF OpRead, Goto, cacheVars, MasterSteps, GeneralSteps,
                              DeleteSteps
  <2>. QED  BY <2>1, <2>2
<1>3. CASE OpLargest
  <2>1. largest' \in Sizes
    BY <1>3, LargestSizeType DEF OpLargest
  <2>. QED
    BY <1>3, <2>1 DEF OpLargest, Goto, cacheVars, MasterSteps, GeneralSteps,
                      DeleteSteps
<1>4. CASE OpWrite
  <2>1. PICK new \in (IF role = "delete" THEN Shrunk ELSE Updated) :
          \/ Fail(mem, 0)
          \/ /\ opcon' = opcon \/ opcon' = new
             /\ Goto(AfterWrite)
             /\ agg' = EmptySpec /\ largest' = 0 /\ opStale' = FALSE
             /\ UNCHANGED <<status, notify, stale, mem, statusErr, retErr,
                            force, crds, settled>>
    BY <1>4, Zenon DEF OpWrite
  <2>2. CASE Fail(mem, 0)
    BY <1>1, <2>2, FailType
  <2>3. CASE ~Fail(mem, 0)
    <3>1. Declared(cached, cacheSpec) \subseteq SCs
      BY DEF Declared, CRSpec
    <3>2. Shrunk \subseteq OperandConfig
      <4>. SUFFICES ASSUME NEW x \in Shrunk PROVE x \in OperandConfig
        OBVIOUS
      <4>1. PICK sc \in SCs, sz \in Sizes : x = [opcon EXCEPT !.sc = sc, !.size = sz]
        BY <3>1 DEF Shrunk, OperandConfig, SCs
      <4>. QED  BY <4>1 DEF OperandConfig
    <3>3. Updated \subseteq OperandConfig
      <4>. SUFFICES ASSUME NEW x \in Updated PROVE x \in OperandConfig
        OBVIOUS
      <4>1. PICK sc \in SCs, sz \in Sizes :
              x = [exists |-> TRUE, sc |-> sc, size |-> sz, manual |-> FALSE]
        BY <3>1 DEF Updated, CRSpec, SCs
      <4>. QED  BY <4>1 DEF OperandConfig
    <3>4. opcon' \in OperandConfig
      BY <2>1, <2>3, <3>2, <3>3
    <3>5. /\ role = "master"  => AfterWrite \in MasterSteps
          /\ role = "general" => AfterWrite \in GeneralSteps
          /\ role = "delete"  => AfterWrite \in DeleteSteps
      BY DEF AfterWrite, MasterSteps, GeneralSteps, DeleteSteps
    <3>6. /\ Goto(AfterWrite)
          /\ agg' \in CRSpec /\ largest' \in Sizes /\ opStale' \in BOOLEAN
          /\ UNCHANGED <<status, notify, stale, mem, statusErr, retErr, force,
                         crds, settled>>
      BY <2>1, <2>3, ConstantTypes
    <3>7. /\ role' = "master"  => pc' \in MasterSteps
          /\ role' = "general" => pc' \in GeneralSteps
          /\ role' = "delete"  => pc' \in DeleteSteps
      BY <3>5, <3>6 DEF Goto
    <3>8. UNCHANGED <<live, spec, paused, typeOk, odlm, cached, cacheSpec, queue,
                      role, cur, edits, faults, crashes>>
      BY <3>6 DEF Goto, cacheVars
    <3>. QED
      BY <3>4, <3>6, <3>7, <3>8
  <2>. QED  BY <2>2, <2>3
<1>. QED  BY <1>2, <1>3, <1>4

\* Steps of ReconcileMasterCR belong to the master's flow.
LEMMA MasterRole ==
    ASSUME TypeOK, pc \in MasterSteps \ (GeneralSteps \union DeleteSteps)
    PROVE  role = "master"
BY DEF TypeOK, MasterSteps, GeneralSteps, DeleteSteps

\* Steps of ReconcileGeneralCR belong to the flow of the general CRs.
LEMMA GeneralRole ==
    ASSUME TypeOK, pc \in GeneralSteps \ (MasterSteps \union DeleteSteps)
    PROVE  role = "general"
BY DEF TypeOK, MasterSteps, GeneralSteps, DeleteSteps

\* The calls of ReconcileMasterCR.
LEMMA MasterType ==
    ASSUME TypeOK, MasterStep
    PROVE  TypeOK'
<1>1. /\ mem \in CommonServiceStatus
      /\ StartPhase(mem) \in CommonServiceStatus
      /\ [mem EXCEPT !.phase = "Succeeded"] \in CommonServiceStatus
  BY DEF TypeOK, StartPhase, CommonServiceStatus, Phases
<1>. USE DEF MasterSteps, GeneralSteps, DeleteSteps
<1>2. CASE Patch
  <2>1. CASE cur \notin live
    BY <1>1, <1>2, <2>1, FailType DEF Patch
  <2>2. CASE cur \in live
    BY <1>2, <2>2, MasterRole DEF Patch, TypeOK, Goto, cacheVars, workVars
  <2>. QED  BY <2>1, <2>2
<1>3. CASE MasterPhase
  BY <1>1, <1>3, MasterRole, PutStatusType DEF MasterPhase
<1>4. CASE CheckClusterType
  <2>1. role = "master"
    BY <1>4, MasterRole DEF CheckClusterType, Call
  <2>. QED  BY <1>4, <2>1, CallType DEF CheckClusterType
<1>5. CASE ClusterWrong
  BY <1>1, <1>5, FailType DEF ClusterWrong
<1>6. CASE Build
  <2>1. agg' \in CRSpec
    BY <1>6, FeatureSCType, LargestSizeType DEF Build, TypeOK, CRSpec
  <2>. QED  BY <1>6, <2>1, MasterRole DEF Build, TypeOK, Goto, cacheVars
<1>7. CASE InitResources
  <2>1. PICK exist \in BOOLEAN :
           crds' = exist /\ Goto(IF exist THEN "pending1" ELSE "subscribe")
    BY <1>7 DEF InitResources
  <2>2. crds' \in BOOLEAN
    BY <2>1
  <2>3. pc' \in {"pending1", "subscribe"}
    BY <2>1 DEF Goto
  <2>. QED
    BY <1>7, <2>1, <2>2, <2>3, MasterRole
       DEF InitResources, TypeOK, Goto, cacheVars, workVars
<1>8. CASE SetPending
  BY <1>1, <1>8, MasterRole, PutStatusType DEF SetPending
<1>9. CASE InstallOrUpdateOpcon
  <2>1. opcon' \in OperandConfig
    BY <1>9 DEF InstallOrUpdateOpcon, Merged, TypeOK, OperandConfig, CRSpec
  <2>2. role = "master"
    BY <1>9, MasterRole DEF InstallOrUpdateOpcon
  <2>. QED
    BY <1>9, <2>1, <2>2 DEF InstallOrUpdateOpcon, TypeOK, Goto, cacheVars, workVars
<1>10. CASE Subscribe
  BY <1>10, MasterRole
     DEF Subscribe, TypeOK, apiVars, cacheVars, workVars, bounds
<1>11. CASE WaitPoll
  BY <1>11, MasterRole DEF WaitPoll, TypeOK, Goto, cacheVars, workVars
<1>12. CASE WaitDone
  <2>1. role = "master"
    BY <1>12, MasterRole DEF WaitDone, Call
  <2>. QED  BY <1>12, <2>1, CallType DEF WaitDone
<1>13. CASE MasterCalls
  <2>1. role = "master"
    BY <1>13, MasterRole
       DEF MasterCalls, CsMaps, updateOperatorConfig,
           CreateUpdateConfig, PropagateDefaultCR, CheckSubOperatorStatus, Call
  <2>. QED
    BY <1>13, <2>1, CallType
       DEF MasterCalls, CsMaps, updateOperatorConfig,
           CreateUpdateConfig, PropagateDefaultCR, CheckSubOperatorStatus
<1>14. CASE Defer
  <2>. DEFINE m == [mem EXCEPT !.ready = @ \/ ~statusErr, !.error = @ \/ statusErr]
  <2>1. m \in CommonServiceStatus
    BY <1>1 DEF CommonServiceStatus
  <2>2. \/ WriteStatus(m) /\ UNCHANGED faults
        \/ KeepStatus /\ UNCHANGED faults
        \/ KeepStatus /\ faults < MaxFaults /\ faults' = faults + 1
    BY <1>14 DEF Defer
  <2>. HIDE DEF m
  <2>3. /\ status' \in [CRs -> CommonServiceStatus]
        /\ notify' \in [CRs -> {"none", "status", "spec"}]
    BY <2>1, <2>2, WriteStatusType DEF KeepStatus, TypeOK
  <2>4. faults' \in 0 .. MaxFaults
    BY <2>2, BoundAssumption DEF TypeOK
  <2>5. Idle /\ queue' \subseteq CRs
    BY <1>14 DEF Defer, Finish, TypeOK
  <2>. QED  BY <1>14, <2>3, <2>4, <2>5, IdleType DEF Defer, TypeOK, cacheVars
<1>. QED
  BY <1>2, <1>3, <1>4, <1>5, <1>6, <1>7, <1>8, <1>9, <1>10, <1>11, <1>12,
     <1>13, <1>14 DEF MasterStep

\* The calls of ReconcileGeneralCR, the pause, and those all flows share.
LEMMA GeneralType ==
    ASSUME TypeOK, Certs \/ GeneralCalls \/ Succeed \/ GeneralStep
    PROVE  TypeOK'
<1>1. /\ mem \in CommonServiceStatus
      /\ StartPhase(mem) \in CommonServiceStatus
      /\ [mem EXCEPT !.phase = "Succeeded"] \in CommonServiceStatus
      /\ [mem EXCEPT !.phase = "Pending"] \in CommonServiceStatus
      /\ [mem EXCEPT !.ready = TRUE] \in CommonServiceStatus
  BY DEF TypeOK, StartPhase, CommonServiceStatus, Phases
<1>. USE DEF MasterSteps, GeneralSteps, DeleteSteps
<1>2. CASE Certs
  <2>1. CASE role = "master"
    BY <1>2, <2>1, CallType DEF Certs
  <2>2. CASE role = "general"
    BY <1>2, <2>2, CallType DEF Certs
  <2>3. CASE role = "delete"
    <3>1. /\ Idle /\ UNCHANGED queue
          /\ UNCHANGED <<apiVars, notify, opcon, odlm, cacheVars, bounds>>
      BY <1>2, <2>3 DEF Certs, Finish
    <3>. QED  BY <3>1, IdleType DEF TypeOK, apiVars, cacheVars, bounds
  <2>. QED  BY <2>1, <2>2, <2>3 DEF TypeOK
<1>3. CASE GeneralCalls
  <2>1. CASE Call("extract", "opRead")
    BY <2>1, CallType
  <2>2. CASE Call("labels", "rotation")
    <3>1. role # "delete"
      BY <2>2 DEF Call, TypeOK
    <3>. QED  BY <2>2, <3>1, CallType
  <2>3. CASE Call("rotation", IF role = "master" THEN "succeed" ELSE "ready")
    <3>1. role # "delete"
      BY <2>3 DEF Call, TypeOK
    <3>. QED  BY <2>3, <3>1, CallType
  <2>. QED
    BY <1>3, <2>1, <2>2, <2>3
       DEF GeneralCalls, ExtractCommonServiceConfigs,
           UpdateResourceLabel, UpdateManageCertRotationLabel
<1>4. CASE Succeed
  <2>1. CASE role = "master"
    BY <1>1, <1>4, <2>1, PutStatusType DEF Succeed
  <2>2. CASE role # "master"
    BY <1>1, <1>4, <2>2, PutLastType DEF Succeed
  <2>. QED  BY <2>1, <2>2
<1>5. CASE GeneralPhase
  BY <1>1, <1>5, GeneralRole, PutStatusType DEF GeneralPhase
<1>6. CASE GetOpcon
  <2>1. CASE opcon.exists
    <3>1. role = "general"
      BY <1>6, <2>1, GeneralRole DEF GetOpcon, Call
    <3>. QED  BY <1>6, <2>1, <3>1, CallType DEF GetOpcon
  <2>2. CASE ~opcon.exists
    BY <1>1, <1>6, <2>2, FailType DEF GetOpcon
  <2>. QED  BY <2>1, <2>2
<1>7. CASE SetReady
  BY <1>1, <1>7, GeneralRole, PutStatusType DEF SetReady
<1>8. CASE Pause
  BY <1>1, <1>8, PutLastType DEF Pause
<1>. QED
  BY <1>2, <1>3, <1>4, <1>5, <1>6, <1>7, <1>8 DEF GeneralStep

\* Every step keeps the types.
LEMMA NextTyped ==
    ASSUME TypeOK, [Next]_vars
    PROVE  TypeOK'
<1>1. CASE UNCHANGED vars
  BY <1>1 DEF TypeOK, vars
<1>2. CASE User
  BY <1>2, UserType
<1>3. CASE OdlmStep \/ OdlmUpgrade \/ MapsExit \/ Crash
           \/ \E c \in CRs : Deliver(c) \/ Reconcile(c)
  BY <1>3, QueueType
<1>4. CASE Fault
  BY <1>4, FaultType
<1>5. CASE MasterStep
  BY <1>5, MasterType
<1>6. CASE OpRead \/ OpLargest \/ OpWrite
  BY <1>6, UpdateType
<1>7. CASE Certs \/ GeneralCalls \/ Succeed \/ GeneralStep
  BY <1>7, GeneralType
<1>. QED
  BY <1>1, <1>2, <1>3, <1>4, <1>5, <1>6, <1>7 DEF Next, WorkerStep, SharedStep

\* Every variable keeps its type, and the worker never takes a step of another
\* flow than its own, whatever users, faults and restarts do.
THEOREM TypeCorrect == Spec => []TypeOK
BY InitType, NextTyped, PTL DEF Spec

-----------------------------------------------------------------------------
(***************************************************************************)
(* No CR reports Succeeded before the OperandConfig exists.                *)
(*                                                                         *)
(* SucceededInstalled is not inductive: the phase is written from the      *)
(* worker's memory, some steps after the OperandConfig was seen or made.   *)
(* The strengthening says which of the worker's steps come after that, and *)
(* that its copy of the status is no more advanced than the server's.      *)
(***************************************************************************)

\* The steps that are reached only through an OperandConfig that exists.
AfterInstall ==
    {"opLargest", "opWrite", "certs", "operatorConfig", "collector", "propagate",
     "extract", "labels", "rotation", "ready", "succeed", "subStatus"}

InstalledInv ==
    /\ SucceededInstalled
    /\ mem.phase = "Succeeded" => opcon.exists
    /\ pc \in AfterInstall => opcon.exists

\* Nothing removes the OperandConfig.
LEMMA OperandConfigStays ==
    ASSUME TypeOK, [Next]_vars, opcon.exists
    PROVE  opcon'.exists
<1>1. CASE ManualEdit
  BY <1>1 DEF ManualEdit, TypeOK, OperandConfig
<1>2. CASE OpWrite
  <2>1. ASSUME NEW new \in Shrunk PROVE new.exists
    <3>1. PICK sc, sz : new = [opcon EXCEPT !.sc = sc, !.size = sz]
      BY <2>1 DEF Shrunk
    <3>. QED  BY <3>1 DEF TypeOK, OperandConfig
  <2>2. \A new \in Updated : new.exists
    BY DEF Updated
  <2>3. PICK new \in (IF role = "delete" THEN Shrunk ELSE Updated) :
          Fail(mem, 0) \/ opcon' = opcon \/ opcon' = new
    BY <1>2, Zenon DEF OpWrite
  <2>4. CASE Fail(mem, 0)
    BY <2>4 DEF Fail, FailWith
  <2>. QED  BY <2>1, <2>2, <2>3, <2>4
<1>3. CASE InstallOrUpdateOpcon
  BY <1>3 DEF InstallOrUpdateOpcon, Merged
<1>4. CASE UNCHANGED opcon
  BY <1>4
<1>5. CASE User /\ ~ManualEdit
  BY <1>5 DEF User, CreateCR, EditSpec, DeleteCR, TogglePause, Touch, EditCppConfig
<1>6. CASE \/ OdlmStep \/ OdlmUpgrade \/ MapsExit \/ Crash
           \/ \E c \in CRs : Deliver(c) \/ Reconcile(c)
  BY <1>6 DEF OdlmStep, OdlmUpgrade, MapsExit, Crash, Restart, Deliver, Reconcile
<1>7. CASE Fault
  BY <1>7 DEF Fault, Fail, FailWith
<1>8. CASE MasterStep /\ ~InstallOrUpdateOpcon
  BY <1>8 DEF MasterStep, Patch, MasterPhase, CheckClusterType, ClusterWrong, Build,
              InitResources, SetPending, Subscribe, WaitPoll, WaitDone,
              MasterCalls, CsMaps, updateOperatorConfig,
              CreateUpdateConfig, PropagateDefaultCR, CheckSubOperatorStatus,
              Defer, Call, PutStatus, Fail, FailWith
<1>9. CASE (SharedStep \/ GeneralStep) /\ ~OpWrite
  BY <1>9 DEF SharedStep, GeneralStep, OpRead, OpLargest, Certs, GeneralCalls,
            ExtractCommonServiceConfigs,
            UpdateResourceLabel, UpdateManageCertRotationLabel,
              Succeed, GeneralPhase, GetOpcon, SetReady, Pause, PutLast, Call,
              PutStatus, Fail, FailWith
<1>. QED
  BY <1>1, <1>2, <1>3, <1>4, <1>5, <1>6, <1>7, <1>8, <1>9
     DEF Next, WorkerStep, vars

\* What InstalledInv says while there is no OperandConfig.
NotYet ==
    /\ \A c \in CRs : status[c].phase # "Succeeded"
    /\ mem.phase # "Succeeded"
    /\ pc \notin AfterInstall

\* A new CR has no phase, and neither has the memory of a worker at rest.
LEMMA NewPhase == NewStatus.phase # "Succeeded"
BY DEF NewStatus

\* A worker at rest has not gone past the installation.
LEMMA IdleNotYet ==
    ASSUME Idle
    PROVE  mem'.phase # "Succeeded" /\ pc' \notin AfterInstall
<1>1. mem' = NewStatus /\ pc' = "idle"
  BY DEF Idle
<1>. QED  BY <1>1, NewPhase DEF AfterInstall

\* A failure leaves it so: it sets no phase but Failed, and goes to "defer" or
\* to the next reconcile.
LEMMA FailNotYet ==
    ASSUME TypeOK, NotYet, NEW m \in CommonServiceStatus, m.phase # "Succeeded",
           NEW cost \in Nat, Fail(m, cost)
    PROVE  NotYet'
<1>1. PICK wrote \in BOOLEAN : FailWith(m, cost, wrote)
  BY DEF Fail
<1>2. Marked(m).phase # "Succeeded"
  BY DEF Marked, CommonServiceStatus
<1>3. \A c \in CRs : status'[c].phase # "Succeeded"
  BY <1>1, <1>2 DEF FailWith, WriteStatus, KeepStatus, NotYet, TypeOK
<1>4. mem'.phase # "Succeeded" /\ pc' \notin AfterInstall
  BY <1>1, <1>2, IdleNotYet DEF FailWith, Finish, AfterInstall
<1>. QED  BY <1>3, <1>4 DEF NotYet

\* A status write with a phase other than Succeeded.
LEMMA PutNotYet ==
    ASSUME TypeOK, NotYet, NEW m \in CommonServiceStatus, m.phase # "Succeeded",
           NEW t, t \notin AfterInstall, PutStatus(m, t)
    PROVE  NotYet'
<1>1. CASE CanWrite
  BY <1>1 DEF PutStatus, WriteStatus, Goto, NotYet, TypeOK
<1>2. CASE ~CanWrite
  BY <1>2, FailNotYet DEF PutStatus
<1>. QED  BY <1>1, <1>2

\* The last write of a reconcile: not Succeeded before the installation.
LEMMA PutLastNotYet ==
    ASSUME TypeOK, NotYet, NEW m \in CommonServiceStatus, m.phase # "Succeeded",
           PutLast(m)
    PROVE  NotYet'
<1>1. CASE CanWrite
  BY <1>1, IdleNotYet DEF PutLast, WriteStatus, Finish, NotYet, TypeOK
<1>2. CASE ~CanWrite
  BY <1>2, FailNotYet DEF PutLast
<1>. QED  BY <1>1, <1>2

\* As long as a step leaves the OperandConfig missing, it leaves it so.
LEMMA NotYetStep ==
    ASSUME TypeOK, NotYet, ~opcon.exists, ~opcon'.exists, [Next]_vars
    PROVE  NotYet'
<1>1. /\ mem \in CommonServiceStatus /\ mem.phase # "Succeeded"
      /\ StartPhase(mem) \in CommonServiceStatus
      /\ StartPhase(mem).phase # "Succeeded"
      /\ [mem EXCEPT !.phase = "Pending"] \in CommonServiceStatus
      /\ [mem EXCEPT !.phase = "Pending"].phase # "Succeeded"
  BY DEF TypeOK, NotYet, StartPhase, CommonServiceStatus, Phases
<1>2. pc \notin AfterInstall
  BY DEF NotYet
<1>3. CASE User
  <2>1. UNCHANGED <<mem, pc>>
    BY <1>3 DEF User, CreateCR, EditSpec, DeleteCR, TogglePause, Touch, ManualEdit,
                EditCppConfig
  <2>2. \/ UNCHANGED status
        \/ \E c \in CRs : status' = [status EXCEPT ![c] = NewStatus]
    BY <1>3 DEF User, CreateCR, EditSpec, DeleteCR, TogglePause, ManualEdit,
                EditCppConfig, apiVars
  <2>. QED  BY <2>1, <2>2, NewPhase DEF NotYet, TypeOK
<1>4. CASE OdlmStep \/ OdlmUpgrade \/ \E c \in CRs : Deliver(c)
  BY <1>4 DEF OdlmStep, OdlmUpgrade, Deliver, apiVars, NotYet
<1>5. CASE MapsExit \/ Crash
  BY <1>5, IdleNotYet DEF MapsExit, Crash, Restart, apiVars, NotYet
<1>6. CASE \E c \in CRs : Reconcile(c)
  BY <1>6 DEF Reconcile, apiVars, AfterInstall, NotYet
<1>7. CASE Fault
  <2>1. pc # "succeed"
    BY <1>2 DEF AfterInstall
  <2>2. Fail(mem, 1) \/ Fail(StartPhase(mem), 1)
    BY <1>7, <2>1 DEF Fault
  <2>. QED  BY <1>1, <2>2, FailNotYet
<1>8. CASE MasterStep
  <2>1. CASE MasterPhase \/ SetPending
    BY <1>1, <2>1, PutNotYet DEF MasterPhase, SetPending, AfterInstall
  <2>2. CASE ClusterWrong
    BY <1>1, <2>2, FailNotYet DEF ClusterWrong
  <2>3. CASE Patch
    <3>1. CASE cur \notin live
      BY <1>1, <2>3, <3>1, FailNotYet DEF Patch
    <3>2. CASE cur \in live
      BY <2>3, <3>2 DEF Patch, Goto, AfterInstall, NotYet
    <3>. QED  BY <3>1, <3>2
  <2>4. CASE CheckClusterType \/ Build \/ InitResources \/ WaitPoll \/ WaitDone
    BY <2>4 DEF CheckClusterType, Build, InitResources, WaitPoll, WaitDone, Call,
                Goto, AfterInstall, NotYet
  <2>5. CASE InstallOrUpdateOpcon
    BY <2>5 DEF InstallOrUpdateOpcon, Merged
  <2>6. CASE Subscribe
    BY <2>6 DEF Subscribe, apiVars, AfterInstall, NotYet
  <2>7. CASE MasterCalls
    BY <1>2, <2>7
       DEF MasterCalls, CsMaps, updateOperatorConfig,
           CreateUpdateConfig, PropagateDefaultCR, CheckSubOperatorStatus,
           Call, Goto, AfterInstall, NotYet
  <2>8. CASE Defer
    <3>. DEFINE m == [mem EXCEPT !.ready = @ \/ ~statusErr, !.error = @ \/ statusErr]
    <3>1. m.phase # "Succeeded"
      BY <1>1 DEF CommonServiceStatus
    <3>2. WriteStatus(m) \/ KeepStatus
      BY <2>8 DEF Defer
    <3>. HIDE DEF m
    <3>3. \A c \in CRs : status'[c].phase # "Succeeded"
      BY <3>1, <3>2 DEF WriteStatus, KeepStatus, NotYet, TypeOK
    <3>. QED
      BY <2>8, <3>3, IdleNotYet DEF Defer, Finish, NotYet
  <2>. QED
    BY <1>8, <2>1, <2>2, <2>3, <2>4, <2>5, <2>6, <2>7, <2>8 DEF MasterStep
<1>9. CASE SharedStep
  <2>1. OpRead \/ GeneralCalls
    BY <1>2, <1>9 DEF SharedStep, OpLargest, OpWrite, Certs, Call, Succeed,
                      AfterInstall
  <2>2. CASE OpRead
    BY <1>1, <2>2, FailNotYet DEF OpRead
  <2>3. CASE GeneralCalls
    BY <1>2, <2>3
       DEF GeneralCalls, ExtractCommonServiceConfigs,
           UpdateResourceLabel, UpdateManageCertRotationLabel, Call, AfterInstall
  <2>. QED  BY <2>1, <2>2, <2>3
<1>10. CASE GeneralStep
  <2>1. CASE GeneralPhase
    BY <1>1, <2>1, PutNotYet DEF GeneralPhase, AfterInstall
  <2>2. CASE GetOpcon
    BY <1>1, <2>2, FailNotYet DEF GetOpcon
  <2>3. CASE SetReady
    BY <1>2, <2>3 DEF SetReady, AfterInstall
  <2>4. CASE Pause
    BY <1>1, <2>4, PutLastNotYet DEF Pause
  <2>. QED  BY <1>10, <2>1, <2>2, <2>3, <2>4 DEF GeneralStep
<1>11. CASE UNCHANGED vars
  BY <1>11 DEF vars, NotYet
<1>. QED
  BY <1>3, <1>4, <1>5, <1>6, <1>7, <1>8, <1>9, <1>10, <1>11 DEF Next, WorkerStep

\* The strengthening holds throughout.
LEMMA InstalledThroughout == Spec => []InstalledInv
<1>1. Init => InstalledInv
  BY NewPhase DEF Init, InstalledInv, SucceededInstalled, AfterInstall
<1>2. TypeOK /\ InstalledInv /\ [Next]_vars => InstalledInv'
  <2>. SUFFICES ASSUME TypeOK, InstalledInv, [Next]_vars PROVE InstalledInv'
    OBVIOUS
  <2>1. CASE opcon'.exists
    BY <2>1 DEF InstalledInv, SucceededInstalled
  <2>2. CASE ~opcon'.exists
    <3>1. ~opcon.exists
      BY <2>2, OperandConfigStays
    <3>2. NotYet
      BY <3>1 DEF InstalledInv, SucceededInstalled, NotYet
    <3>3. NotYet'
      BY <2>2, <3>1, <3>2, NotYetStep
    <3>. QED  BY <3>3 DEF NotYet, InstalledInv, SucceededInstalled
  <2>. QED  BY <2>1, <2>2
<1>. QED  BY <1>1, <1>2, TypeCorrect, PTL DEF Spec

\* No CR, master or general, reports Succeeded while there is no OperandConfig,
\* whatever is edited, fails or restarts (ReconcileMasterCR, ReconcileGeneralCR).
THEOREM InstalledBeforeSucceeded == Spec => []SucceededInstalled
<1>1. InstalledInv => SucceededInstalled
  BY DEF InstalledInv
<1>. QED  BY <1>1, InstalledThroughout, PTL

-----------------------------------------------------------------------------
(***************************************************************************)
(* What CommonServiceController has reached when it rests, for any set of  *)
(* CRs, storage classes and sizes and any bounds: every CR has the phase   *)
(* it should have, the OperandConfig is the one the CRs ask for, and it    *)
(* was complete when it was created.                                       *)
(*                                                                         *)
(* All three rest on one observation.  A request that came in while the    *)
(* worker is busy stays until the worker is free: so as long as there is   *)
(* none for a CR, nothing the running reconcile has read has changed.      *)
(***************************************************************************)

\* CR c will be reconciled again: its request is queued, or on its way.
Due(c) == c \in queue \/ notify[c] = "spec"

\* The master will be: events of all other CRs lead to it as well.
MasterDue == Due(Master) \/ \E c \in CRs \ {Master} : notify[c] # "none"

\* Which CR each flow reconciles.
RoleInv ==
    /\ role = "master" => cur = Master
    /\ role = "general" /\ pc \notin {"idle", "pause"} => cur # Master

-----------------------------------------------------------------------------
(***************************************************************************)
(* The inductive invariants                                                *)
(***************************************************************************)

\* The phase a CR has at rest.
RestPhases(c) ==
    IF c \in paused THEN {"Pending"}
    ELSE IF c = Master THEN {"Succeeded", "Failed"} ELSE {"Succeeded"}

\* The reconcile of c that is under way takes the flow c calls for, and once it
\* can no longer fail, the phase of c is one to rest with.
Working(c) ==
    /\ role # "delete"
    /\ pc = "pause" <=> c \in paused
    /\ pc = "subStatus" => status[c].phase = "Succeeded" /\ mem.phase = "Succeeded"
    /\ pc = "defer" /\ ~retErr =>
         /\ status[c].phase \in {"Succeeded", "Failed"}
         /\ mem.phase \in {"Succeeded", "Failed"}

\* A CR for which nothing is due has its phase, or is about to get it.
PhaseInv ==
    \A c \in live : ~Due(c) =>
        IF pc # "idle" /\ cur = c THEN Working(c) ELSE status[c].phase \in RestPhases(c)

\* The cache lacks nothing but what is on its way.  The master's status updates
\* lead to no event.
CacheInv ==
    /\ notify[Master] # "status"
    /\ \A c \in CRs : notify[c] # "spec" => (c \in cached <=> c \in live) /\ cacheSpec[c] = spec[c]

\* A general CR's reconcile begins with a status update, which is an event for
\* the master: what it makes of the OperandConfig is not the last word.
GeneralInv == role = "general" /\ pc \notin {"idle", "gPhase", "pause"} => MasterDue

\* A reconcile of the master that has not replaced its phase yet, or that will be
\* repeated: the phase may be one of earlier times.
Unsure ==
    \/ pc \in {"patch", "phase"}
    \/ pc = "pause" /\ cur = Master
    \/ pc = "defer" /\ retErr

\* The steps of the master's flow before and after its update of the
\* OperandConfig.
BeforeWrite ==
    {"maps", "clusterType", "clusterWrong", "build", "opRead", "opLargest", "opWrite"} \union InitSteps
WrittenSteps ==
    {"certs", "operatorConfig", "collector", "propagate", "labels", "rotation", "succeed", "subStatus"}

\* What the worker has read, and what it has made of it, is right.
WorkInv ==
    /\ pc = "opWrite" => largest = LargestSize(cached, cacheSpec)
    /\ role = "master" /\ pc \in {"opLargest", "opWrite"} =>
         agg.sc \in FeatureSC(cached, cacheSpec) /\ agg.size = LargestSize(cached, cacheSpec)
    /\ role = "master" /\ pc \in BeforeWrite =>
         status[Master].phase # "Succeeded" /\ mem.phase # "Succeeded"
    /\ role = "master" /\ pc \in WrittenSteps => Matches(cached, cacheSpec)
    /\ pc = "defer" /\ ~retErr /\ mem.phase = "Succeeded" => Matches(cached, cacheSpec)
    /\ status[Master].phase = "Succeeded" /\ ~Unsure => Matches(cached, cacheSpec)

\* It is, as long as nothing is due for the master.
ConvergedInv == Master \in live /\ ~MasterDue => WorkInv

-----------------------------------------------------------------------------
(***************************************************************************)
(* What the steps leave alone                                              *)
(***************************************************************************)

\* The worker writes no status but that of its CR, and takes no event back.
LEMMA WriteFrame ==
    ASSUME TypeOK, NEW m, WriteStatus(m)
    PROVE  /\ status'[cur] = m
           /\ \A c \in CRs \ {cur} : status'[c] = status[c] /\ notify'[c] = notify[c]
           /\ \A c \in CRs : notify[c] = "spec" => notify'[c] = "spec"
           /\ \A c \in CRs : notify[c] # "none" => notify'[c] # "none"
           /\ notify'[Master] = notify[Master]
           /\ cur # Master => notify'[cur] # "none"
BY MasterAssumption DEF TypeOK, WriteStatus

\* The variables of the other parties, after a step of the worker.
Frame ==
    /\ UNCHANGED <<live, spec, paused, cached, cacheSpec>>
    /\ queue \subseteq queue'
    /\ KeepStatus \/ \E m \in CommonServiceStatus : WriteStatus(m)
    /\ UNCHANGED <<role, cur>> \/ Idle

\* A call that fails.
LEMMA FailFrame ==
    ASSUME TypeOK, NEW m \in CommonServiceStatus, NEW cost \in Nat, Fail(m, cost)
    PROVE  Frame
<1>1. PICK wrote \in BOOLEAN : FailWith(m, cost, wrote)
  BY DEF Fail
<1>2. Marked(m) \in CommonServiceStatus
  BY DEF Marked, CommonServiceStatus, Phases
<1>3. KeepStatus \/ \E n \in CommonServiceStatus : WriteStatus(n)
  BY <1>1, <1>2 DEF FailWith
<1>4. queue \subseteq queue' /\ (UNCHANGED <<role, cur>> \/ Idle)
  BY <1>1 DEF FailWith, Finish
<1>. QED  BY <1>1, <1>3, <1>4 DEF FailWith, Frame, cacheVars

\* A status write, and the last one of a reconcile.
LEMMA PutFrame ==
    ASSUME TypeOK, NEW m \in CommonServiceStatus, NEW t, PutStatus(m, t) \/ PutLast(m)
    PROVE  Frame
<1>1. CASE CanWrite
  BY <1>1 DEF PutStatus, PutLast, Finish, Goto, Frame, cacheVars
<1>2. CASE ~CanWrite
  BY <1>2, FailFrame DEF PutStatus, PutLast
<1>. QED  BY <1>1, <1>2

\* The worker's copy of the status, and what the flows write.
LEMMA WrittenStatuses ==
    ASSUME TypeOK
    PROVE  /\ mem \in CommonServiceStatus
           /\ StartPhase(mem) \in CommonServiceStatus
           /\ StartPhase(mem).phase # "Succeeded"
           /\ [mem EXCEPT !.phase = "Succeeded"] \in CommonServiceStatus
           /\ [mem EXCEPT !.phase = "Succeeded"].phase = "Succeeded"
           /\ [mem EXCEPT !.phase = "Pending"] \in CommonServiceStatus
           /\ [mem EXCEPT !.phase = "Pending"].phase = "Pending"
           /\ [mem EXCEPT !.ready = TRUE] \in CommonServiceStatus
BY DEF TypeOK, StartPhase, CommonServiceStatus, Phases

\* The deferred function sets conditions, and leaves the phase.
LEMMA DeferWrites ==
    ASSUME TypeOK, Defer
    PROVE  \/ KeepStatus
           \/ \E m \in CommonServiceStatus : WriteStatus(m) /\ m.phase = mem.phase
<1>. DEFINE m == [mem EXCEPT !.ready = @ \/ ~statusErr, !.error = @ \/ statusErr]
<1>1. m \in CommonServiceStatus /\ m.phase = mem.phase
  BY DEF TypeOK, CommonServiceStatus
<1>2. WriteStatus(m) \/ KeepStatus
  BY DEF Defer
<1>. HIDE DEF m
<1>. QED  BY <1>1, <1>2

\* Every step of a reconcile.
LEMMA WorkerFrame ==
    ASSUME TypeOK, WorkerStep \/ Fault
    PROVE  Frame /\ pc # "idle"
<1>. USE WrittenStatuses
<1>1. CASE Fault
  <2>1. PICK m \in CommonServiceStatus : Fail(m, 1)
    BY <1>1 DEF Fault
  <2>. QED  BY <1>1, <2>1, FailFrame DEF Fault
<1>2. CASE Patch
  <2>1. CASE cur \notin live
    BY <1>2, <2>1, FailFrame DEF Patch
  <2>2. CASE cur \in live
    BY <1>2, <2>2 DEF Patch, Goto, Frame, KeepStatus, cacheVars
  <2>. QED  BY <1>2, <2>1, <2>2 DEF Patch
<1>3. CASE MasterPhase \/ SetPending \/ GeneralPhase \/ SetReady \/ Succeed \/ Pause
  <2>1. \E m \in CommonServiceStatus : (\E t \in MasterSteps \union GeneralSteps : PutStatus(m, t)) \/ PutLast(m)
    BY <1>3 DEF MasterPhase, SetPending, GeneralPhase, SetReady, Succeed, Pause, MasterSteps, GeneralSteps
  <2>2. pc # "idle"
    BY <1>3 DEF MasterPhase, SetPending, GeneralPhase, SetReady, Succeed, Pause
  <2>. QED  BY <2>1, <2>2, PutFrame
<1>4. CASE ClusterWrong
  BY <1>4, FailFrame DEF ClusterWrong
<1>5. CASE CheckClusterType \/ WaitDone \/ MasterCalls \/ GeneralCalls
  BY <1>5 DEF CheckClusterType, WaitDone, MasterCalls, CsMaps, updateOperatorConfig, CreateUpdateConfig,
     PropagateDefaultCR, CheckSubOperatorStatus, GeneralCalls, ExtractCommonServiceConfigs,
     UpdateResourceLabel, UpdateManageCertRotationLabel, Call, Goto, Frame, KeepStatus, cacheVars
<1>6. CASE Build \/ InitResources \/ InstallOrUpdateOpcon \/ Subscribe \/ WaitPoll
  BY <1>6 DEF Build, InitResources, InstallOrUpdateOpcon, Subscribe, WaitPoll, Goto, Frame, KeepStatus,
     apiVars, cacheVars
<1>7. CASE Defer
  <2>1. KeepStatus \/ \E m \in CommonServiceStatus : WriteStatus(m)
    BY <1>7, DeferWrites
  <2>2. /\ Idle /\ queue \subseteq queue' /\ pc # "idle"
        /\ UNCHANGED <<live, spec, paused, cached, cacheSpec>>
    BY <1>7 DEF Defer, Finish, cacheVars
  <2>. QED  BY <2>1, <2>2 DEF Frame
<1>8. CASE OpRead
  <2>1. CASE ~opcon.exists
    BY <1>8, <2>1, FailFrame DEF OpRead
  <2>2. CASE opcon.exists
    BY <1>8, <2>2 DEF OpRead, Goto, Frame, KeepStatus, cacheVars
  <2>. QED  BY <1>8, <2>1, <2>2 DEF OpRead
<1>9. CASE OpLargest
  BY <1>9 DEF OpLargest, Goto, Frame, KeepStatus, cacheVars
<1>10. CASE OpWrite
  <2>1. \/ Fail(mem, 0)
        \/ Goto(AfterWrite) /\ UNCHANGED <<status, notify>>
    BY <1>10, Zenon DEF OpWrite
  <2>2. CASE Fail(mem, 0)
    BY <1>10, <2>2, FailFrame DEF OpWrite
  <2>3. CASE Goto(AfterWrite) /\ UNCHANGED <<status, notify>>
    BY <1>10, <2>3 DEF OpWrite, Goto, Frame, KeepStatus, cacheVars
  <2>. QED  BY <2>1, <2>2, <2>3
<1>11. CASE Certs
  BY <1>11 DEF Certs, Call, Goto, Finish, Frame, KeepStatus, apiVars, cacheVars
<1>12. CASE GetOpcon
  <2>1. CASE ~opcon.exists
    BY <1>12, <2>1, FailFrame DEF GetOpcon
  <2>2. CASE opcon.exists
    BY <1>12, <2>2 DEF GetOpcon, Call, Goto, Frame, KeepStatus, cacheVars
  <2>. QED  BY <2>1, <2>2
<1>. QED
  BY <1>1, <1>2, <1>3, <1>4, <1>5, <1>6, <1>7, <1>8, <1>9, <1>10, <1>11, <1>12
     DEF WorkerStep, MasterStep, SharedStep, GeneralStep

\* A user's change of CR c, as the other CRs see it.
TouchStep(c) ==
    /\ notify' = [notify EXCEPT ![c] = "spec"]
    /\ UNCHANGED <<cached, cacheSpec, queue, pc, role, cur, mem, retErr, opcon, agg, largest>>
    /\ settled' = settled \ {c}
    /\ \A d \in CRs \ {c} : /\ d \in live' <=> d \in live
                            /\ d \in paused' <=> d \in paused
                            /\ spec'[d] = spec[d] /\ status'[d] = status[d]

\* A step that concerns no CR, event or reconcile.
OtherStep ==
    /\ UNCHANGED <<live, spec, paused, status, cached, cacheSpec, notify, pc, role, cur, mem,
                   retErr, agg, largest, settled>>
    /\ queue \subseteq queue'
    /\ opcon'.exists = opcon.exists /\ opcon'.sc = opcon.sc /\ opcon'.size = opcon.size

\* All there is.
LEMMA StepKinds ==
    ASSUME TypeOK, [Next]_vars
    PROVE  \/ \E c \in CRs : TouchStep(c) \/ Deliver(c) \/ Reconcile(c)
           \/ Restart
           \/ WorkerStep \/ Fault
           \/ OtherStep
<1>1. ASSUME NEW c \in CRs, NEW s \in CRSpec, CreateCR(c, s) \/ EditSpec(c, s)
      PROVE  TouchStep(c)
  BY <1>1 DEF CreateCR, EditSpec, Touch, TouchStep, TypeOK, cacheVars, workVars
<1>2. ASSUME NEW c \in CRs, DeleteCR(c) \/ TogglePause(c)
      PROVE  TouchStep(c)
  BY <1>2 DEF DeleteCR, TogglePause, Touch, TouchStep, TypeOK, cacheVars, workVars
<1>3. CASE ManualEdit
  BY <1>3 DEF ManualEdit, OtherStep, TypeOK, OperandConfig, apiVars, cacheVars, workVars
<1>4. CASE EditCppConfig
  BY <1>4 DEF EditCppConfig, OtherStep, cacheVars, workVars
<1>5. CASE OdlmStep \/ OdlmUpgrade
  BY <1>5 DEF OdlmStep, OdlmUpgrade, OtherStep, apiVars, cacheVars, workVars
<1>6. CASE MapsExit \/ Crash
  BY <1>6 DEF MapsExit, Crash
<1>7. CASE UNCHANGED vars
  BY <1>7 DEF vars, OtherStep
<1>. QED  BY <1>1, <1>2, <1>3, <1>4, <1>5, <1>6, <1>7 DEF Next, User

-----------------------------------------------------------------------------
(***************************************************************************)
(* Flows and requests                                                      *)
(***************************************************************************)

\* A reconcile keeps its flow and its CR.
LEMMA NextRole ==
    ASSUME TypeOK, RoleInv, [Next]_vars
    PROVE  RoleInv'
<1>1. CASE WorkerStep \/ Fault
  <2>1. UNCHANGED <<role, cur>> \/ Idle
    BY <1>1, WorkerFrame DEF Frame
  <2>2. CASE Idle
    BY <2>2 DEF Idle, RoleInv
  <2>3. CASE UNCHANGED <<role, cur>>
    <3>1. ASSUME role = "general", pc = "pause", pc' \notin {"idle", "pause"}
          PROVE  FALSE
      <4>1. PutLast([mem EXCEPT !.phase = "Pending"]) \/ Fail(mem, 1)
        BY <1>1, <3>1 DEF WorkerStep, MasterStep, SharedStep, GeneralStep, Patch, MasterPhase,
           CheckClusterType, ClusterWrong, Build, InitResources, SetPending, InstallOrUpdateOpcon,
           Subscribe, WaitPoll, WaitDone, MasterCalls, CsMaps, updateOperatorConfig,
           CreateUpdateConfig, PropagateDefaultCR, CheckSubOperatorStatus, Defer, OpRead, OpLargest,
           OpWrite, Certs, GeneralCalls, ExtractCommonServiceConfigs, UpdateResourceLabel,
           UpdateManageCertRotationLabel, Succeed, GeneralPhase, GetOpcon, SetReady, Pause, Fault, Call
      <4>2. Idle
        BY <4>1, <3>1 DEF PutLast, Fail, FailWith, Finish
      <4>. QED  BY <4>2, <3>1 DEF Idle
    <3>. QED  BY <1>1, <2>3, <3>1, WorkerFrame DEF RoleInv
  <2>. QED  BY <2>1, <2>2, <2>3
<1>2. CASE \E c \in CRs : TouchStep(c) \/ Deliver(c)
  BY <1>2 DEF TouchStep, Deliver, RoleInv
<1>3. CASE \E c \in CRs : Reconcile(c)
  BY <1>3 DEF Reconcile, RoleInv
<1>4. CASE Restart
  BY <1>4 DEF Restart, Idle, RoleInv
<1>5. CASE OtherStep
  BY <1>5 DEF OtherStep, RoleInv
<1>. QED  BY <1>1, <1>2, <1>3, <1>4, <1>5, StepKinds

\* The worker never takes a request away from a CR.
LEMMA WorkerKeepsDue ==
    ASSUME TypeOK, WorkerStep \/ Fault, NEW c \in CRs, Due(c)
    PROVE  Due(c)'
<1>1. queue \subseteq queue' /\ (notify[c] = "spec" => notify'[c] = "spec")
  BY WorkerFrame, WriteFrame DEF Frame, KeepStatus
<1>. QED  BY <1>1 DEF Due

\* After a restart every CR there is will be reconciled.
LEMMA RestartDue ==
    ASSUME TypeOK, Restart, NEW c \in live'
    PROVE  Due(c)'
<1>1. c \in live /\ c \in Requests(c, "spec")
  BY DEF Restart, apiVars, Requests
<1>. QED  BY <1>1 DEF Restart, Due

\* A delivered change leads to a request.
LEMMA DeliverDue ==
    ASSUME TypeOK, NEW d \in CRs, Deliver(d), NEW c \in CRs, Due(c)
    PROVE  Due(c)'
<1>1. CASE c \in queue
  BY <1>1 DEF Deliver, Due
<1>2. CASE notify[c] = "spec" /\ c = d
  BY <1>2 DEF Deliver, Due, Requests
<1>3. CASE notify[c] = "spec" /\ c # d
  BY <1>3 DEF Deliver, Due, TypeOK
<1>. QED  BY <1>1, <1>2, <1>3 DEF Due

-----------------------------------------------------------------------------
(***************************************************************************)
(* The phase of the CR that is reconciled                                  *)
(***************************************************************************)

\* What a step of the reconcile of c has to show for it.
PhaseAfter(c) ==
    IF pc' # "idle" /\ cur' = c THEN Working(c)' ELSE status'[c].phase \in RestPhases(c)'

\* A failure is followed by another try, unless the master has phase Failed.
LEMMA FailPhase ==
    ASSUME NEW c \in CRs, c = cur, TypeOK, RoleInv, Working(c), cur \notin queue', pc # "idle",
           NEW m \in CommonServiceStatus, NEW cost \in Nat, Fail(m, cost)
    PROVE  Working(c)' /\ pc' # "idle" /\ cur' = c
<1>1. PICK wrote \in BOOLEAN : FailWith(m, cost, wrote)
  BY DEF Fail
<1>2. role = "master"
  BY <1>1 DEF FailWith, Finish
<1>3. /\ role' = role /\ cur' = cur /\ pc' = "defer" /\ mem' = Marked(m) /\ paused' = paused
      /\ retErr' = (pc \notin ReplacesError \/ ~wrote)
  BY <1>1, <1>2 DEF FailWith, Finish
<1>4. pc # "pause"
  BY <1>2 DEF TypeOK, MasterSteps
<1>5. ASSUME ~retErr'
      PROVE  status'[cur].phase = "Failed" /\ mem'.phase = "Failed"
  <2>1. wrote /\ pc \in MarksFailed(role)
    BY <1>1, <1>3, <1>5 DEF FailWith
  <2>2. Marked(m).phase = "Failed"
    BY <2>1 DEF Marked, CommonServiceStatus
  <2>3. status'[cur] = Marked(m)
    BY <1>1, <2>1 DEF FailWith, WriteStatus, TypeOK
  <2>. QED  BY <1>3, <2>2, <2>3
<1>. QED  BY <1>2, <1>3, <1>4, <1>5 DEF Working

\* A status write on the way to step t.
LEMMA PutPhase ==
    ASSUME NEW c \in CRs, c = cur, TypeOK, RoleInv, Working(c), cur \notin queue', pc \notin {"idle", "pause"},
           NEW m \in CommonServiceStatus, NEW t, PutStatus(m, t),
           t \notin {"idle", "pause", "defer"}, t = "subStatus" => m.phase = "Succeeded"
    PROVE  PhaseAfter(c)
<1>1. CASE CanWrite
  <2>1. /\ status'[cur] = m /\ mem' = m /\ pc' = t /\ role' = role /\ cur' = cur /\ paused' = paused
    BY <1>1, WriteFrame DEF PutStatus, Goto
  <2>. QED  BY <2>1 DEF Working, PhaseAfter
<1>2. CASE ~CanWrite
  BY <1>2, FailPhase DEF PutStatus, PhaseAfter
<1>. QED  BY <1>1, <1>2

\* The last write of a general CR's reconcile, or of a paused CR's.
LEMMA PutLastPhase ==
    ASSUME NEW c \in CRs, c = cur, TypeOK, RoleInv, Working(c), cur \notin queue', pc # "idle", role = "general",
           NEW m \in CommonServiceStatus, PutLast(m), m.phase \in RestPhases(c)
    PROVE  PhaseAfter(c)
<1>1. CASE CanWrite
  <2>1. status'[cur] = m /\ pc' = "idle" /\ paused' = paused
    BY <1>1, WriteFrame DEF PutLast, Finish, Idle
  <2>. QED  BY <2>1 DEF RestPhases, PhaseAfter
<1>2. CASE ~CanWrite
  BY <1>2, FailPhase DEF PutLast, PhaseAfter
<1>. QED  BY <1>1, <1>2

\* A call that writes no status, on the way to step t.
LEMMA GotoPhase ==
    ASSUME NEW c \in CRs, c = cur, Working(c), pc # "pause", pc' \notin {"pause", "defer", "subStatus", "idle"},
           UNCHANGED <<role, cur, paused>>
    PROVE  PhaseAfter(c)
BY DEF Working, PhaseAfter

\* Every step of the reconcile of c brings it to its phase, or to another try.
LEMMA WorkPhase ==
    ASSUME NEW c \in CRs, c = cur, TypeOK, RoleInv, WorkerStep \/ Fault, Working(c), cur \notin queue'
    PROVE  PhaseAfter(c)
<1>0. pc # "idle"
  BY WorkerFrame
<1>. USE WrittenStatuses, <1>0
<1>1. CASE Fault
  <2>1. PICK m \in CommonServiceStatus : Fail(m, 1)
    BY <1>1 DEF Fault
  <2>. QED  BY <2>1, FailPhase DEF PhaseAfter
<1>2. CASE Patch
  <2>1. CASE cur \notin live
    BY <1>2, <2>1, FailPhase DEF Patch, PhaseAfter
  <2>2. CASE cur \in live
    BY <1>2, <2>2, GotoPhase DEF Patch, Goto
  <2>. QED  BY <2>1, <2>2
<1>3. CASE MasterPhase \/ SetPending \/ GeneralPhase \/ SetReady
  BY <1>3, PutPhase DEF MasterPhase, SetPending, GeneralPhase, SetReady
<1>4. CASE Succeed
  <2>1. CASE role = "master"
    <3>1. PutStatus([mem EXCEPT !.phase = "Succeeded"], "subStatus") /\ pc = "succeed"
      BY <1>4, <2>1 DEF Succeed
    <3>2. PICK m \in CommonServiceStatus : m.phase = "Succeeded" /\ PutStatus(m, "subStatus")
      BY <3>1
    <3>. HIDE WrittenStatuses
    <3>. QED  BY <3>1, <3>2, PutPhase
  <2>2. CASE role # "master"
    <3>1. role = "general" /\ cur # Master
      BY <1>4, <2>2 DEF Succeed, TypeOK, DeleteSteps, RoleInv
    <3>2. cur \notin paused
      BY <1>4 DEF Succeed, Working
    <3>3. "Succeeded" \in RestPhases(c)
      BY <3>1, <3>2 DEF RestPhases
    <3>. QED  BY <1>4, <3>1, <3>3, PutLastPhase DEF Succeed
  <2>. QED  BY <2>1, <2>2
<1>5. CASE Pause
  <2>1. role = "general"
    <3>. HIDE WrittenStatuses
    <3>. pc = "pause"
      BY <1>5 DEF Pause
    <3>. QED  BY GeneralRole DEF MasterSteps, GeneralSteps, DeleteSteps
  <2>2. "Pending" \in RestPhases(c)
    BY <1>5 DEF Pause, Working, RestPhases
  <2>. QED  BY <1>5, <2>1, <2>2, PutLastPhase DEF Pause
<1>6. CASE ClusterWrong
  BY <1>6, FailPhase DEF ClusterWrong, PhaseAfter
<1>7. CASE CheckClusterType \/ WaitDone \/ GeneralCalls
  BY <1>7, GotoPhase DEF CheckClusterType, WaitDone, GeneralCalls, ExtractCommonServiceConfigs,
     UpdateResourceLabel, UpdateManageCertRotationLabel, Call, Goto
<1>8. CASE CsMaps \/ updateOperatorConfig \/ CreateUpdateConfig \/ PropagateDefaultCR
  BY <1>8, GotoPhase DEF CsMaps, updateOperatorConfig, CreateUpdateConfig, PropagateDefaultCR, Call, Goto
<1>9. CASE CheckSubOperatorStatus
  BY <1>9 DEF CheckSubOperatorStatus, Call, Goto, Working, PhaseAfter
<1>10. CASE Build \/ InitResources \/ InstallOrUpdateOpcon \/ WaitPoll
  BY <1>10, GotoPhase DEF Build, InitResources, InstallOrUpdateOpcon, WaitPoll, Goto
<1>11. CASE Subscribe
  BY <1>11, GotoPhase DEF Subscribe, apiVars
<1>12. CASE Defer
  <2>1. ~retErr /\ pc' = "idle" /\ paused' = paused
    BY <1>12 DEF Defer, Finish, Idle
  <2>2. role = "master"
    BY <1>12, MasterRole DEF Defer, MasterSteps, GeneralSteps, DeleteSteps
  <2>3. cur = Master /\ cur \notin paused
    BY <1>12, <2>2 DEF RoleInv, Working, Defer
  <2>4. status[cur].phase \in {"Succeeded", "Failed"} /\ mem.phase \in {"Succeeded", "Failed"}
    BY <1>12, <2>1 DEF Working, Defer
  <2>5. status'[cur].phase \in {"Succeeded", "Failed"}
    BY <1>12, <2>4, DeferWrites, WriteFrame DEF KeepStatus
  <2>. QED  BY <2>1, <2>3, <2>5 DEF RestPhases, PhaseAfter
<1>13. CASE OpRead
  <2>1. CASE ~opcon.exists
    BY <1>13, <2>1, FailPhase DEF OpRead, PhaseAfter
  <2>2. CASE opcon.exists
    BY <1>13, <2>2, GotoPhase DEF OpRead, Goto
  <2>. QED  BY <2>1, <2>2
<1>14. CASE OpLargest
  BY <1>14, GotoPhase DEF OpLargest, Goto
<1>15. CASE OpWrite
  <2>1. Fail(mem, 0) \/ Goto(AfterWrite)
    BY <1>15, Zenon DEF OpWrite
  <2>2. CASE Fail(mem, 0)
    BY <2>2, FailPhase DEF PhaseAfter
  <2>3. CASE Goto(AfterWrite)
    BY <1>15, <2>3, GotoPhase DEF OpWrite, Goto, AfterWrite
  <2>. QED  BY <2>1, <2>2, <2>3
<1>16. CASE Certs
  <2>1. role # "delete"
    BY DEF Working
  <2>. QED  BY <1>16, <2>1, GotoPhase DEF Certs, Call, Goto
<1>17. CASE GetOpcon
  <2>1. CASE ~opcon.exists
    BY <1>17, <2>1, FailPhase DEF GetOpcon, PhaseAfter
  <2>2. CASE opcon.exists
    BY <1>17, <2>2, GotoPhase DEF GetOpcon, Call, Goto
  <2>. QED  BY <2>1, <2>2
<1>. QED
  BY <1>1, <1>2, <1>3, <1>4, <1>5, <1>6, <1>7, <1>8, <1>9, <1>10, <1>11, <1>12, <1>13, <1>14, <1>15,
     <1>16, <1>17 DEF WorkerStep, MasterStep, MasterCalls, SharedStep, GeneralStep

-----------------------------------------------------------------------------
(***************************************************************************)
(* No CR rests half-way                                                    *)
(***************************************************************************)

\* Every step keeps the phases.
LEMMA NextPhase ==
    ASSUME TypeOK, RoleInv, PhaseInv, [Next]_vars
    PROVE  PhaseInv'
<1>. SUFFICES ASSUME NEW c \in live', ~Due(c)'
              PROVE  IF pc' # "idle" /\ cur' = c THEN Working(c)'
                                                 ELSE status'[c].phase \in RestPhases(c)'
  BY DEF PhaseInv
<1>0. c \in CRs
  BY NextTyped DEF TypeOK
<1>1. ASSUME NEW d \in CRs, TouchStep(d)
      PROVE  IF pc' # "idle" /\ cur' = c THEN Working(c)' ELSE status'[c].phase \in RestPhases(c)'
  <2>1. c # d
    BY <1>0, <1>1 DEF TouchStep, Due, TypeOK
  <2>2. ~Due(c) /\ c \in live /\ (c \in paused' <=> c \in paused) /\ status'[c] = status[c]
        /\ UNCHANGED <<pc, role, cur, mem, retErr>>
    BY <1>0, <1>1, <2>1 DEF TouchStep, Due, TypeOK
  <2>. QED  BY <2>2 DEF PhaseInv, Working, RestPhases
<1>2. ASSUME NEW d \in CRs, Deliver(d)
      PROVE  IF pc' # "idle" /\ cur' = c THEN Working(c)' ELSE status'[c].phase \in RestPhases(c)'
  <2>1. ~Due(c)
    BY <1>0, <1>2, DeliverDue
  <2>2. c \in live /\ UNCHANGED <<paused, status, pc, role, cur, mem, retErr>>
    BY <1>2 DEF Deliver, apiVars
  <2>. QED  BY <2>1, <2>2 DEF PhaseInv, Working, RestPhases
<1>3. ASSUME NEW d \in CRs, Reconcile(d)
      PROVE  IF pc' # "idle" /\ cur' = c THEN Working(c)' ELSE status'[c].phase \in RestPhases(c)'
  <2>0. c \in live /\ UNCHANGED <<live, paused, status, notify>>
    BY <1>3 DEF Reconcile, apiVars
  <2>1. CASE c = d
    BY <1>3, <2>0, <2>1 DEF Reconcile, Working
  <2>2. CASE c # d
    <3>1. ~Due(c)
      BY <1>3, <2>0, <2>2 DEF Reconcile, Due
    <3>2. pc = "idle" /\ cur' # c
      BY <1>3, <2>2 DEF Reconcile
    <3>. QED  BY <2>0, <3>1, <3>2 DEF PhaseInv, RestPhases
  <2>. QED  BY <2>1, <2>2
<1>4. CASE Restart
  BY <1>4, RestartDue
<1>5. CASE WorkerStep \/ Fault
  <2>1. ~Due(c)
    BY <1>0, <1>5, WorkerKeepsDue
  <2>2. c \in live /\ paused' = paused /\ pc # "idle"
    BY <1>5, WorkerFrame DEF Frame
  <2>3. CASE c = cur
    <3>1. Working(c)
      BY <2>1, <2>2, <2>3 DEF PhaseInv
    <3>2. cur \notin queue'
      BY <2>3 DEF Due
    <3>. QED  BY <1>0, <1>5, <2>3, <3>1, <3>2, WorkPhase DEF PhaseAfter
  <2>4. CASE c # cur
    <3>1. status'[c] = status[c]
      BY <1>0, <1>5, <2>4, WorkerFrame, WriteFrame DEF Frame, KeepStatus
    <3>2. cur' = cur \/ pc' = "idle"
      BY <1>5, WorkerFrame DEF Frame, Idle
    <3>3. status[c].phase \in RestPhases(c)
      BY <2>1, <2>2, <2>4 DEF PhaseInv
    <3>. QED  BY <2>2, <2>4, <3>1, <3>2, <3>3 DEF RestPhases
  <2>. QED  BY <2>3, <2>4
<1>6. CASE OtherStep
  <2>1. ~Due(c) /\ c \in live
    BY <1>6 DEF OtherStep, Due
  <2>. QED  BY <1>6, <2>1 DEF OtherStep, PhaseInv, Working, RestPhases
<1>. QED  BY <1>1, <1>2, <1>3, <1>4, <1>5, <1>6, StepKinds

\* Whatever is edited, paused, deleted, refused or restarted: at rest, an unpaused
\* general CR has Succeeded, the unpaused master has Succeeded or Failed, and a
\* paused CR is Pending.
THEOREM NoCRRestsHalfWay == Spec => []SettledPhase
<1>1. Init => RoleInv /\ PhaseInv
  BY DEF Init, RoleInv, PhaseInv, Due
<1>2. TypeOK /\ RoleInv /\ PhaseInv /\ [Next]_vars => RoleInv' /\ PhaseInv'
  BY NextRole, NextPhase
<1>3. TypeOK /\ PhaseInv => SettledPhase
  <2>. SUFFICES ASSUME PhaseInv, Quiet, TypeOK, NEW c \in live
                PROVE  status[c].phase \in RestPhases(c)
    BY DEF SettledPhase, RestPhases
  <2>. QED  BY DEF PhaseInv, Quiet, Due, TypeOK
<1>. QED  BY <1>1, <1>2, <1>3, TypeCorrect, PTL DEF Spec

-----------------------------------------------------------------------------
(***************************************************************************)
(* The cache, and what is due for the master                               *)
(***************************************************************************)

\* Every step keeps the cache no further behind than the events.
LEMMA NextCache ==
    ASSUME TypeOK, CacheInv, [Next]_vars
    PROVE  CacheInv'
<1>1. ASSUME NEW d \in CRs, TouchStep(d)
      PROVE  CacheInv'
  BY <1>1, MasterAssumption DEF TouchStep, CacheInv, TypeOK
<1>2. ASSUME NEW d \in CRs, Deliver(d)
      PROVE  CacheInv'
  BY <1>2, MasterAssumption DEF Deliver, CacheInv, TypeOK, apiVars
<1>3. CASE \E d \in CRs : Reconcile(d)
  BY <1>3 DEF Reconcile, CacheInv, apiVars, cacheVars
<1>4. CASE Restart
  BY <1>4, MasterAssumption DEF Restart, CacheInv, apiVars
<1>5. CASE WorkerStep \/ Fault
  <2>1. UNCHANGED <<live, spec, cached, cacheSpec>>
    BY <1>5, WorkerFrame DEF Frame
  <2>2. /\ notify'[Master] = notify[Master]
        /\ \A c \in CRs : notify[c] = "spec" => notify'[c] = "spec"
    BY <1>5, WorkerFrame, WriteFrame DEF Frame, KeepStatus
  <2>. QED  BY <2>1, <2>2 DEF CacheInv
<1>6. CASE OtherStep
  BY <1>6 DEF OtherStep, CacheInv
<1>. QED  BY <1>1, <1>2, <1>3, <1>4, <1>5, <1>6, StepKinds

\* The worker never takes the master's requests away.
LEMMA WorkerKeepsMasterDue ==
    ASSUME TypeOK, WorkerStep \/ Fault, MasterDue
    PROVE  MasterDue'
<1>1. CASE Due(Master)
  BY <1>1, MasterAssumption, WorkerKeepsDue DEF MasterDue
<1>2. ASSUME NEW c \in CRs \ {Master}, notify[c] # "none"
      PROVE  MasterDue'
  <2>1. notify'[c] # "none"
    BY <1>2, WorkerFrame, WriteFrame DEF Frame, KeepStatus
  <2>. QED  BY <2>1 DEF MasterDue
<1>. QED  BY <1>1, <1>2 DEF MasterDue

\* A change or an event of any CR is one for the master.
LEMMA EventIsForMaster ==
    ASSUME TypeOK, CacheInv, NEW c \in CRs, TouchStep(c) \/ Deliver(c)
    PROVE  MasterDue'
<1>1. CASE TouchStep(c)
  <2>1. notify'[c] = "spec"
    BY <1>1 DEF TouchStep, TypeOK
  <2>. QED  BY <2>1 DEF MasterDue, Due
<1>2. CASE Deliver(c)
  <2>1. Master \in Requests(c, notify[c])
    BY <1>2 DEF Deliver, Requests, CacheInv, TypeOK
  <2>. QED  BY <1>2, <2>1 DEF Deliver, MasterDue, Due
<1>. QED  BY <1>1, <1>2

\* The first step of a general CR's reconcile, and the only one of a paused CR's,
\* leave the OperandConfig alone.
LEMMA GeneralStart ==
    ASSUME TypeOK, role = "general", pc \in {"gPhase", "pause"}, WorkerStep \/ Fault
    PROVE  /\ opcon' = opcon
           /\ \/ Idle /\ KeepStatus /\ cur \in queue'
              \/ Idle /\ pc = "pause" /\ \E m \in CommonServiceStatus : WriteStatus(m) /\ m.phase = "Pending"
              \/ pc = "gPhase" /\ \E m \in CommonServiceStatus : WriteStatus(m)
<1>1. ASSUME NEW m \in CommonServiceStatus, NEW cost \in Nat, Fail(m, cost)
      PROVE  Idle /\ KeepStatus /\ cur \in queue' /\ opcon' = opcon
  <2>1. PICK wrote \in BOOLEAN : FailWith(m, cost, wrote)
    BY <1>1 DEF Fail
  <2>2. pc \notin MarksFailed(role)
    BY DEF MarksFailed, UpdateSteps
  <2>. QED  BY <2>1, <2>2 DEF FailWith, Finish
<1>2. CASE Fault
  <2>1. Fail(mem, 1)
    BY <1>2 DEF Fault
  <2>. QED  BY <1>1, <2>1, WrittenStatuses
<1>3. CASE WorkerStep
  <2>1. \/ pc = "gPhase" /\ \E m \in CommonServiceStatus : PutStatus(m, "getOpcon")
        \/ pc = "pause" /\ \E m \in CommonServiceStatus : m.phase = "Pending" /\ PutLast(m)
    BY <1>3, WrittenStatuses DEF WorkerStep, MasterStep, SharedStep, GeneralStep, Patch, MasterPhase,
       CheckClusterType, ClusterWrong, Build, InitResources, SetPending, InstallOrUpdateOpcon,
       Subscribe, WaitPoll, WaitDone, MasterCalls, CsMaps, updateOperatorConfig,
       CreateUpdateConfig, PropagateDefaultCR, CheckSubOperatorStatus, Defer, OpRead, OpLargest,
       OpWrite, Certs, GeneralCalls, ExtractCommonServiceConfigs, UpdateResourceLabel,
       UpdateManageCertRotationLabel, Succeed, GeneralPhase, GetOpcon, SetReady, Pause, Call
  <2>2. ASSUME NEW m \in CommonServiceStatus, pc = "gPhase", PutStatus(m, "getOpcon")
        PROVE  Fail(m, 0) \/ (WriteStatus(m) /\ opcon' = opcon)
    BY <2>2 DEF PutStatus
  <2>3. ASSUME NEW m \in CommonServiceStatus, PutLast(m)
        PROVE  Fail(m, 0) \/ (WriteStatus(m) /\ opcon' = opcon /\ Idle)
    BY <2>3 DEF PutLast, Finish
  <2>. QED  BY <1>1, <2>1, <2>2, <2>3
<1>. QED  BY <1>2, <1>3

\* A general CR's reconcile tells the master before it does anything.
LEMMA NextGeneral ==
    ASSUME TypeOK, RoleInv, CacheInv, GeneralInv, [Next]_vars
    PROVE  GeneralInv'
<1>1. CASE \E c \in CRs : TouchStep(c) \/ Deliver(c)
  BY <1>1, EventIsForMaster DEF GeneralInv
<1>2. CASE \E c \in CRs : Reconcile(c)
  BY <1>2 DEF Reconcile, GeneralInv
<1>3. CASE Restart
  BY <1>3 DEF Restart, Idle, GeneralInv
<1>4. CASE OtherStep
  BY <1>4 DEF OtherStep, GeneralInv, MasterDue, Due
<1>5. CASE WorkerStep \/ Fault
  <2>. SUFFICES ASSUME role' = "general", pc' # "idle"
                PROVE  MasterDue'
    BY DEF GeneralInv
  <2>1. ~Idle
    BY DEF Idle
  <2>2. role = "general" /\ pc # "idle"
    BY <1>5, <2>1, WorkerFrame DEF Frame
  <2>3. CASE pc \in {"gPhase", "pause"}
    <3>1. pc = "gPhase" /\ \E m \in CommonServiceStatus : WriteStatus(m)
      BY <1>5, <2>1, <2>2, <2>3, GeneralStart
    <3>2. cur \in CRs \ {Master} /\ notify'[cur] # "none"
      BY <2>2, <3>1, WriteFrame DEF RoleInv, TypeOK
    <3>. QED  BY <3>2 DEF MasterDue
  <2>4. CASE pc \notin {"gPhase", "pause"}
    BY <1>5, <2>2, <2>4, WorkerKeepsMasterDue DEF GeneralInv
  <2>. QED  BY <2>3, <2>4
<1>. QED  BY <1>1, <1>2, <1>3, <1>4, <1>5, StepKinds

-----------------------------------------------------------------------------
(***************************************************************************)
(* What updateOperandConfig and handleDelete compute                       *)
(***************************************************************************)

\* Three equal lists of CRs give what these CRs ask for.
LEMMA UpdatedMatches ==
    ASSUME TypeOK, agg.sc \in FeatureSC(cached, cacheSpec), agg.size = LargestSize(cached, cacheSpec),
           largest = LargestSize(cached, cacheSpec), NEW new \in Updated
    PROVE  /\ new.exists
           /\ new.sc \in FeatureSC(cached, cacheSpec)
           /\ new.size = LargestSize(cached, cacheSpec)
<1>. DEFINE third == Declared(cached, cacheSpec)
<1>1. NoSC \notin third
  BY DEF Declared
<1>2. PICK sc \in (IF third = {} THEN {agg.sc} ELSE IF agg.sc = NoSC THEN third \union {NoSC} ELSE third) :
        /\ new.exists /\ new.sc = sc
        /\ new.size = IF cached # {} /\ largest > agg.size THEN largest ELSE agg.size
  BY DEF Updated
<1>3. sc \in FeatureSC(cached, cacheSpec)
  BY <1>1, <1>2 DEF FeatureSC
<1>. QED  BY <1>2, <1>3

\* handleDelete leaves alone what is already what the CRs ask for.
LEMMA ShrunkMatches ==
    ASSUME TypeOK, Matches(cached, cacheSpec), largest = LargestSize(cached, cacheSpec),
           NEW new \in Shrunk
    PROVE  /\ new.exists
           /\ new.sc \in FeatureSC(cached, cacheSpec)
           /\ new.size = LargestSize(cached, cacheSpec)
<1>. DEFINE declared == Declared(cached, cacheSpec)
<1>1. NoSC \notin declared
  BY DEF Declared
<1>2. PICK sc \in (IF opcon.sc = NoSC /\ declared # {} THEN declared \union {NoSC} ELSE {opcon.sc}) :
        new = [opcon EXCEPT !.sc = sc,
                            !.size = IF cached # {} /\ largest < opcon.size THEN largest ELSE opcon.size]
  BY DEF Shrunk
<1>3. opcon.sc = sc
  BY <1>1, <1>2 DEF Matches, FeatureSC
<1>4. new.exists = opcon.exists /\ new.sc = sc /\ new.size = opcon.size
  BY <1>2 DEF Matches, TypeOK, OperandConfig
<1>. QED  BY <1>3, <1>4 DEF Matches

\* A write leaves the OperandConfig with what was computed, whether it was
\* written or found to be there.
LEMMA WriteEffect ==
    ASSUME TypeOK, OpWrite
    PROVE  \/ Fail(mem, 0)
           \/ /\ Goto(AfterWrite)
              /\ UNCHANGED <<status, notify, mem, retErr>>
              /\ \E new \in (IF role = "delete" THEN Shrunk ELSE Updated) :
                    opcon'.exists = new.exists /\ opcon'.sc = new.sc /\ opcon'.size = new.size
<1>1. PICK new \in (IF role = "delete" THEN Shrunk ELSE Updated) :
        LET old  == IF opStale THEN [opcon EXCEPT !.manual = FALSE] ELSE opcon
            same == role # "delete" /\ new = old
        IN  \/ Fail(mem, 0)
            \/ /\ opcon' = IF same THEN opcon ELSE new
               /\ Goto(AfterWrite)
               /\ UNCHANGED <<status, notify, stale, mem, statusErr, retErr, force, crds, settled>>
  BY Zenon DEF OpWrite
<1>2. /\ [opcon EXCEPT !.manual = FALSE].exists = opcon.exists
      /\ [opcon EXCEPT !.manual = FALSE].sc = opcon.sc
      /\ [opcon EXCEPT !.manual = FALSE].size = opcon.size
  BY DEF TypeOK, OperandConfig
<1>. QED  BY <1>1, <1>2

-----------------------------------------------------------------------------
(***************************************************************************)
(* The steps of the worker while nothing is due for the master             *)
(***************************************************************************)

\* A failure of the master's flow leads to another try, or to phase Failed.
LEMMA MasterFails ==
    ASSUME TypeOK, role = "master", cur = Master,
           NEW m \in CommonServiceStatus, NEW cost \in Nat, Fail(m, cost)
    PROVE  WorkInv'
<1>1. PICK wrote \in BOOLEAN : FailWith(m, cost, wrote)
  BY DEF Fail
<1>2. /\ pc' = "defer" /\ mem' = Marked(m)
      /\ retErr' = (pc \notin ReplacesError \/ ~wrote)
  BY <1>1 DEF FailWith
<1>3. ASSUME ~retErr'
      PROVE  status'[Master].phase = "Failed" /\ mem'.phase = "Failed"
  <2>1. wrote /\ pc \in MarksFailed(role)
    BY <1>1, <1>2, <1>3 DEF FailWith
  <2>2. Marked(m).phase = "Failed"
    BY <2>1 DEF Marked, CommonServiceStatus
  <2>3. status'[Master] = Marked(m)
    BY <1>1, <2>1 DEF FailWith, WriteStatus, TypeOK
  <2>. QED  BY <1>2, <2>2, <2>3
<1>. QED  BY <1>2, <1>3 DEF WorkInv, BeforeWrite, WrittenSteps, InitSteps, Unsure

\* A step before the update of the OperandConfig.
LEMMA MasterBefore ==
    ASSUME role = "master", WorkInv, pc \in BeforeWrite,
           pc' \in BeforeWrite \ {"opLargest", "opWrite"},
           UNCHANGED <<role, status, mem>>
    PROVE  WorkInv'
BY DEF WorkInv, BeforeWrite, WrittenSteps, InitSteps

\* A step after it.
LEMMA MasterAfter ==
    ASSUME role = "master", WorkInv, pc \in WrittenSteps, pc' \in WrittenSteps \union {"defer"},
           UNCHANGED <<role, opcon, cached, cacheSpec>>
    PROVE  WorkInv'
BY DEF WorkInv, BeforeWrite, WrittenSteps, InitSteps, Matches

\* ReconcileMasterCR, every step.
LEMMA MasterConverges ==
    ASSUME TypeOK, RoleInv, WorkInv, role = "master", WorkerStep \/ Fault, Master \notin queue'
    PROVE  WorkInv'
<1>0. cur = Master
  BY DEF RoleInv
<1>f. ASSUME NEW m \in CommonServiceStatus, NEW cost \in Nat, Fail(m, cost)
      PROVE  WorkInv'
  BY <1>0, <1>f, MasterFails
<1>1. CASE Fault
  <2>1. PICK m \in CommonServiceStatus : Fail(m, 1)
    BY <1>1, WrittenStatuses DEF Fault
  <2>. QED  BY <2>1, <1>f
<1>2. CASE Patch
  <2>1. CASE cur \notin live
    BY <1>2, <2>1, <1>f, WrittenStatuses DEF Patch
  <2>2. CASE cur \in live
    <3>1. pc' = "phase"
      BY <1>2, <2>2 DEF Patch, Goto
    <3>. QED  BY <3>1 DEF WorkInv, Unsure, BeforeWrite, WrittenSteps, InitSteps
  <2>. QED  BY <2>1, <2>2
<1>3. CASE MasterPhase
  <2>1. PICK m \in CommonServiceStatus : m.phase # "Succeeded" /\ PutStatus(m, "maps")
    BY <1>3, WrittenStatuses DEF MasterPhase
  <2>2. CASE CanWrite
    <3>1. status'[Master] = m /\ mem' = m /\ pc' = "maps"
      BY <1>0, <2>1, <2>2, WriteFrame DEF PutStatus, Goto
    <3>. QED  BY <2>1, <3>1 DEF WorkInv, BeforeWrite, WrittenSteps, InitSteps
  <2>3. CASE ~CanWrite
    BY <2>1, <2>3, <1>f DEF PutStatus
  <2>. QED  BY <2>2, <2>3
<1>4. CASE SetPending
  <2>0. mem \in CommonServiceStatus
    BY DEF TypeOK
  <2>1. PICK t \in {"install1", "install2"} : PutStatus(mem, t) /\ pc \in BeforeWrite
    BY <1>4 DEF SetPending, BeforeWrite, InitSteps
  <2>2. CASE CanWrite
    <3>1. status'[Master] = mem /\ mem' = mem /\ pc' = t
      BY <1>0, <2>1, <2>2, WriteFrame DEF PutStatus, Goto
    <3>2. mem.phase # "Succeeded"
      BY <2>1 DEF WorkInv
    <3>. QED  BY <3>1, <3>2 DEF WorkInv, BeforeWrite, WrittenSteps, InitSteps
  <2>3. CASE ~CanWrite
    BY <2>0, <2>1, <2>3, <1>f DEF PutStatus
  <2>. QED  BY <2>2, <2>3
<1>5. CASE ClusterWrong
  BY <1>5, <1>f, WrittenStatuses DEF ClusterWrong
<1>6. CASE CheckClusterType \/ WaitDone \/ CsMaps
  BY <1>6, MasterBefore DEF CheckClusterType, WaitDone, CsMaps, Call, Goto, BeforeWrite, InitSteps
<1>7. CASE Build \/ InitResources \/ InstallOrUpdateOpcon \/ WaitPoll
  BY <1>7, MasterBefore DEF Build, InitResources, InstallOrUpdateOpcon, WaitPoll, Goto, BeforeWrite, InitSteps
<1>8. CASE Subscribe
  BY <1>8, MasterBefore DEF Subscribe, apiVars, BeforeWrite, InitSteps
<1>9. CASE ExtractCommonServiceConfigs
  BY <1>9 DEF ExtractCommonServiceConfigs, Call, TypeOK, MasterSteps
<1>10. CASE OpRead
  <2>1. CASE ~opcon.exists
    BY <1>10, <2>1, <1>f, WrittenStatuses DEF OpRead
  <2>2. CASE opcon.exists
    <3>1. PICK sc \in FeatureSC(cached, cacheSpec) :
            agg' = [sc |-> sc, size |-> LargestSize(cached, cacheSpec)]
      BY <1>10, <2>2 DEF OpRead
    <3>2. pc' = "opLargest" /\ UNCHANGED <<role, status, mem, cached, cacheSpec>>
      BY <1>10, <2>2 DEF OpRead, Goto, cacheVars
    <3>3. pc \in BeforeWrite
      BY <1>10 DEF OpRead, BeforeWrite
    <3>4. status'[Master].phase # "Succeeded" /\ mem'.phase # "Succeeded"
      BY <3>2, <3>3 DEF WorkInv
    <3>5. agg'.sc \in FeatureSC(cached, cacheSpec)' /\ agg'.size = LargestSize(cached, cacheSpec)'
      BY <3>1, <3>2 DEF FeatureSC, Declared, LargestSize
    <3>. QED  BY <3>2, <3>4, <3>5 DEF WorkInv, WrittenSteps
  <2>. QED  BY <2>1, <2>2
<1>11. CASE OpLargest
  <2>1. pc = "opLargest" /\ pc' = "opWrite" /\ UNCHANGED <<role, status, mem, cached, cacheSpec, agg>>
        /\ largest' = LargestSize(cached, cacheSpec)
    BY <1>11 DEF OpLargest, Goto, cacheVars
  <2>. QED
    BY <2>1 DEF WorkInv, BeforeWrite, WrittenSteps, FeatureSC, Declared, LargestSize
<1>12. CASE OpWrite
  <2>1. CASE Fail(mem, 0)
    BY <2>1, <1>f, WrittenStatuses
  <2>2. CASE ~Fail(mem, 0)
    <3>1. Goto(AfterWrite) /\ UNCHANGED <<status, notify, mem, retErr>>
      BY <1>12, <2>2, WriteEffect
    <3>2. PICK new \in Updated : opcon'.exists = new.exists /\ opcon'.sc = new.sc /\ opcon'.size = new.size
      BY <1>12, <2>2, WriteEffect
    <3>3. /\ agg.sc \in FeatureSC(cached, cacheSpec) /\ agg.size = LargestSize(cached, cacheSpec)
          /\ largest = LargestSize(cached, cacheSpec)
      BY <1>12 DEF WorkInv, OpWrite
    <3>4. /\ opcon'.exists /\ opcon'.sc \in FeatureSC(cached, cacheSpec)
          /\ opcon'.size = LargestSize(cached, cacheSpec)
      BY <3>2, <3>3, UpdatedMatches
    <3>5. pc' = "certs" /\ UNCHANGED <<role, cached, cacheSpec>>
      BY <3>1 DEF Goto, AfterWrite, cacheVars
    <3>6. Matches(cached, cacheSpec)'
      BY <3>4, <3>5 DEF Matches, FeatureSC, Declared, LargestSize
    <3>. QED  BY <3>5, <3>6 DEF WorkInv, BeforeWrite, WrittenSteps, InitSteps
  <2>. QED  BY <2>1, <2>2
<1>13. CASE Certs \/ UpdateResourceLabel \/ UpdateManageCertRotationLabel
  BY <1>13, MasterAfter DEF Certs, UpdateResourceLabel, UpdateManageCertRotationLabel, Call, Goto,
     WrittenSteps, cacheVars
<1>14. CASE updateOperatorConfig \/ CreateUpdateConfig \/ PropagateDefaultCR \/ CheckSubOperatorStatus
  BY <1>14, MasterAfter DEF updateOperatorConfig, CreateUpdateConfig, PropagateDefaultCR,
     CheckSubOperatorStatus, Call, Goto, WrittenSteps, cacheVars
<1>15. CASE Succeed
  <2>1. PICK m \in CommonServiceStatus : PutStatus(m, "subStatus") /\ pc = "succeed"
    BY <1>15, WrittenStatuses DEF Succeed
  <2>2. CASE CanWrite
    <3>1. pc' = "subStatus" /\ UNCHANGED <<role, opcon, cached, cacheSpec>>
      BY <2>1, <2>2 DEF PutStatus, Goto, cacheVars
    <3>. QED  BY <2>1, <3>1, MasterAfter DEF WrittenSteps
  <2>3. CASE ~CanWrite
    BY <2>1, <2>3, <1>f DEF PutStatus
  <2>. QED  BY <2>2, <2>3
<1>16. CASE Defer
  <2>1. pc = "defer" /\ pc' = "idle" /\ ~retErr /\ role' = "general"
        /\ UNCHANGED <<opcon, cached, cacheSpec>>
    BY <1>0, <1>16 DEF Defer, Finish, Idle, cacheVars
  <2>2. ~Unsure
    BY <2>1 DEF Unsure
  <2>3. status'[Master].phase = "Succeeded" => Matches(cached, cacheSpec)
    <3>1. status'[Master] = status[Master] \/ status'[Master].phase = mem.phase
      BY <1>0, <1>16, DeferWrites, WriteFrame DEF KeepStatus
    <3>. QED  BY <2>1, <2>2, <3>1 DEF WorkInv
  <2>. QED  BY <2>1, <2>3 DEF WorkInv, Matches, FeatureSC, Declared, LargestSize
<1>17. CASE GeneralStep
  <2>1. role = "general"
    <3>1. pc \in {"gPhase", "getOpcon", "ready", "pause"}
      BY <1>17 DEF GeneralStep, GeneralPhase, GetOpcon, SetReady, Pause, Call
    <3>. QED  BY <3>1, GeneralRole DEF MasterSteps, GeneralSteps, DeleteSteps
  <2>. QED  BY <2>1
<1>. QED
  BY <1>1, <1>2, <1>3, <1>4, <1>5, <1>6, <1>7, <1>8, <1>9, <1>10, <1>11, <1>12, <1>13, <1>14, <1>15,
     <1>16, <1>17 DEF WorkerStep, MasterStep, MasterCalls, SharedStep, GeneralCalls

\* The worker at rest keeps what it had, if the master's phase is as it was.
LEMMA RestConverges ==
    ASSUME WorkInv, ~Unsure, Idle, UNCHANGED <<opcon, cached, cacheSpec>>,
           status'[Master].phase = "Succeeded" => status[Master].phase = "Succeeded"
    PROVE  WorkInv'
<1>1. pc' = "idle" /\ role' = "general"
  BY DEF Idle
<1>. QED  BY <1>1 DEF WorkInv, Matches

\* handleDelete, every step.
LEMMA DeleteConverges ==
    ASSUME TypeOK, WorkInv, role = "delete", WorkerStep \/ Fault
    PROVE  WorkInv'
<1>0. pc \in DeleteSteps /\ ~Unsure
  BY DEF TypeOK, DeleteSteps, Unsure
<1>f. ASSUME NEW m \in CommonServiceStatus, NEW cost \in Nat, Fail(m, cost)
      PROVE  WorkInv'
  <2>1. PICK wrote \in BOOLEAN : FailWith(m, cost, wrote)
    BY <1>f DEF Fail
  <2>2. MarksFailed(role) = {}
    BY DEF MarksFailed
  <2>3. Idle /\ UNCHANGED <<opcon, cached, cacheSpec, status>>
    BY <2>1, <2>2 DEF FailWith, Finish, KeepStatus, cacheVars
  <2>. QED  BY <1>0, <2>3, RestConverges
<1>1. CASE Fault
  <2>1. PICK m \in CommonServiceStatus : Fail(m, 1)
    BY <1>1, WrittenStatuses DEF Fault
  <2>. QED  BY <2>1, <1>f
<1>2. CASE OpRead
  <2>1. CASE ~opcon.exists
    BY <1>2, <2>1, <1>f, WrittenStatuses DEF OpRead
  <2>2. CASE opcon.exists
    <3>1. pc' = "opLargest" /\ UNCHANGED <<role, status, opcon, cached, cacheSpec>>
      BY <1>2, <2>2 DEF OpRead, Goto, cacheVars
    <3>. QED  BY <1>0, <3>1 DEF WorkInv, Matches
  <2>. QED  BY <2>1, <2>2
<1>3. CASE OpLargest
  <2>1. pc' = "opWrite" /\ UNCHANGED <<role, status, opcon, cached, cacheSpec>>
        /\ largest' = LargestSize(cached, cacheSpec)
    BY <1>3 DEF OpLargest, Goto, cacheVars
  <2>. QED  BY <1>0, <2>1 DEF WorkInv, Matches, LargestSize
<1>4. CASE OpWrite
  <2>1. CASE Fail(mem, 0)
    BY <2>1, <1>f, WrittenStatuses
  <2>2. CASE ~Fail(mem, 0)
    <3>1. Goto(AfterWrite) /\ UNCHANGED <<status, notify, mem, retErr>>
      BY <1>4, <2>2, WriteEffect
    <3>2. PICK new \in Shrunk : opcon'.exists = new.exists /\ opcon'.sc = new.sc /\ opcon'.size = new.size
      BY <1>4, <2>2, WriteEffect
    <3>3. pc' = "certs" /\ UNCHANGED <<role, cached, cacheSpec>>
      BY <3>1 DEF Goto, AfterWrite, cacheVars
    <3>4. ASSUME status[Master].phase = "Succeeded"
          PROVE  Matches(cached, cacheSpec)'
      <4>1. Matches(cached, cacheSpec) /\ largest = LargestSize(cached, cacheSpec)
        BY <1>0, <1>4, <3>4 DEF WorkInv, OpWrite
      <4>2. /\ opcon'.exists /\ opcon'.sc \in FeatureSC(cached, cacheSpec)
            /\ opcon'.size = LargestSize(cached, cacheSpec)
        BY <3>2, <4>1, ShrunkMatches
      <4>. QED  BY <3>3, <4>2 DEF Matches, FeatureSC, Declared, LargestSize
    <3>. QED  BY <3>1, <3>3, <3>4 DEF WorkInv
  <2>. QED  BY <2>1, <2>2
<1>5. CASE Certs
  <2>1. Idle /\ UNCHANGED <<opcon, cached, cacheSpec, status>>
    BY <1>5 DEF Certs, Finish, apiVars, cacheVars
  <2>. QED  BY <1>0, <2>1, RestConverges
<1>6. CASE MasterStep
  BY <1>0, <1>6 DEF MasterStep, Patch, MasterPhase, CheckClusterType, ClusterWrong, Build, InitResources,
     SetPending, InstallOrUpdateOpcon, Subscribe, WaitPoll, WaitDone, MasterCalls, CsMaps,
     updateOperatorConfig, CreateUpdateConfig, PropagateDefaultCR, CheckSubOperatorStatus, Defer, Call,
     DeleteSteps
<1>7. CASE GeneralCalls \/ Succeed \/ GeneralStep
  BY <1>0, <1>7 DEF GeneralCalls, ExtractCommonServiceConfigs, UpdateResourceLabel,
     UpdateManageCertRotationLabel, Succeed, GeneralStep, GeneralPhase, GetOpcon, SetReady, Pause, Call,
     DeleteSteps
<1>. QED
  BY <1>1, <1>2, <1>3, <1>4, <1>5, <1>6, <1>7 DEF WorkerStep, SharedStep

\* The beginning of a general CR's flow.
LEMMA GeneralConverges ==
    ASSUME TypeOK, RoleInv, WorkInv, role = "general", pc \in {"gPhase", "pause"},
           WorkerStep \/ Fault, ~MasterDue'
    PROVE  WorkInv'
<1>0. opcon' = opcon /\ UNCHANGED <<cached, cacheSpec>>
  BY GeneralStart, WorkerFrame DEF Frame
<1>1. CASE cur = Master
  <2>1. Idle /\ \E m \in CommonServiceStatus : WriteStatus(m) /\ m.phase = "Pending"
    BY <1>1, GeneralStart DEF MasterDue, Due, RoleInv
  <2>2. status'[Master].phase = "Pending"
    BY <1>1, <2>1, WriteFrame
  <2>3. pc' = "idle" /\ role' = "general"
    BY <2>1 DEF Idle
  <2>. QED  BY <2>2, <2>3 DEF WorkInv
<1>2. CASE cur # Master
  <2>1. ~\E m \in CommonServiceStatus : WriteStatus(m)
    BY <1>2, WriteFrame DEF MasterDue, TypeOK
  <2>2. Idle /\ KeepStatus
    BY <2>1, GeneralStart
  <2>3. ~Unsure /\ status' = status
    BY <1>2, <2>2 DEF Unsure, KeepStatus
  <2>. QED  BY <1>0, <2>2, <2>3, RestConverges
<1>. QED  BY <1>1, <1>2

-----------------------------------------------------------------------------
(***************************************************************************)
(* The OperandConfig of an operator at rest                                *)
(***************************************************************************)

\* Every step keeps what is known of the OperandConfig.
LEMMA NextConverged ==
    ASSUME TypeOK, RoleInv, CacheInv, GeneralInv, ConvergedInv, [Next]_vars
    PROVE  ConvergedInv'
<1>. SUFFICES ASSUME Master \in live', ~MasterDue'
              PROVE  WorkInv'
  BY DEF ConvergedInv
<1>1. CASE \E c \in CRs : TouchStep(c) \/ Deliver(c)
  BY <1>1, EventIsForMaster
<1>2. CASE Restart
  BY <1>2, RestartDue DEF MasterDue
<1>3. CASE OtherStep
  <2>1. Master \in live /\ ~MasterDue
    BY <1>3 DEF OtherStep, MasterDue, Due
  <2>. QED
    BY <1>3, <2>1 DEF OtherStep, ConvergedInv, WorkInv, Matches, Unsure
<1>4. ASSUME NEW c \in CRs, Reconcile(c)
      PROVE  WorkInv'
  <2>0. UNCHANGED <<live, status, notify, opcon, cached, cacheSpec>> /\ pc = "idle" /\ cur' = c
    BY <1>4 DEF Reconcile, apiVars, cacheVars
  <2>1. CASE c = Master
    <3>1. pc' \in {"pause", "patch"}
      BY <1>4, <2>0, <2>1 DEF Reconcile
    <3>. QED  BY <2>0, <2>1, <3>1 DEF WorkInv, Unsure, BeforeWrite, WrittenSteps, InitSteps
  <2>2. CASE c # Master
    <3>1. Master \in live /\ ~MasterDue
      BY <1>4, <2>0, <2>2 DEF Reconcile, MasterDue, Due
    <3>2. role' # "master" /\ pc' \in {"opRead", "pause", "gPhase"}
      BY <1>4, <2>2 DEF Reconcile
    <3>3. status[Master].phase = "Succeeded" => Matches(cached, cacheSpec)
      BY <2>0, <3>1 DEF ConvergedInv, WorkInv, Unsure
    <3>. QED  BY <2>0, <3>2, <3>3 DEF WorkInv, Matches
  <2>. QED  BY <2>1, <2>2
<1>5. CASE WorkerStep \/ Fault
  <2>1. Master \in live /\ ~MasterDue /\ pc # "idle"
    BY <1>5, WorkerFrame, WorkerKeepsMasterDue DEF Frame
  <2>2. WorkInv
    BY <2>1 DEF ConvergedInv
  <2>3. CASE role = "master"
    BY <1>5, <2>2, <2>3, MasterConverges DEF MasterDue, Due
  <2>4. CASE role = "delete"
    BY <1>5, <2>2, <2>4, DeleteConverges
  <2>5. CASE role = "general"
    <3>1. pc \in {"gPhase", "pause"}
      BY <2>1, <2>5 DEF GeneralInv
    <3>. QED  BY <1>5, <2>2, <2>5, <3>1, GeneralConverges
  <2>. QED  BY <2>3, <2>4, <2>5 DEF TypeOK
<1>. QED  BY <1>1, <1>2, <1>3, <1>4, <1>5, StepKinds

\* Whatever edits, deletions, conflicts, errors and restarts came before: when the
\* operator rests and the master reports Succeeded, the OperandConfig asks for
\* what the CRs on the server ask for, although every update lists the CRs three
\* times from a cache that may change in between.
THEOREM OperandConfigConverges == Spec => []QuiescentConverged
<1>. DEFINE Inv == RoleInv /\ CacheInv /\ GeneralInv /\ ConvergedInv
<1>1. Init => Inv
  <2>. SUFFICES ASSUME Init PROVE Inv
    OBVIOUS
  <2>1. RoleInv /\ GeneralInv
    BY DEF Init, RoleInv, GeneralInv
  <2>2. CacheInv
    BY MasterAssumption DEF Init, CacheInv
  <2>3. MasterDue
    BY DEF Init, MasterDue, Due
  <2>. QED  BY <2>1, <2>2, <2>3 DEF ConvergedInv
<1>2. TypeOK /\ Inv /\ [Next]_vars => Inv'
  BY NextRole, NextCache, NextGeneral, NextConverged
<1>3. TypeOK /\ Inv => QuiescentConverged
  <2>. SUFFICES ASSUME TypeOK, Inv, Quiet, Master \in live, status[Master].phase = "Succeeded"
                PROVE  Matches(live, spec)
    BY DEF QuiescentConverged
  <2>1. ~MasterDue
    BY MasterAssumption DEF Quiet, MasterDue, Due
  <2>2. Matches(cached, cacheSpec)
    BY <2>1 DEF ConvergedInv, WorkInv, Unsure, Quiet
  <2>3. cached = live /\ cacheSpec = spec
    <3>1. \A c \in CRs : (c \in cached <=> c \in live) /\ cacheSpec[c] = spec[c]
      BY DEF CacheInv, Quiet
    <3>. QED  BY <3>1 DEF TypeOK
  <2>. QED  BY <2>2, <2>3
<1>. QED  BY <1>1, <1>2, <1>3, TypeCorrect, PTL DEF Spec

-----------------------------------------------------------------------------
(***************************************************************************)
(* The OperandConfig when it is created                                    *)
(***************************************************************************)

\* The CRs that have not changed since the reconcile began are in the cache as
\* they are, and the aggregate takes them into account.
AggregateInv ==
    /\ settled \subseteq live
    /\ \A c \in settled : c \in cached /\ cacheSpec[c] = spec[c]
    /\ pc \in InitSteps =>
         \A c \in settled : /\ agg.size >= spec[c].size
                            /\ spec[c].sc # NoSC => agg.sc # NoSC

\* The aggregate of the cached CRs takes every one of them into account.
LEMMA AggregateCovers ==
    ASSUME TypeOK, NEW sc \in FeatureSC(cached, cacheSpec), NEW c \in cached
    PROVE  /\ LargestSize(cached, cacheSpec) >= cacheSpec[c].size
           /\ cacheSpec[c].sc # NoSC => sc # NoSC
<1>. DEFINE T == {cacheSpec[d].size : d \in cached} \union {0}
<1>1. T \subseteq Sizes /\ cacheSpec[c].size \in T
  BY SizeAssumption DEF TypeOK, CRSpec, Sizes
<1>2. Max(T) >= cacheSpec[c].size
  <2>. HIDE DEF T
  <2>. QED  BY <1>1, MaxOfSizes
<1>3. cacheSpec[c].sc # NoSC => sc # NoSC
  BY DEF FeatureSC, Declared
<1>. QED  BY <1>2, <1>3 DEF LargestSize

\* Before the OperandConfig is read again, only Build makes a new aggregate.
LEMMA WorkerAggregate ==
    ASSUME TypeOK, WorkerStep \/ Fault
    PROVE  \/ Build
           \/ settled' = {}
           \/ /\ settled' = settled
              /\ pc' \in InitSteps => pc \in InitSteps /\ agg' = agg
<1>f. ASSUME NEW m \in CommonServiceStatus, NEW cost \in Nat, Fail(m, cost)
      PROVE  settled' = {} \/ (settled' = settled /\ pc' \notin InitSteps)
  <2>1. PICK wrote \in BOOLEAN : FailWith(m, cost, wrote)
    BY <1>f DEF Fail
  <2>. QED  BY <2>1 DEF FailWith, Finish, Idle, InitSteps
<1>1. CASE Fault
  <2>1. PICK m \in CommonServiceStatus : Fail(m, 1)
    BY <1>1, WrittenStatuses DEF Fault
  <2>. QED  BY <2>1, <1>f
<1>2. CASE Patch \/ ClusterWrong \/ OpRead \/ GetOpcon \/ OpWrite
  <2>1. Fail(mem, 0) \/ ~Fail(mem, 0)
    OBVIOUS
  <2>2. CASE Fail(mem, 0)
    BY <2>2, <1>f, WrittenStatuses
  <2>3. CASE ~Fail(mem, 0) /\ ~OpWrite
    BY <1>2, <2>3 DEF Patch, ClusterWrong, OpRead, GetOpcon, Call, Goto, InitSteps
  <2>4. CASE ~Fail(mem, 0) /\ OpWrite
    <3>1. Goto(AfterWrite) /\ settled' = settled
      BY <2>4, Zenon DEF OpWrite
    <3>. QED  BY <3>1 DEF Goto, AfterWrite, InitSteps
  <2>. QED  BY <2>2, <2>3, <2>4
<1>3. CASE MasterPhase \/ SetPending \/ GeneralPhase \/ SetReady \/ Succeed \/ Pause
  <2>1. \E m \in CommonServiceStatus :
          \/ \E t \in MasterSteps \union GeneralSteps :
                PutStatus(m, t) /\ (t \in InitSteps => pc \in InitSteps)
          \/ PutLast(m)
    BY <1>3, WrittenStatuses DEF MasterPhase, SetPending, GeneralPhase, SetReady, Succeed, Pause,
       MasterSteps, GeneralSteps, InitSteps
  <2>2. ASSUME NEW m \in CommonServiceStatus, NEW t, PutStatus(m, t), t \in InitSteps => pc \in InitSteps
        PROVE  \/ settled' = {}
               \/ settled' = settled /\ (pc' \in InitSteps => pc \in InitSteps /\ agg' = agg)
    <3>1. CASE CanWrite
      BY <2>2, <3>1 DEF PutStatus, Goto, workVars
    <3>2. CASE ~CanWrite
      BY <2>2, <3>2, <1>f DEF PutStatus
    <3>. QED  BY <3>1, <3>2
  <2>3. ASSUME NEW m \in CommonServiceStatus, PutLast(m)
        PROVE  settled' = {} \/ (settled' = settled /\ pc' \notin InitSteps)
    <3>1. CASE CanWrite
      BY <2>3, <3>1 DEF PutLast, Finish, Idle
    <3>2. CASE ~CanWrite
      BY <2>3, <3>2, <1>f DEF PutLast
    <3>. QED  BY <3>1, <3>2
  <2>. QED  BY <2>1, <2>2, <2>3
<1>4. CASE CheckClusterType \/ WaitDone \/ MasterCalls \/ GeneralCalls
  BY <1>4 DEF CheckClusterType, WaitDone, MasterCalls, CsMaps, updateOperatorConfig, CreateUpdateConfig,
     PropagateDefaultCR, CheckSubOperatorStatus, GeneralCalls, ExtractCommonServiceConfigs,
     UpdateResourceLabel, UpdateManageCertRotationLabel, Call, Goto, InitSteps, workVars
<1>5. CASE InitResources \/ InstallOrUpdateOpcon \/ Subscribe \/ WaitPoll \/ OpLargest
  BY <1>5 DEF InitResources, InstallOrUpdateOpcon, Subscribe, WaitPoll, OpLargest, Goto, InitSteps, workVars
<1>6. CASE Defer
  BY <1>6 DEF Defer, Finish, Idle
<1>7. CASE Certs
  BY <1>7 DEF Certs, Call, Goto, Finish, Idle, InitSteps
<1>. QED
  BY <1>1, <1>2, <1>3, <1>4, <1>5, <1>6, <1>7 DEF WorkerStep, MasterStep, SharedStep, GeneralStep

\* Every step keeps the aggregate complete.
LEMMA NextAggregate ==
    ASSUME TypeOK, CacheInv, AggregateInv, [Next]_vars
    PROVE  AggregateInv'
<1>1. ASSUME NEW d \in CRs, TouchStep(d)
      PROVE  AggregateInv'
  BY <1>1 DEF TouchStep, AggregateInv, TypeOK
<1>2. ASSUME NEW d \in CRs, Deliver(d)
      PROVE  AggregateInv'
  BY <1>2 DEF Deliver, AggregateInv, TypeOK, apiVars, workVars
<1>3. ASSUME NEW d \in CRs, Reconcile(d)
      PROVE  AggregateInv'
  <2>1. pc' \notin InitSteps
    BY <1>3 DEF Reconcile, InitSteps
  <2>2. settled' = {c \in live : notify[c] # "spec"} /\ UNCHANGED <<live, spec, cached, cacheSpec>>
    BY <1>3 DEF Reconcile, apiVars, cacheVars
  <2>. QED  BY <2>1, <2>2 DEF AggregateInv, CacheInv, TypeOK
<1>4. CASE Restart
  BY <1>4 DEF Restart, Idle, AggregateInv
<1>5. CASE WorkerStep \/ Fault
  <2>1. UNCHANGED <<live, spec, cached, cacheSpec>>
    BY <1>5, WorkerFrame DEF Frame
  <2>2. CASE Build
    <3>1. settled' = settled
      BY <2>2 DEF Build
    <3>2. PICK sc \in FeatureSC(cached, cacheSpec) :
            agg' = [sc |-> sc, size |-> LargestSize(cached, cacheSpec)]
      BY <2>2 DEF Build
    <3>3. \A c \in settled : agg'.size >= spec[c].size /\ (spec[c].sc # NoSC => agg'.sc # NoSC)
      BY <3>2, AggregateCovers DEF AggregateInv
    <3>. QED  BY <2>1, <3>1, <3>3 DEF AggregateInv
  <2>3. CASE settled' = {}
    BY <2>3 DEF AggregateInv
  <2>4. CASE settled' = settled /\ (pc' \in InitSteps => pc \in InitSteps /\ agg' = agg)
    BY <2>1, <2>4 DEF AggregateInv
  <2>. QED  BY <1>5, <2>2, <2>3, <2>4, WorkerAggregate
<1>6. CASE OtherStep
  BY <1>6 DEF OtherStep, AggregateInv
<1>. QED  BY <1>1, <1>2, <1>3, <1>4, <1>5, <1>6, StepKinds

\* Only InstallOrUpdateOpcon creates the OperandConfig.
LEMMA CreatedByInstall ==
    ASSUME TypeOK, InstalledInv, [Next]_vars, ~opcon.exists, opcon'.exists
    PROVE  InstallOrUpdateOpcon
<1>. SUFFICES ASSUME ~InstallOrUpdateOpcon PROVE FALSE
  OBVIOUS
<1>1. CASE \E c \in CRs : TouchStep(c) \/ Deliver(c) \/ Reconcile(c)
  BY <1>1 DEF TouchStep, Deliver, Reconcile
<1>2. CASE Restart \/ OtherStep
  BY <1>2 DEF Restart, OtherStep
<1>3. CASE WorkerStep \/ Fault
  <2>1. ~OpWrite
    BY DEF OpWrite, InstalledInv, AfterInstall
  <2>2. opcon' = opcon
    BY <1>3, <2>1 DEF WorkerStep, MasterStep, SharedStep, GeneralStep, Patch, MasterPhase,
       CheckClusterType, ClusterWrong, Build, InitResources, SetPending, Subscribe, WaitPoll, WaitDone,
       MasterCalls, CsMaps, updateOperatorConfig, CreateUpdateConfig, PropagateDefaultCR,
       CheckSubOperatorStatus, Defer, OpRead, OpLargest, Certs, GeneralCalls,
       ExtractCommonServiceConfigs, UpdateResourceLabel, UpdateManageCertRotationLabel, Succeed,
       GeneralPhase, GetOpcon, SetReady, Pause, Fault, Call, PutStatus, PutLast, Fail, FailWith
  <2>. QED  BY <2>2
<1>. QED  BY <1>1, <1>2, <1>3, StepKinds

\* The OperandConfig is complete when it is created: it takes into account every
\* CR that was there when the reconcile began and has not changed since.
THEOREM OperandConfigIsCreatedComplete == Spec => CreatedComplete
<1>. DEFINE Inv == CacheInv /\ AggregateInv
<1>1. Init => Inv
  BY MasterAssumption DEF Init, CacheInv, AggregateInv
<1>2. TypeOK /\ Inv /\ [Next]_vars => Inv'
  BY NextCache, NextAggregate
<1>3. TypeOK /\ Inv /\ InstalledInv /\ [Next]_vars
        => [~opcon.exists /\ opcon'.exists =>
              \A c \in settled : /\ opcon'.size >= spec[c].size
                                 /\ spec[c].sc # NoSC => opcon'.sc # NoSC]_vars
  <2>. SUFFICES ASSUME TypeOK, Inv, InstalledInv, [Next]_vars, ~opcon.exists, opcon'.exists,
                       NEW c \in settled
                PROVE  opcon'.size >= spec[c].size /\ (spec[c].sc # NoSC => opcon'.sc # NoSC)
    OBVIOUS
  <2>1. InstallOrUpdateOpcon
    BY CreatedByInstall
  <2>2. pc \in InitSteps /\ opcon'.sc = agg.sc /\ opcon'.size = agg.size
    BY <2>1 DEF InstallOrUpdateOpcon, Merged, InitSteps
  <2>. QED  BY <2>2 DEF AggregateInv
<1>. QED  BY <1>1, <1>2, <1>3, TypeCorrect, InstalledThroughout, PTL DEF Spec, CreatedComplete
=============================================================================
