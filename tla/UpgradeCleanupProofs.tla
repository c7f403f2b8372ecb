------------------------ MODULE UpgradeCleanupProofs ------------------------
(***************************************************************************)
(* Theorems about UpgradeCleanup, for any set of NamespaceScope CRs, no-op *)
(* operators and installations and any bounds: its types, that the         *)
(* namespace-scope ConfigMap survives, and that no CSV is orphaned.        *)
(***************************************************************************)
EXTENDS UpgradeCleanup, TLAPS

-----------------------------------------------------------------------------
(***************************************************************************)
(* Type correctness                                                        *)
(***************************************************************************)

\* Whatever an access review or a lookup guards is one of the leftovers.
LEMMA CheckedAreLeftovers ==
    Gated \subseteq Leftovers /\ ToSet(Hooks) \subseteq Leftovers
<1>1. /\ Hooks[1] = "validating-webhook" /\ Hooks[2] = "mutating-webhook"
      /\ 1 \in DOMAIN Hooks /\ 2 \in DOMAIN Hooks
  BY DEF Hooks
<1>2. /\ Webhook[5] = "wh-ClusterRole" /\ Webhook[6] = "wh-ClusterRoleBinding"
      /\ 5 \in DOMAIN Webhook /\ 6 \in DOMAIN Webhook
  BY DEF Webhook
<1>3. /\ SecretShare[2] = "ss-ClusterRole" /\ SecretShare[3] = "ss-ClusterRoleBinding"
      /\ 2 \in DOMAIN SecretShare /\ 3 \in DOMAIN SecretShare
  BY DEF SecretShare
<1>. QED  BY <1>1, <1>2, <1>3 DEF Gated, Leftovers, ToSet

\* The installation to clean up is well typed.
LEMMA InitType == Init => TypeOK
<1>. SUFFICES ASSUME Init PROVE TypeOK
  OBVIOUS
<1>. USE DEF Init
<1>1. /\ simple \in BOOLEAN /\ apart \in BOOLEAN /\ allowed \in BOOLEAN /\ kinds \in BOOLEAN
  BY SettingsAssumption
<1>2. /\ left \subseteq Leftovers /\ sub \in [Ops -> {Absent, "v3", "v4"}]
      /\ nssCm \in [owned : BOOLEAN] \cup {Absent}
  OBVIOUS
<1>3. installed \in [Ops -> 0 .. MaxCSVs] /\ csv \in [Ops -> SUBSET (1 .. MaxCSVs)]
  BY BoundsAssumption
<1>4. nss \in [NssCRs -> {"present", "deleting", "gone"}]
  OBVIOUS
<1>5. registry \in Releases \cup {Absent} /\ crd \in BOOLEAN /\ noops \subseteq NoopOps
  BY DEF Releases
<1>6. held \in 0 .. MaxCSVs /\ faults \in 0 .. MaxFaults
  BY BoundsAssumption
<1>. QED  BY <1>1, <1>2, <1>3, <1>4, <1>5, <1>6 DEF TypeOK

\* A failing call or a killed process counts as one fault.
LEMMA FaultsType ==
    ASSUME TypeOK, faults < MaxFaults, faults' = faults + 1
    PROVE  faults' \in 0 .. MaxFaults
BY BoundsAssumption DEF TypeOK

\* A pass that ended starts from well-typed values.
LEMMA AgainType ==
    ASSUME TypeOK, Exit \/ Abort, faults' \in 0 .. MaxFaults,
           UNCHANGED <<setting, left, olm, scope, odlm>>
    PROVE  TypeOK'
<1>1. /\ pc' \in {"hooks", "idle"} /\ due' \in BOOLEAN
      /\ target' = Absent /\ held' = 0 /\ skipped' = {} /\ swallowed' = swallowed
  BY DEF Exit, Abort
<1>2. 0 \in 0 .. MaxCSVs
  BY BoundsAssumption
<1>. QED  BY <1>1, <1>2 DEF TypeOK, setting, olm, scope, odlm

\* Deleting the next object of a list keeps the types.
LEMMA DeleteFromType ==
    ASSUME TypeOK, NEW list, NEW next \in {"webhook", "secretshare", "odlm"},
           pc \in {"configs", "webhook", "secretshare"}, DeleteFrom(list, next)
    PROVE  TypeOK'
<1>1. left' \subseteq Leftovers /\ (pc' = pc \/ pc' = next)
  BY DEF DeleteFrom, Goto, TypeOK
<1>2. UNCHANGED <<setting, sub, installed, csv, raced, odlm, faults, scope, call, due, swallowed>>
  BY DEF DeleteFrom, Goto
<1>. QED  BY <1>1, <1>2 DEF TypeOK, setting, odlm, scope, call

\* Every step of a pass that works keeps the types.
LEMMA StepType ==
    ASSUME TypeOK, Step
    PROVE  TypeOK'
<1>. USE AbsentAssumption DEF Goto, setting, olm, odlm, scope, call
<1>1. CASE CleanupWebhookResources
  BY <1>1 DEF CleanupWebhookResources, TypeOK
<1>2. CASE Begin
  BY <1>2 DEF Begin, TypeOK
<1>3. CASE CheckTopology
  BY <1>3 DEF CheckTopology, TypeOK
<1>4. CASE CheckRegistry
  BY <1>4 DEF CheckRegistry, TypeOK
<1>5. CASE CheckChannel
  BY <1>5 DEF CheckChannel, TypeOK, Ops
<1>6. CASE FindSubscription
  BY <1>6 DEF FindSubscription, Resume, TypeOK
<1>7. CASE DeleteOperator
  <2>1. CASE pc = "csv"
    <3>1. csv' \in [Ops -> SUBSET (1 .. MaxCSVs)] /\ pc' = "subscription"
      BY <1>7, <2>1 DEF DeleteOperator, TypeOK
    <3>. QED  BY <1>7, <2>1, <3>1 DEF DeleteOperator, TypeOK
  <2>2. CASE pc = "subscription"
    <3>1. /\ sub' \in [Ops -> {Absent, "v3", "v4"}] /\ installed' \in [Ops -> 0 .. MaxCSVs]
          /\ held' \in 0 .. MaxCSVs
      BY <1>7, <2>2, BoundsAssumption DEF DeleteOperator, TypeOK
    <3>. QED  BY <1>7, <2>2, <3>1 DEF DeleteOperator, Resume, TypeOK
  <2>. QED  BY <1>7, <2>1, <2>2 DEF DeleteOperator
<1>8. CASE RemoveOwner
  BY <1>8 DEF RemoveOwner, TypeOK
<1>9. CASE DeleteNssCRs({})
  BY <1>9 DEF DeleteNssCRs, TypeOK
<1>10. CASE WaitForNssCRs
  <2>1. nss' \in [NssCRs -> {"present", "deleting", "gone"}]
    BY <1>10 DEF WaitForNssCRs, TypeOK
  <2>2. nssCm' \in [owned : BOOLEAN] \cup {Absent}
    BY <1>10 DEF WaitForNssCRs, Collect, TypeOK
  <2>. QED  BY <1>10, <2>1, <2>2 DEF WaitForNssCRs, TypeOK
<1>11. CASE CreateNsScopeConfigmap
  BY <1>11 DEF CreateNsScopeConfigmap, TypeOK
<1>12. CASE DeleteV3Resources
  BY <1>12, DeleteFromType DEF DeleteV3Resources
<1>13. CASE UninstallODLM
  BY <1>13 DEF UninstallODLM, TypeOK, Ops
<1>14. CASE InstallOpreg
  BY <1>14 DEF InstallOpreg, TypeOK, Releases
<1>. QED
  BY <1>1, <1>2, <1>3, <1>4, <1>5, <1>6, <1>7, <1>8, <1>9, <1>10, <1>11, <1>12, <1>13, <1>14
     DEF Step

\* Failures, restarts and the other operators keep the types.
LEMMA NextType ==
    ASSUME TypeOK, [Next]_vars
    PROVE  TypeOK'
<1>. USE AbsentAssumption DEF setting, olm, odlm, scope, call
<1>1. CASE Step
  BY <1>1, StepType
<1>2. ASSUME NEW missed \in SUBSET NssCRs, DeleteNssCRs(missed)
      PROVE  TypeOK'
  <2>1. nss' \in [NssCRs -> {"present", "deleting", "gone"}]
    BY <1>2 DEF DeleteNssCRs, TypeOK
  <2>2. faults' \in 0 .. MaxFaults
    BY <1>2, BoundsAssumption DEF DeleteNssCRs, TypeOK
  <2>. QED  BY <1>2, <2>1, <2>2 DEF DeleteNssCRs, TypeOK
<1>3. CASE Fail
  <2>1. faults' \in 0 .. MaxFaults
    BY <1>3, FaultsType DEF Fail
  <2>2. CASE pc = "hooks"
    BY <1>3, <2>1, <2>2, AgainType DEF Fail
  <2>3. CASE pc \in {"webhook", "secretshare"}
    BY <1>3, <2>1, <2>3 DEF Fail, TypeOK
  <2>4. CASE pc \notin {"hooks", "webhook", "secretshare"}
    <3>1. pc # "idle" /\ Abort  BY <1>3, <2>4 DEF Fail
    <3>. QED  BY <1>3, <2>1, <3>1, AgainType DEF Fail
  <2>. QED  BY <2>2, <2>3, <2>4
<1>4. ASSUME NEW step, NEW list, NEW checked \in SUBSET Leftovers, Skip(step, list, checked)
      PROVE  TypeOK'
  <2>1. faults' \in 0 .. MaxFaults
    BY <1>4, FaultsType DEF Skip
  <2>2. skipped' \subseteq Leftovers
    BY <1>4 DEF Skip, TypeOK
  <2>. QED  BY <1>4, <2>1, <2>2 DEF Skip, TypeOK
<1>5. CASE CheckFails
  BY <1>4, <1>5, CheckedAreLeftovers DEF CheckFails
<1>6. CASE Kill
  <2>1. faults' \in 0 .. MaxFaults
    BY <1>6, FaultsType DEF Kill
  <2>2. UNCHANGED <<setting, left, olm, scope, odlm>> /\ Exit
    BY <1>6 DEF Kill
  <2>. QED  BY <2>1, <2>2, AgainType
<1>7. ASSUME NEW o \in Ops, Install(o)
      PROVE  TypeOK'
  <2>1. /\ csv' \in [Ops -> SUBSET (1 .. MaxCSVs)] /\ installed' \in [Ops -> 0 .. MaxCSVs]
        /\ raced' \subseteq Ops
    BY <1>7, BoundsAssumption DEF Install, TypeOK
  <2>. QED  BY <1>7, <2>1 DEF Install, TypeOK
<1>8. ASSUME NEW n \in NssCRs, Finalize(n)
      PROVE  TypeOK'
  <2>1. nss' \in [NssCRs -> {"present", "deleting", "gone"}]
    BY <1>8 DEF Finalize, TypeOK
  <2>2. nssCm' \in [owned : BOOLEAN] \cup {Absent}
    BY <1>8 DEF Finalize, Collect, TypeOK
  <2>. QED  BY <1>8, <2>1, <2>2 DEF Finalize, TypeOK
<1>9. CASE Roll
  <2>1. rolling' \in BOOLEAN /\ due' \in BOOLEAN
    BY <1>9 DEF Roll
  <2>2. UNCHANGED <<setting, left, olm, scope, registry, crd, noops, pc, call, swallowed, faults>>
    BY <1>9 DEF Roll
  <2>. QED  BY <2>1, <2>2 DEF TypeOK
<1>10. ASSUME NEW o \in NoopOps, Request(o)
       PROVE  TypeOK'
  BY <1>10 DEF Request, TypeOK
<1>11. CASE UNCHANGED vars
  BY <1>11 DEF vars, TypeOK
<1>. QED
  BY <1>1, <1>2, <1>3, <1>5, <1>6, <1>7, <1>8, <1>9, <1>10, <1>11 DEF Next

\* Every object and every step of a pass has its type, and DeleteOperator has an
\* operator to delete exactly while it runs, across failures and restarts.
THEOREM TypeCorrect == Spec => []TypeOK
BY InitType, NextType, PTL DEF Spec

-----------------------------------------------------------------------------
(***************************************************************************)
(* The namespace-scope ConfigMap                                           *)
(***************************************************************************)

\* The ConfigMap has lost its owner before the owner goes: from RemoveOwner to
\* the end of the wait, and for good once the Delete of the owner was sent, also
\* if the pass that sent it was cut short.
OwnerInv ==
    /\ nssCm # Absent
    /\ nss[Owner] # "present" \/ pc \in {"crs", "wait"} => ~nssCm.owned

\* The garbage collector spares a ConfigMap without an owner.
LEMMA CollectSpares ==
    ASSUME NEW crs, nssCm # Absent, ~nssCm.owned
    PROVE  Collect(crs) = nssCm
BY DEF Collect

\* No step touches the ConfigMap or its owner but these.
LEMMA ScopeKept ==
    ASSUME [Next]_vars,
           ~RemoveOwner, ~WaitForNssCRs, ~CreateNsScopeConfigmap,
           ~ \E missed \in SUBSET NssCRs : DeleteNssCRs(missed),
           ~ \E n \in NssCRs : Finalize(n)
    PROVE  UNCHANGED <<nssCm, nss>> /\ (pc' \in {"crs", "wait"} => pc' = pc)
<1>. USE DEF scope
<1>1. CASE Step
  <2>1. CASE CleanupWebhookResources \/ Begin \/ CheckTopology \/ CheckRegistry
    BY <2>1 DEF CleanupWebhookResources, Begin, CheckTopology, CheckRegistry, Goto
  <2>2. CASE CheckChannel \/ FindSubscription \/ DeleteOperator
    BY <2>2 DEF CheckChannel, FindSubscription, DeleteOperator, Resume, Goto
  <2>3. CASE DeleteV3Resources \/ UninstallODLM \/ InstallOpreg
    BY <2>3 DEF DeleteV3Resources, DeleteFrom, UninstallODLM, InstallOpreg, Goto
  <2>. QED  BY <1>1, <2>1, <2>2, <2>3 DEF Step
<1>2. CASE Fail \/ Kill
  BY <1>2 DEF Fail, Kill, Exit, Abort
<1>3. CASE CheckFails
  BY <1>3 DEF CheckFails, Skip
<1>4. CASE Roll \/ (\E o \in Ops : Install(o)) \/ (\E o \in NoopOps : Request(o))
  BY <1>4 DEF Roll, Install, Request
<1>5. CASE UNCHANGED vars
  BY <1>5 DEF vars
<1>. QED  BY <1>1, <1>2, <1>3, <1>4, <1>5 DEF Next

\* Every step keeps the ConfigMap without an owner where its owner may go.
LEMMA NextOwner ==
    ASSUME TypeOK, OwnerInv, [Next]_vars
    PROVE  OwnerInv'
<1>. USE OwnerAssumption, AbsentAssumption
<1>1. CASE RemoveOwner
  <2>1. [owned |-> FALSE] # Absent
    <3>1. [owned |-> FALSE] \in [owned : BOOLEAN]  OBVIOUS
    <3>. QED  BY <3>1
  <2>2. nssCm' = [owned |-> FALSE]
    BY <1>1 DEF RemoveOwner, OwnerInv
  <2>. QED  BY <2>1, <2>2 DEF OwnerInv
<1>2. CASE WaitForNssCRs
  <2>1. nssCm' = nssCm
    BY <1>2, CollectSpares DEF WaitForNssCRs, OwnerInv
  <2>. QED  BY <1>2, <2>1 DEF WaitForNssCRs, Goto, OwnerInv
<1>3. CASE CreateNsScopeConfigmap
  BY <1>3 DEF CreateNsScopeConfigmap, Goto, OwnerInv
<1>4. ASSUME NEW missed \in SUBSET NssCRs, DeleteNssCRs(missed)
      PROVE  OwnerInv'
  BY <1>4 DEF DeleteNssCRs, OwnerInv
<1>5. ASSUME NEW n \in NssCRs, Finalize(n)
      PROVE  OwnerInv'
  <2>1. CASE n = Owner
    <3>1. nssCm' = nssCm
      BY <1>5, <2>1, CollectSpares DEF Finalize, OwnerInv
    <3>. QED  BY <1>5, <2>1, <3>1 DEF Finalize, OwnerInv
  <2>2. CASE n # Owner
    <3>1. nss'[Owner] = nss[Owner]
      BY <1>5, <2>2 DEF Finalize, TypeOK
    <3>2. nssCm' = nssCm
      BY <1>5, <3>1 DEF Finalize, Collect, OwnerInv
    <3>. QED  BY <1>5, <3>1, <3>2 DEF Finalize, OwnerInv
  <2>. QED  BY <2>1, <2>2
<1>6. CASE UNCHANGED <<nssCm, nss>> /\ (pc' \in {"crs", "wait"} => pc' = pc)
  BY <1>6 DEF OwnerInv
<1>. QED  BY <1>1, <1>2, <1>3, <1>4, <1>5, <1>6, ScopeKept

\* The namespace-scope ConfigMap is never lost with the CR that owned it,
\* wherever a pass is cut short and however the garbage collector is timed.
THEOREM ConfigMapIsKept == Spec => []ConfigMapSurvives
<1>1. Init => OwnerInv
  BY AbsentAssumption DEF Init, OwnerInv
<1>2. TypeOK /\ OwnerInv /\ [Next]_vars => OwnerInv'
  BY NextOwner
<1>3. OwnerInv => ConfigMapSurvives
  BY DEF OwnerInv, ConfigMapSurvives
<1>. QED  BY <1>1, <1>2, <1>3, TypeCorrect, PTL DEF Spec

-----------------------------------------------------------------------------
(***************************************************************************)
(* No orphaned CSV                                                         *)
(***************************************************************************)

\* A Subscription names the one CSV there is of its operator; what DeleteOperator
\* holds is that CSV, and it is gone when the Subscription is about to go, unless
\* OLM installed another one in between.
CSVInv ==
    /\ NoOrphanCSV
    /\ \A o \in Ops : sub[o] # Absent => csv[o] \subseteq {installed[o]}
    /\ pc = "csv" => csv[target] \subseteq {held} \/ target \in raced
    /\ pc = "subscription" => csv[target] = {} \/ target \in raced

\* No step touches an operator but these.
LEMMA OperatorsKept ==
    ASSUME [Next]_vars,
           ~FindSubscription, ~DeleteOperator, ~ \E o \in Ops : Install(o)
    PROVE  /\ UNCHANGED olm
           /\ pc' \in {"csv", "subscription"} => UNCHANGED <<pc, target, held>>
<1>. USE DEF olm, call
<1>1. CASE Step
  <2>1. CASE CleanupWebhookResources \/ Begin \/ CheckTopology \/ CheckRegistry \/ CheckChannel
    BY <2>1 DEF CleanupWebhookResources, Begin, CheckTopology, CheckRegistry, CheckChannel, Goto
  <2>2. CASE RemoveOwner \/ DeleteNssCRs({}) \/ WaitForNssCRs \/ CreateNsScopeConfigmap
    BY <2>2 DEF RemoveOwner, DeleteNssCRs, WaitForNssCRs, CreateNsScopeConfigmap, Goto
  <2>3. CASE DeleteV3Resources \/ UninstallODLM \/ InstallOpreg
    BY <2>3 DEF DeleteV3Resources, DeleteFrom, UninstallODLM, InstallOpreg, Goto
  <2>. QED  BY <1>1, <2>1, <2>2, <2>3 DEF Step
<1>2. CASE \E missed \in SUBSET NssCRs : DeleteNssCRs(missed)
  BY <1>2 DEF DeleteNssCRs
<1>3. CASE Fail \/ Kill
  BY <1>3 DEF Fail, Kill, Exit, Abort
<1>4. CASE CheckFails
  BY <1>4 DEF CheckFails, Skip
<1>5. CASE Roll \/ (\E n \in NssCRs : Finalize(n)) \/ (\E o \in NoopOps : Request(o))
  BY <1>5 DEF Roll, Finalize, Request
<1>6. CASE UNCHANGED vars
  BY <1>6 DEF vars
<1>. QED  BY <1>1, <1>2, <1>3, <1>4, <1>5, <1>6 DEF Next

\* Every step keeps the CSVs within reach.
LEMMA NextCSV ==
    ASSUME TypeOK, CSVInv, [Next]_vars
    PROVE  CSVInv'
<1>. USE AbsentAssumption
<1>1. CASE FindSubscription
  <2>1. target \in Ops /\ UNCHANGED <<sub, installed, csv, raced>>
    BY <1>1 DEF FindSubscription, Goto, TypeOK
  <2>2. pc' # "subscription"
    BY <1>1 DEF FindSubscription, Goto, Resume
  <2>3. pc' = "csv" => sub[target] # Absent /\ held' = installed[target] /\ target' = target
    BY <1>1 DEF FindSubscription, Goto, Resume
  <2>. QED  BY <2>1, <2>2, <2>3 DEF CSVInv, NoOrphanCSV
<1>2. CASE DeleteOperator /\ pc = "csv"
  <2>1. /\ target \in Ops /\ csv' = [csv EXCEPT ![target] = @ \ {held}]
        /\ UNCHANGED <<sub, installed, target, held, raced>> /\ pc' = "subscription"
    BY <1>2 DEF DeleteOperator, TypeOK
  <2>2. \A o \in Ops : csv'[o] \subseteq csv[o]
    BY <2>1 DEF TypeOK
  <2>3. csv'[target] = {} \/ target \in raced
    BY <1>2, <2>1 DEF TypeOK, CSVInv
  <2>4. \A o \in Ops : csv'[o] # {} => csv[o] # {}
    BY <2>2
  <2>5. NoOrphanCSV'
    BY <2>1, <2>4 DEF CSVInv, NoOrphanCSV
  <2>6. \A o \in Ops : sub[o] # Absent => csv'[o] \subseteq {installed[o]}
    BY <2>2 DEF CSVInv
  <2>. QED  BY <2>1, <2>3, <2>5, <2>6 DEF CSVInv
<1>3. CASE DeleteOperator /\ pc = "subscription"
  <2>1. /\ target \in Ops /\ sub' = [sub EXCEPT ![target] = Absent]
        /\ installed' = [installed EXCEPT ![target] = 0]
        /\ UNCHANGED <<csv, raced>> /\ pc' \notin {"csv", "subscription"}
    BY <1>3 DEF DeleteOperator, Resume, TypeOK
  <2>2. csv[target] = {} \/ target \in raced
    BY <1>3 DEF CSVInv
  <2>3. ASSUME NEW o \in Ops
        PROVE  /\ csv'[o] # {} /\ sub'[o] = Absent => o \in raced'
               /\ sub'[o] # Absent => csv'[o] \subseteq {installed'[o]}
    BY <2>1, <2>2 DEF CSVInv, NoOrphanCSV, TypeOK
  <2>. QED  BY <2>1, <2>3 DEF CSVInv, NoOrphanCSV
<1>4. ASSUME NEW o \in Ops, Install(o)
      PROVE  CSVInv'
  <2>1. /\ sub[o] # Absent /\ csv' = [csv EXCEPT ![o] = {installed[o] + 1}]
        /\ installed' = [installed EXCEPT ![o] = @ + 1]
        /\ raced \subseteq raced' /\ (target = o /\ pc \in {"csv", "subscription"} => o \in raced')
        /\ UNCHANGED <<sub, pc, target, held>>
    BY <1>4 DEF Install, call
  <2>2. ASSUME NEW p \in Ops
        PROVE  /\ csv'[p] # {} /\ sub'[p] = Absent => p \in raced'
               /\ sub'[p] # Absent => csv'[p] \subseteq {installed'[p]}
    BY <2>1 DEF CSVInv, NoOrphanCSV, TypeOK
  <2>3. ASSUME pc \in {"csv", "subscription"}, target # o
        PROVE  csv'[target] = csv[target]
    BY <2>1, <2>3 DEF TypeOK
  <2>. QED  BY <2>1, <2>2, <2>3 DEF CSVInv, NoOrphanCSV
<1>5. CASE UNCHANGED olm /\ (pc' \in {"csv", "subscription"} => UNCHANGED <<pc, target, held>>)
  BY <1>5 DEF olm, CSVInv, NoOrphanCSV
<1>. QED  BY <1>1, <1>2, <1>3, <1>4, <1>5, OperatorsKept DEF DeleteOperator

\* No pass, whole or cut short, leaves a CSV behind without the Subscription that
\* leads to it, unless OLM installs one during DeleteOperator.
THEOREM NoCSVIsOrphaned == Spec => []NoOrphanCSV
<1>1. Init => CSVInv
  BY DEF Init, CSVInv, NoOrphanCSV
<1>2. TypeOK /\ CSVInv /\ [Next]_vars => CSVInv'
  BY NextCSV
<1>3. CSVInv => NoOrphanCSV
  BY DEF CSVInv
<1>. QED  BY <1>1, <1>2, <1>3, TypeCorrect, PTL DEF Spec
=============================================================================
