--------------------------- MODULE UpgradeCleanup ---------------------------
(***************************************************************************)
(* What an operator removes of an earlier release: at its start the old    *)
(* webhooks (CleanupWebhookResources), and in every reconcile of the       *)
(* master CR the NamespaceScope operator with its CRs                      *)
(* (CleanNamespaceScopeResources), the resources of release 3              *)
(* (DeleteV3Resources) and an ODLM in the services namespace               *)
(* (DeleteOperator).  Every call is a step of its own: one of them may     *)
(* fail, the process may end between two of them, and OLM, ODLM, the       *)
(* NamespaceScope operator and the garbage collector go on meanwhile.      *)
(***************************************************************************)
EXTENDS Integers, FiniteSets, Sequences, SequencesExt

CONSTANTS
    NssCRs,       \* the NamespaceScope CRs in the services namespace
    Owner,        \* the one that owns the namespace-scope ConfigMap
    NoopOps,      \* operators of the registry with installMode no-op
    Absent,       \* no such object
    Settings,     \* the installations to clean up
    MaxCSVs,      \* bound: versions OLM installs of an operator
    MaxFaults     \* bound: failing calls and killed processes, together

ASSUME OwnerAssumption == Owner \in NssCRs
ASSUME SettingsAssumption ==
    Settings \subseteq [simple : BOOLEAN, apart : BOOLEAN, allowed : BOOLEAN, kinds : BOOLEAN]
ASSUME BoundsAssumption == MaxCSVs \in Nat \ {0} /\ MaxFaults \in Nat

\* The operators that are uninstalled.
Ops == {"nss", "odlm"}
ASSUME AbsentAssumption == Absent \notin Ops \cup {"v3", "v4"} /\ Absent \notin [owned : BOOLEAN]

\* What is deleted object by object, in order.
Hooks == <<"validating-webhook", "mutating-webhook", "webhook-service">>
Configs == <<"cs-webhook-config", "operandrequest-config", "cs-mapping-config">>
Webhook == <<"PodPreset", "wh-ServiceAccount", "wh-Role", "wh-RoleBinding",
             "wh-ClusterRole", "wh-ClusterRoleBinding", "wh-Deployment">>
SecretShare == <<"ss-ServiceAccount", "ss-ClusterRole", "ss-ClusterRoleBinding",
                 "SecretShare", "ss-Deployment">>
Leftovers == ToSet(Hooks) \cup ToSet(Configs) \cup ToSet(Webhook) \cup ToSet(SecretShare)

\* Deleted only where an access review allows it, or where the kind exists.
Gated == {"validating-webhook", "mutating-webhook", "wh-ClusterRole", "wh-ClusterRoleBinding",
          "ss-ClusterRole", "ss-ClusterRoleBinding"} \cup ToSet(Configs)
Kinds == {"PodPreset", "SecretShare"}

VARIABLES
    simple,     \* AllNamespaces mode, or one namespace in the namespace-scope ConfigMap
    apart,      \* the services namespace is not the operator's
    allowed,    \* the access reviews allow to delete what is cluster-scoped
    kinds,      \* API server: the kinds of release 3 exist
    left,       \* API server: the leftovers that exist
    sub,        \* API server: the channel of each operator's Subscription, or Absent
    installed,  \* API server: its status.installedCSV, 0 for none
    csv,        \* API server: the ClusterServiceVersions of each operator
    nssCm,      \* API server: the namespace-scope ConfigMap and whether it is owned
    nss,        \* API server: the NamespaceScope CRs
    registry,   \* API server: the release of the OperandRegistry, or Absent
    crd,        \* API server: the OperandRegistry CRD exists
    noops,      \* API server: the no-op operators in status.operatorsStatus
    rolling,    \* ODLM is still to move Subscriptions to a new registry's channels
    pc,         \* where the operator's process is
    target,     \* DeleteOperator: of which operator
    held,       \* DeleteOperator: the installedCSV it read
    skipped,    \* what the pass leaves because a check before the Delete failed
    due,        \* the master CR is in the work queue
    raced,      \* operators of which OLM installed a CSV during DeleteOperator
    swallowed,  \* clean-ups of which a failure was logged and forgotten
    faults

vars == <<simple, apart, allowed, kinds, left, sub, installed, csv, nssCm, nss, registry, crd,
          noops, rolling, pc, target, held, skipped, due, raced, swallowed, faults>>
setting == <<simple, apart, allowed, kinds>>
olm == <<sub, installed, csv, raced>>
odlm == <<registry, crd, noops, rolling>>
scope == <<nssCm, nss>>
call == <<target, held, skipped>>

Releases == {3, 4}

Init ==
    /\ \E s \in Settings :
           simple = s.simple /\ apart = s.apart /\ allowed = s.allowed /\ kinds = s.kinds
    /\ left = Leftovers \ (IF kinds THEN {} ELSE Kinds)
    /\ sub \in [Ops -> {Absent, "v3", "v4"}]
    /\ sub["odlm"] # "v4" /\ (sub["odlm"] # Absent => apart)
    /\ installed = [o \in Ops |-> IF sub[o] = Absent THEN 0 ELSE 1]
    /\ csv = [o \in Ops |-> IF sub[o] = Absent THEN {} ELSE {1}]
    /\ nssCm \in [owned : BOOLEAN]
    /\ nss \in [NssCRs -> {"present", "gone"}]
    /\ nssCm.owned => nss[Owner] = "present"
    /\ crd \in BOOLEAN
    /\ registry \in IF crd THEN Releases \cup {Absent} ELSE {Absent}
    /\ noops \in IF registry = Absent THEN {{}} ELSE SUBSET NoopOps
    /\ rolling = FALSE
    /\ pc = "hooks"
    /\ target = Absent /\ held = 0 /\ skipped = {}
    /\ due = FALSE
    /\ raced = {} /\ swallowed = {}
    /\ faults = 0

-----------------------------------------------------------------------------
(* The others.                                                              *)

\* OLM installs the next version of an operator that has a Subscription.
Install(o) ==
    /\ sub[o] # Absent /\ installed[o] < MaxCSVs
    /\ csv' = [csv EXCEPT ![o] = {installed[o] + 1}]
    /\ installed' = [installed EXCEPT ![o] = @ + 1]
    /\ raced' = IF target = o /\ pc \in {"csv", "subscription"} THEN raced \cup {o} ELSE raced
    /\ UNCHANGED <<setting, left, sub, scope, odlm, pc, call, due, swallowed, faults>>

\* The garbage collector removes what a CR owned that is gone, at the earliest.
Collect(crs) ==
    IF crs[Owner] = "gone" /\ nssCm # Absent /\ nssCm.owned THEN Absent ELSE nssCm

\* The NamespaceScope operator, while it is there, lets go of a deleted CR.
Finalize(n) ==
    /\ nss[n] = "deleting" /\ csv["nss"] # {}
    /\ nss' = [nss EXCEPT ![n] = "gone"]
    /\ nssCm' = Collect(nss')
    /\ UNCHANGED <<setting, left, olm, odlm, pc, call, due, swallowed, faults>>

\* The OperandRegistry watch: the number of requested operators has changed and
\* none of them is a no-op.
isNonNoopOperandReconcile(requested) == requested = {}

\* ODLM adds a no-op operator to status.operatorsStatus, or takes one out.
Request(o) ==
    /\ registry # Absent
    /\ noops' = IF o \in noops THEN noops \ {o} ELSE noops \cup {o}
    /\ due' = (due \/ (pc # "hooks" /\ isNonNoopOperandReconcile(noops')))
    /\ UNCHANGED <<setting, left, olm, scope, registry, crd, rolling, pc, call, raced, swallowed, faults>>

\* ODLM moves the Subscriptions to the channels of a new registry; the change of
\* status.installedCSV enqueues the master.
Roll ==
    /\ rolling /\ pc # "hooks"
    /\ rolling' = FALSE
    /\ due' = TRUE
    /\ UNCHANGED <<setting, left, olm, scope, registry, crd, noops, pc, call, swallowed, faults>>

-----------------------------------------------------------------------------
(* One pass of the clean-up.                                                *)

\* The part of a pass that removes no operator and no scope.
Goto(step) == pc' = step /\ UNCHANGED <<setting, sub, installed, csv, raced, odlm, faults>>

\* What of a list exists, may be deleted and is of a known kind.
Deletable(list) ==
    SelectSeq(list, LAMBDA i : i \in left /\ (i \in Gated => allowed) /\ (i \in Kinds => kinds))

\* What of it the pass has yet to delete.
Deletes(list) == SelectSeq(Deletable(list), LAMBDA i : i \notin skipped)

DeleteFrom(list, next) ==
    LET todo == Deletes(list)
    IN  /\ Goto(IF todo = <<>> THEN next ELSE pc)
        /\ left' = IF todo = <<>> THEN left ELSE left \ {Head(todo)}
        /\ UNCHANGED <<scope, call, due, swallowed>>

\* main calls it before the manager starts; the first List enqueues the master.
CleanupWebhookResources ==
    /\ pc = "hooks"
    /\ LET todo == Deletes(Hooks)
       IN  /\ Goto(IF todo = <<>> THEN "idle" ELSE pc)
           /\ left' = IF todo = <<>> THEN left ELSE left \ {Head(todo)}
           /\ due' = (todo = <<>>)
    /\ UNCHANGED <<scope, call, swallowed>>

Begin ==
    /\ pc = "idle" /\ due
    /\ Goto("scope")
    /\ due' = FALSE
    /\ skipped' = {}
    /\ UNCHANGED <<left, scope, target, held, swallowed>>

\* The NamespaceScope operator stays where it still has a scope to keep.
CheckTopology ==
    /\ pc = "scope"
    /\ Goto(IF nssCm = Absent \/ ~simple THEN "configmap" ELSE "registry")
    /\ UNCHANGED <<left, scope, call, due, swallowed>>

\* It stays while the registry is of release 3, and while a no-op operator is
\* requested.  A registry that is not found is an empty one (GetOperandRegistry).
CheckRegistry ==
    /\ pc = "registry"
    /\ Goto(IF crd /\ (registry = 3 \/ noops # {}) THEN "configmap" ELSE "channel")
    /\ UNCHANGED <<left, scope, call, due, swallowed>>

\* Mutant: the ownerReference is only removed where the Subscription was.
ChannelSkipsOwner ==
    /\ pc = "channel"
    /\ Goto(CASE sub["nss"] = Absent -> "crs" [] sub["nss"] = "v4" -> "configmap" [] OTHER -> "find")
    /\ target' = IF sub["nss"] = "v3" THEN "nss" ELSE Absent
    /\ UNCHANGED <<left, scope, held, skipped, due, swallowed>>

\* Mutant: no Subscription, nothing to clean up.
ChannelReturns ==
    /\ pc = "channel"
    /\ Goto(IF sub["nss"] = "v3" THEN "find" ELSE "configmap")
    /\ target' = IF sub["nss"] = "v3" THEN "nss" ELSE Absent
    /\ UNCHANGED <<left, scope, held, skipped, due, swallowed>>

\* A Subscription of release 4 stays; without one the rest is still cleaned up.
CheckChannel ==
    /\ pc = "channel"
    /\ Goto(CASE sub["nss"] = Absent -> "owner" [] sub["nss"] = "v4" -> "configmap" [] OTHER -> "find")
    /\ target' = IF sub["nss"] = "v3" THEN "nss" ELSE Absent
    /\ UNCHANGED <<left, scope, held, skipped, due, swallowed>>

\* Where a pass goes on after DeleteOperator.
Resume == IF target = "nss" THEN "owner" ELSE "install"

\* DeleteOperator reads the Subscription.
FindSubscription ==
    /\ pc = "find"
    /\ Goto(IF sub[target] = Absent THEN Resume ELSE "csv")
    /\ held' = installed[target]
    /\ target' = IF sub[target] = Absent THEN Absent ELSE target
    /\ UNCHANGED <<left, scope, skipped, due, swallowed>>

\* Mutant: the Subscription goes first.
CSVLast ==
    \/ /\ pc = "csv"
       /\ pc' = "subscription"
       /\ sub' = [sub EXCEPT ![target] = Absent]
       /\ installed' = [installed EXCEPT ![target] = 0]
       /\ UNCHANGED <<csv, target, held>>
       /\ UNCHANGED <<setting, left, scope, odlm, skipped, due, raced, swallowed, faults>>
    \/ /\ pc = "subscription"
       /\ pc' = Resume
       /\ csv' = [csv EXCEPT ![target] = @ \ {held}]
       /\ target' = Absent /\ held' = 0
       /\ UNCHANGED <<sub, installed>>
       /\ UNCHANGED <<setting, left, scope, odlm, skipped, due, raced, swallowed, faults>>

\* DeleteOperator deletes the ClusterServiceVersion, then the Subscription that
\* names it.
DeleteOperator ==
    \/ /\ pc = "csv"
       /\ pc' = "subscription"
       /\ csv' = [csv EXCEPT ![target] = @ \ {held}]
       /\ UNCHANGED <<sub, installed, target, held>>
       /\ UNCHANGED <<setting, left, scope, odlm, skipped, due, raced, swallowed, faults>>
    \/ /\ pc = "subscription"
       /\ pc' = Resume
       /\ sub' = [sub EXCEPT ![target] = Absent]
       /\ installed' = [installed EXCEPT ![target] = 0]
       /\ target' = Absent /\ held' = 0
       /\ UNCHANGED csv
       /\ UNCHANGED <<setting, left, scope, odlm, skipped, due, raced, swallowed, faults>>

\* The ConfigMap is to outlive the CR that owns it.
RemoveOwner ==
    /\ pc = "owner"
    /\ Goto("crs")
    /\ nssCm' = IF nssCm = Absent THEN Absent ELSE [owned |-> FALSE]
    /\ UNCHANGED <<left, nss, call, due, swallowed>>

\* A Delete that fails is logged; the others are still sent.
DeleteNssCRs(missed) ==
    /\ pc = "crs"
    /\ missed = {} \/ faults < MaxFaults
    /\ missed \subseteq {n \in NssCRs : nss[n] = "present"}
    /\ nss' = [n \in NssCRs |-> IF nss[n] = "present" /\ n \notin missed THEN "deleting" ELSE nss[n]]
    /\ swallowed' = IF missed = {} THEN swallowed ELSE swallowed \cup {"nss"}
    /\ faults' = IF missed = {} THEN faults ELSE faults + 1
    /\ pc' = IF \A n \in NssCRs : nss[n] = "gone" THEN "configmap" ELSE "wait"
    /\ UNCHANGED <<setting, left, olm, nssCm, odlm, call, due>>

\* The poll ends: no CR is left, or all are on their way, or its time is over.
\* What has a deletion timestamp by then loses its finalizer.
WaitForNssCRs ==
    /\ pc = "wait"
    /\ Goto("configmap")
    /\ nss' = [n \in NssCRs |-> IF nss[n] = "deleting" THEN "gone" ELSE nss[n]]
    /\ nssCm' = Collect(nss')
    /\ UNCHANGED <<left, call, due, swallowed>>

\* Created if it is missing; an existing one, which has no version annotation, is
\* not touched.
CreateNsScopeConfigmap ==
    /\ pc = "configmap"
    /\ Goto("configs")
    /\ nssCm' = IF nssCm = Absent THEN [owned |-> FALSE] ELSE nssCm
    /\ UNCHANGED <<left, nss, call, due, swallowed>>

DeleteV3Resources ==
    \/ pc = "configs" /\ DeleteFrom(Configs, "webhook")
    \/ pc = "webhook" /\ DeleteFrom(Webhook, "secretshare")
    \/ pc = "secretshare" /\ DeleteFrom(SecretShare, "odlm")

\* An ODLM in the services namespace is from an AllNamespaces installation.
UninstallODLM ==
    /\ pc = "odlm"
    /\ Goto(IF apart THEN "find" ELSE "install")
    /\ target' = IF apart THEN "odlm" ELSE Absent
    /\ UNCHANGED <<left, scope, held, skipped, due, swallowed>>

\* The rest of InitResources installs the registry of this release.
InstallOpreg ==
    /\ pc = "install"
    /\ pc' = "idle"
    /\ crd' = TRUE
    /\ registry' = 4
    /\ rolling' = (rolling \/ registry = 3)
    /\ UNCHANGED <<setting, left, olm, scope, noops, call, due, swallowed, faults>>

-----------------------------------------------------------------------------
(* Failures.                                                                *)

\* A pass that ends with an error is queued again.
Abort ==
    /\ pc' = "idle" /\ due' = TRUE
    /\ target' = Absent /\ held' = 0 /\ skipped' = {}
    /\ UNCHANGED swallowed

\* Mutant: the new process goes on with the operator the old one was deleting.
ExitRemembers ==
    /\ pc' = "hooks" /\ due' = FALSE
    /\ UNCHANGED <<target, held, skipped, swallowed>>

\* A process that ends is started again, and cleans up the webhooks first.
Exit ==
    /\ pc' = "hooks" /\ due' = FALSE
    /\ target' = Absent /\ held' = 0 /\ skipped' = {}
    /\ UNCHANGED swallowed

\* Mutant: the webhook configurations are no better than the rest.
FailSwallows ==
    /\ faults < MaxFaults /\ pc \in {"configs", "webhook", "secretshare"}
    /\ pc' = CASE pc = "configs" -> "webhook" [] pc = "webhook" -> "secretshare" [] OTHER -> "odlm"
    /\ swallowed' = IF pc = "configs" THEN swallowed ELSE swallowed \cup {"v3"}
    /\ faults' = faults + 1
    /\ UNCHANGED <<setting, left, olm, scope, odlm, call, due>>

\* A call fails.  In main it ends the process; the webhook's and SecretShare's
\* resources are only logged, and the rest of their list is left; any other
\* failure is the result of the reconcile.
Fail ==
    /\ faults < MaxFaults
    /\ faults' = faults + 1
    /\ CASE pc = "hooks" -> Exit
         [] pc \in {"webhook", "secretshare"} ->
                /\ pc' = IF pc = "webhook" THEN "secretshare" ELSE "odlm"
                /\ swallowed' = swallowed \cup {"v3"}
                /\ UNCHANGED <<call, due>>
         [] pc = "idle" -> FALSE
         [] OTHER -> Abort
    /\ UNCHANGED <<setting, left, olm, scope, odlm>>

\* An access review fails, or in main the lookup of a kind: the object is left.
Skip(step, list, checked) ==
    /\ faults < MaxFaults /\ pc = step
    /\ Deletes(list) # <<>> /\ Head(Deletes(list)) \in checked
    /\ skipped' = skipped \cup {Head(Deletes(list))}
    /\ swallowed' = swallowed \cup {"v3"}
    /\ faults' = faults + 1
    /\ UNCHANGED <<setting, left, olm, scope, odlm, pc, target, held, due>>

CheckFails ==
    \/ Skip("hooks", Hooks, ToSet(Hooks)) \/ Skip("configs", Configs, Gated)
    \/ Skip("webhook", Webhook, Gated) \/ Skip("secretshare", SecretShare, Gated)

Kill ==
    /\ faults < MaxFaults
    /\ faults' = faults + 1
    /\ Exit
    /\ UNCHANGED <<setting, left, olm, scope, odlm>>

Step ==
    \/ CleanupWebhookResources \/ Begin \/ CheckTopology \/ CheckRegistry \/ CheckChannel
    \/ FindSubscription \/ DeleteOperator \/ RemoveOwner \/ DeleteNssCRs({}) \/ WaitForNssCRs
    \/ CreateNsScopeConfigmap \/ DeleteV3Resources \/ UninstallODLM \/ InstallOpreg

Next ==
    \/ Step
    \/ \E missed \in (SUBSET NssCRs) \ {{}} : DeleteNssCRs(missed)
    \/ Fail \/ CheckFails \/ Kill
    \/ \E o \in Ops : Install(o)
    \/ \E n \in NssCRs : Finalize(n)
    \/ Roll
    \/ \E o \in NoopOps : Request(o)

Spec == Init /\ [][Next]_vars

\* The worker goes on, the kubelet starts the process again (its first step is
\* in Step), and ODLM follows the registry.
FairSpec == Spec /\ WF_vars(Step) /\ WF_vars(Roll)

-----------------------------------------------------------------------------
(* Properties.                                                              *)

\* The type invariant: DeleteOperator has a target exactly while it runs.
TypeOK ==
    /\ simple \in BOOLEAN /\ apart \in BOOLEAN /\ allowed \in BOOLEAN /\ kinds \in BOOLEAN
    /\ left \subseteq Leftovers
    /\ sub \in [Ops -> {Absent, "v3", "v4"}]
    /\ installed \in [Ops -> 0 .. MaxCSVs] /\ csv \in [Ops -> SUBSET (1 .. MaxCSVs)]
    /\ nssCm \in [owned : BOOLEAN] \cup {Absent}
    /\ nss \in [NssCRs -> {"present", "deleting", "gone"}]
    /\ registry \in Releases \cup {Absent} /\ crd \in BOOLEAN
    /\ noops \subseteq NoopOps /\ rolling \in BOOLEAN
    /\ pc \in {"hooks", "idle", "scope", "registry", "channel", "find", "csv", "subscription",
               "owner", "crs", "wait", "configmap", "configs", "webhook", "secretshare", "odlm",
               "install"}
    /\ held \in 0 .. MaxCSVs /\ skipped \subseteq Leftovers /\ due \in BOOLEAN
    /\ target \in Ops \cup {Absent}
    /\ (target # Absent) <=> (pc \in {"find", "csv", "subscription"})
    /\ raced \subseteq Ops /\ swallowed \subseteq {"nss", "v3"} /\ faults \in 0 .. MaxFaults

\* The namespace-scope ConfigMap, with the namespaces every operator of the
\* tenant watches, survives the clean-up of the CR that owns it: the
\* ownerReference is gone before the CR is, also in a pass that finds the work of
\* a pass that was cut short (CleanNamespaceScopeResources).
ConfigMapSurvives == nssCm # Absent

\* Uninstalling an operator never leaves a ClusterServiceVersion that no
\* Subscription leads to and no later pass could find, wherever the pass is cut
\* short (DeleteOperator), unless OLM installs one while the operator is at it.
NoOrphanCSV == \A o \in Ops : csv[o] # {} /\ sub[o] = Absent => o \in raced

\* The NamespaceScope operator of release 3 has no more reason to stay.
Cleanable ==
    /\ simple /\ nssCm # Absent
    /\ registry = 4 /\ noops = {} /\ sub["nss"] # "v4"

ScopeClean == sub["nss"] = Absent /\ \A n \in NssCRs : nss[n] = "gone"

\* Once no no-op operator is requested any more and the registry is of release
\* 4, the NamespaceScope operator and its CRs go in the end, finalizers
\* notwithstanding, across failing calls and restarts, unless the Delete of a CR
\* fails, which is only logged.
EventuallyScopeClean == <>[]Cleanable => <>[](ScopeClean \/ "nss" \in swallowed)

\* Everything of release 3 that may be deleted is gone in the end, unless a
\* failure was only logged (DeleteV3Resources).
EventuallyNoLeftovers ==
    <>[](Deletable(Hooks \o Configs \o Webhook \o SecretShare) = <<>> \/ "v3" \in swallowed)
=============================================================================
