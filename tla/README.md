# Verification of the IBM Common Service Operator

This directory models the parts of the operator in `src/internal/controller` whose
correctness depends on the order in which things happen: reconciles that consist of
many API calls, informer caches that lag behind, users who edit at any moment, errors,
retries and restarts; and the merge of all resources into one, whose result must not depend on that order. TLC checks
the models on small instances, TLAPS proves the theorems for every instance.

## 1. The system

The operator runs in a Kubernetes or OpenShift cluster. Users describe what they want
in `CommonService` custom resources (CRs). One of them, `common-service` in the
operator's namespace, is the *master*; any number of others, the *general* CRs, ask for
more. The operator merges all of them into one `OperandConfig`, which another operator
(ODLM) acts upon, and installs ODLM through OLM. It also looks after certificates that
cert-manager issues.

| Component | State it keeps | Operations | Hard behaviour | What makes it correct |
|---|---|---|---|---|
| CommonService reconciler (`commonservice_controller.go`) | phase and conditions of each CR; the work queue | `Reconcile`, `ReconcileMasterCR`, `ReconcileGeneralCR`, pause, `handleDelete` | some 25 API calls per reconcile, each of which may fail or meet a conflict; three ways of recording an error | at rest every phase is final; an error is retried; Succeeded means installed |
| OperandConfig aggregation (`operandconfig.go`) | the `OperandConfig` | `buildDesiredStateFromAllCRs`, `getExtremeizes`, `updateOperandConfig`, `handleDelete` | three lists of the CRs from a cache in one update | at rest the OperandConfig asks for what the CRs ask for; it is complete when created |
| Extraction and merge (`config_extractor.go`, `config_merger.go`, `operandconfig.go`, `rules/`, `size/`) | none: functions on nested maps | extract, merge, shrink, compare | the order of a Go map; values of different types; request and limit from different CRs | no CR gets less than it asks for; what is computed can be scheduled |
| Flow without OLM (`no_olm_commonservice_controller.go`) | as the reconciler | its own master and general flows | two flows write the OperandConfig from different inputs | at rest it is the one of the CRs, whichever wrote last |
| Clones (`ReconcileNonConfigurableCR`, `PropagateDefaultCR`) | copies of the master in watched namespaces | propagate, reconcile a clone | edits of a clone race with the propagation, whose writes are events again | a clone equals the master in the end, and the events stop |
| Bootstrap (`bootstrap/init.go`) | `CSData`, ODLM's subscription, OperandRegistry, OperandConfig | `InitResources`, `InstallOrUpdateOpcon`, `waitOperatorCSV`, `CheckClusterType`, `DeployCertManagerCR` | waits of minutes in the middle of a reconcile, state read before and used after | nothing is installed twice or left out, whatever the wait met |
| Services namespace (`bootstrap/init.go`, `bootstrap/operandregistry.go`, `goroutines/`, `cmd/main.go`, `webhooks/`) | `CSData.ServicesNs`, `status.configStatus`, registries and configs by namespace | start, create the default CR, `UpdateConfigStatus`, `ConfigODLMOperandManagedByOperator` | a goroutine and the reconciler share a field; list, then delete | services have one home and are not removed from under the users |
| Upgrade clean-up (`bootstrap/init.go`, `deploy/manager.go`) | what is left of release 3 | `CleanNamespaceScopeResources`, `DeleteOperator`, `DeleteV3Resources`, `CleanupWebhookResources` | cut short between two deletes; finalizers; garbage collection | everything old goes, nothing needed does |
| common-service-maps (`bootstrap/init.go`, `common/util.go`) | a ConfigMap shared by several operators | create, update, validate | a lost update ends the process | tenants never overlap; every tenant gets in |
| pod-refresh (`cert-manager/podrefresh_controller.go`) | a restart label on each workload | `Reconcile`, `verifySecretReady`, `restart` | status seen before the secret, retries half-way, restarts | a workload that is skipped has the certificate; none is forgotten, or restarted twice |
| certificate-refresh (`cert-manager/certificaterefresh_controller.go`) | none | `Reconcile`, `verifyCASecretUpdated` | a cache that shows labelled secrets only; deletes race with cert-manager | every leaf is issued by the present CA in the end |
| certificate-v1-label (`cert-manager/v1_add_label_controller.go`) | the watch label of each secret | `Reconcile` | the secret is deleted between its read and its update | no secret stays without the label |
| Cache (`common/cache.go`) | informer caches | `NewCSCache` | what has no label is invisible | - |
| OperatorConfig, collector (`operatorconfig.go`, `configurationcollector/`) | one resource each | write | - | - |

The components interact through the API server only. Watches turn an event of a CR
into a request for it (unless only its status changed) and, for a general CR, also
into one for the master; a change of `ibm-cpp-config` is a request for the master.
There is one worker per controller (`MaxConcurrentReconciles` is not set), so
reconciles of one controller do not overlap, while users, cert-manager, OLM, the
informers and the other controllers act between any two calls.

## 2. Modules

| Module | Models |
|---|---|
| `CommonServiceController` | the CommonService reconciler, the aggregation and the bootstrap |
| `CommonServiceControllerProofs` | its theorems: types, what Succeeded means, and what holds at rest |
| `OperandConfigMerge` | what one round of the aggregation computes, from the CRs to the OperandConfig |
| `ResourceComparison` | which of two values is larger (`rules/resource_comparison.go`); used by `OperandConfigMerge` |
| `SizeProfiles` | the twelve files of `size/`, container by container; used by `OperandConfigMerge` |
| `NoOLMController` | the flow without OLM and the clones |
| `NamespaceMap` | abstract: tenants claim namespaces, atomically |
| `CsMaps` | several operators that keep common-service-maps; implements `NamespaceMap` |
| `UpgradeCleanup` | the removal of release 3, with OLM, ODLM, the garbage collector and finalizers |
| `Topology` | the services namespace from the start of the process to installed services, with the goroutine that creates the default CR, the webhooks and ODLM |
| `PodRefresh` | the pod-refresh controller with cert-manager, caches and a clock |
| `CertificateRefresh` | the certificate-refresh and the certificate-v1-label controllers, which interact through the cache's label selector |
| `OperandConfigMergeProofs`, `NoOLMControllerProofs`, `CsMapsProofs`, `UpgradeCleanupProofs`, `TopologyProofs`, `PodRefreshProofs`, `CertificateRefreshProofs` | the theorems about the module of that name |
| `MC...` | constants for TLC |

The reconciler is cut along its data. `CommonServiceController` has every call of the two flows with OLM and
treats the calls that touch only the namespace-scope operator, the services namespace or the shared map as
steps that succeed or fail; `UpgradeCleanup`, `Topology` and `CsMaps` take up those
calls with their own state, and `OperandConfigMerge` opens up the one step that computes.

### CommonServiceController

A *spec* is a storage class and a size: a value that can only be chosen (the operator
cannot compare two storage classes) and one that can be compared. These are the two kinds of
values the merge treats differently. Size 0 is `starterset`. The *OperandConfig* is
its storage class, its size, and whether a field added by hand is still there.

| Variables | Code |
|---|---|
| `live`, `spec`, `paused`, `status` | the CRs on the API server |
| `cached`, `cacheSpec`, `notify`, `queue` | the informer's store, events on their way, the work queue (a set: requests are deduplicated; an event that follows an undelivered one joins it) |
| `pc`, `role`, `cur`, `mem` | the worker: next call, flow, CR, `instance.Status` in memory |
| `stale`, `opStale` | the resource version of the CR, or of the OperandConfig, has moved on since it was read, so that `Update` is refused |
| `statusErr`, `retErr` | the two places where `ReconcileMasterCR` keeps an error |
| `force`, `crds`, `agg`, `largest` | local variables that outlive a call |
| `settled` | history, for one property only |

Each API call is one action, and `pc` names it. A reconcile's reads and writes of one
call are atomic; users, informer, OLM and crashes come in between. The error handling
is data: `MarksFailed`, `KeepsError` and `ReplacesError` say for each call what the
code does with its error, and `FailWith` is the one place that acts on it.
`Fault` lets any call fail; `PutStatus` fails by itself on a conflict.
`Status().Patch` at the start of the master flow carries no version and never conflicts.

Decisions worth knowing:
  * `FeatureSC` and `Updated` are sets: the informer lists CRs in no fixed order,
    and `getExtremeizes` ranges over a Go map.
  * `updateOperandConfig` ignores its arguments and rebuilds the state from all CRs;
    the model does the same.
  * The license check is not in the model: it logs a message and the reconcile goes on.
  * A new status is the initial one after `CreateCR`; deletion is immediate, since no
    finalizer is set.
  * The clones are excluded from the lists by a label and are not part of `CRs`.
  * Calls without effect on this state (labels, collector, operator status, ...) are
    steps that succeed or fail.

### PodRefresh

A certificate is its `NotBefore`, in seconds. cert-manager signs, then writes the
secret and the status, in either order; the three caches follow in any order. `restart` goes through the
kinds of workloads; each update is an action and is refused on an outdated version.
A label that is already there changes no pod template, so no pod restarts.
`Signing` bounds the time from `NotBefore` to the write of the secret; with `Signing >= MaxTime`, as in `Pod`, an old secret
may stay for ever. `Timeout` stands for the
60 seconds after which `verifySecretReady` goes on with an old secret. A request that
has to wait stays in the queue. `NotAfter` changes exactly when `NotBefore` does.

Two things that the code does limit what can be promised, and the properties say so instead of assuming them away:
  * A label later than `NotBefore` is taken for a restart with the new certificate, but the secret may be written after that restart.
    `SkipSound` says exactly when (`stored`, the time of that write, and `by`, the renewal a restart was for, are history): the restart was no later than the
    write, and it was for another certificate (which nothing holds back) or came after the `Timeout`. Then the pods keep the old certificate.
  * A label of the very second of `NotBefore` is not `After` it: a retry restarts the workload again. `NoDoubleRestart` excepts this second,
    and `done` records such restarts like any other.

### CertificateRefresh

A CA certificate is a version and a leaf secret is the version of its `ca.crt`. The
secrets' informer shows labelled leaves only (`Visible`). `Delete` carries no
precondition, so it removes whatever the secret holds by then. The
label controller's update is refused if the secret changed or is gone.
`Slow` stands for the timeout after which `verifyCASecretUpdated` goes on.

### OperandConfigMerge, ResourceComparison, SizeProfiles

A configuration is a function from leaf fields (replicas, requests and limits of one container, the
instances of the database cluster, `autoScaleConfig`, the replica's source, `initdb`, `pg_basebackup`) to
values. A value keeps its type: a quantity in its spelling (`Str(1500, "m")`), a number, a boolean, a word.
`Path` says which maps a leaf is in, since the code treats a missing map and a missing leaf differently.
A behaviour is one reconcile after the other. Between two (`NextRound`) users may change the CRs, and only the OperandConfig is kept: `mergeOperandConfigs`
keeps what earlier CRs left in it until `updateOperandConfig` replaces the services, so `ControllerOwnsSizes` and all of `Schedulable` hold of a complete
reconcile, not before. Edits of the CRs within a reconcile are `CommonServiceController`'s. The steps are `BuildDesired` (PASS 1 and 2 of `buildDesiredStateFromAllCRs`), one `ApplyCR` for each
CR in the order of the list (PASS 3, with `next` as its position), `DesiredBuilt`, `InstallOrUpdateOpcon` (or `InstallFromMaster`, when nothing was
aggregated), `StartUpdate`, one `SummarizeNext` for each CR in any order (a Go map), and `UpdateServices`.
`Cases` are the inputs: all pairs of CRs with sizes in other spellings and types, of CRs with other profile
controllers, and of CRs with features, for one container on three architectures; all triples of plain
profiles; and every container of every build under all pairs of profiles. Three CRs are needed since the merge of two is
merged again; a fourth only repeats that. `LaterCases` are what the CRs may become afterwards: services handed to another controller, by a CR or by the service's
strategy, and taken back, smaller or no sizes, overrides of a user's own, a replica, an incomplete replica. `CasesAssumption` says of the inputs what the API does: a CR sizes known
fields, with a text or a number that is not negative.

`LargestWins` is the reference definition: the largest valid value anybody asked for. It excepts a field for which one CR writes the
number 0 and another a text that is no quantity (`Comparable`): the code then compares floats, takes the text for 0, and lets it
replace the number. `Schedulable` says that no
request exceeds its limit, which ties the tables of `size/` to the merge. It holds for CRs that
override request and limit together (`ConsistentOverrides`): a CR that sets only a limit, beside
another with a larger profile, can produce a request above the limit.

### NoOLMController

Sizes are numbers, and a CR may set a replica count of its own. The worker's reconcile is the record `job`; each API
call is an action. The informer's cache (`cache`) lags behind per CR, and an event is a change of spec, of status
or a deletion. `QuiescentSize` says of the OperandConfig at rest that it is the configuration of a CR that exists, at the largest profile, and no less than the master's
own. It does not say that a count a general CR sets itself is kept: the next reconcile of the master overwrites it (section 3).

### NamespaceMap, CsMaps

`NamespaceMap` is the promise: a claim changes the map at once, and keeps it free of overlaps. In `CsMaps`
each tenant's process reads the ConfigMap, adds itself, validates and writes with the version it has read; the process ends
(`os.Exit`) when validation or the write fails, and Kubernetes starts it again. `copy[t].fresh` stands
for the resource version. The refinement maps the ConfigMap to the abstract map; all else stutters.
A tenant whose Create was refused, or whose access review failed, goes on without an entry until its next
reconcile (`lost`): the code only logs this. If a tenant's services namespace is not among the namespaces it watches,
two entries can have the same owner, validation fails for everybody concerned and their processes end again and
again; `EventuallyMapped` is about tenants with a sound scope.

### UpgradeCleanup

The pass of `InitResources` through `CleanNamespaceScopeResources`, `DeleteV3Resources` and the
removal of the former ODLM, delete by delete, with what the cluster does meanwhile: OLM installs CSVs for Subscriptions, the garbage
collector removes what a deleted owner owned, the NamespaceScope operator runs its finalizer as long as it is installed, ODLM
moves to a new registry. `Gated` deletes need an access review. A pass may be cut short by
an error (`Fail`, which comes back with the queue), a swallowed one (`Skip`, `CheckFails`), or a kill.
`Roll` assumes that ODLM moves its Subscriptions to the channels of a registry of release 4.
The reconciler is woken by the watch of OperandRegistry only if the number of its operators changes, and only if
its CRD existed when the process started.

### Topology

`main` (`Start`, `StartManager`), the goroutine `WaitToCreateCsCR` (`creator`) and the worker share
`CSData.ServicesNs`. Users create and move the CR (within what the webhook lets pass), create namespaces and OperandRequests;
ODLM sets phases from the requests. A pass fixes the services namespace (`UpdateConfigStatus`), lists the registries
and configs elsewhere, deletes the idle ones, and installs its own. Ghost variables name the
four ways in which the code gives up its promise, so that each property can say exactly which of them it excepts: `raced`
(ODLM deploys between list and delete), `late` (the goroutine overwrites the namespace after somebody else created
the CR), `unpatched` (CSData changed, the status patch failed), `swallowed` (an error of List taken for an empty list). A fifth needs no
variable: the action `CheckFails` is `UpdateConfigStatus` with a failing Get in `CheckDeployStatus`, whose error the code takes for services that are not deployed.

## 3. Runs

| Run | Bounds | Shows |
|---|---|---|
| `Reconcile` | 2 CRs, 1 storage class, 2 sizes, 2 changes by users, 1 API error, all namespaces | at rest the OperandConfig matches the CRs (`QuiescentConverged`) and phases are final (`SettledPhase`); no CR Succeeded before the OperandConfig exists (`SucceededInstalled`); the OperandConfig is complete when it appears (`CreatedComplete`) |
| `Converge` | 1 change, 1 error, 1 crash, selected namespaces, fairness | the same at rest after a crash or `os.Exit` at any step, and `EventuallyConverged` |
| `Merge` | the `Cases` above, any number of reconciles, `LaterCases` in between | `LargestWins`, `Schedulable`; after a complete reconcile a service handed to another controller has no sizes (`ControllerOwnsSizes`); a replica has `pg_basebackup` and never `initdb` (`ReplicaHasNoInitdb`) |
| `NoOLM` | master, 1 general CR, 1 clone, 2 sizes, 2 changes or errors, fairness | `QuiescentSize`, `ClonesFollow`, `SettledPhase` at rest, and rest is reached (`EventuallyQuiet`) |
| `Maps` | 2 tenants, 3 namespaces, 4 scopes, 1 change, 1 error or crash, fairness | `NoOverlap`; every write is one tenant's claim on the map it overwrites (`ClaimsAreAtomic`, the refinement); `EventuallyMapped` |
| `Cleanup` | 2 NamespaceScope CRs, 2 versions per operator, 1 error or crash, fairness | `ConfigMapSurvives`, `NoOrphanCSV`, `EventuallyScopeClean`, `EventuallyNoLeftovers` |
| `Topology` | 2 namespaces, 2 changes by users, 1 change of requests, 1 error or crash, fairness | `OneHome`, `RunningKept`, `Pinned`, `EventuallyHome` |
| `Pod` | 2 certificates, a workload of each kind, one of them annotated not to be restarted, 2 renewals or deletions, 1 error, 1 crash, times up to 4 (one certificate is from 1, the other not yet issued; the run begins at 2), `Timeout` of 2, secrets written at any time or never, fairness | `SkipSound`, `NoDoubleRestart`, and without a crash `Stamped` and `EventuallyStamped` |
| `Cert` | 2 leaves, 2 CA versions, 1 error, 1 crash, fairness | `WatchedAtRest`, `EventuallyChained` |

Each run also checks its module's `TypeOK`.

The bounds are enough for the interesting cases: two CRs are a master and a general
one, and a third would be another general one; two changes are an edit and a second one (or a
deletion, or a pause) before the first has been dealt with; one error is enough to
reach every error path, each of which ends the reconcile, and `FailWith` charges a
second for the status write that fails as well. Two certificates that share a workload are
needed for one restart to hide another, and two sizes and one class for every comparison. Two tenants are
needed for a race, and three namespaces for scopes that overlap in part. Two namespaces are a home and a
former home. Two NamespaceScope CRs are the owner of the ConfigMap and one that is not. Two leaves are needed for one delete of
several to fail.

`CHECK_DEADLOCK FALSE` is set where the system may come to rest: a quiet cluster.

### Disagreements between the code and what the repository says of it

| Run | Property | Observation |
|---|---|---|
| `FailureRetried` | `FailureRetried` | An error of `DeployCertManagerCR` in the master flow is overwritten by the result of `updatePhase(Failed)`: no retry, the CR stays Failed (with condition Ready). |
| `Features` | `FeaturesAsCollected` | "any true wins" and "first non-nil wins" are how the features are collected, but `getExtremeizes` merges the CRs again in the order of a Go map, with false as the larger boolean. The same order decides between two storage classes, so that the OperandConfig may change on each reconcile. |
| `PodLost` | `EventuallyFresh` | A renewal pending when the operator restarts is lost, since create events are filtered. One certificate and secrets written in the second of `NotBefore` leave no other reason; without the crash the property holds on this instance. |

Others have no run:
  * Fields added by hand, which `InstallOrUpdateOpcon` preserves (`init.go:1096`), are removed by `updateOperandConfig` in the same reconcile (`operandconfig.go:643`).
  * A workload with two secrets: a restart for one hides the renewal of the other if that one's secret is written
    after the restart. The same happens with one certificate whose secret
    is written after the `Timeout`: the workload was restarted with the old one and is skipped afterwards. These are the two exceptions in `SkipSound`.
  * `testdata/README.md:134-141` applies a second CR that sets a larger size for MongoDB (`sizing/large_mongodb.yaml`) and says "Verify OperandConfig. the mongodb should have a larger size." With OLM
    that is so (`LargestWins`). Without OLM it is not: the general CR's reconcile writes its own count, its phase is an event for the master, and the master's
    reconcile overwrites the count from its own spec and the largest profile (`no_olm_commonservice_controller.go:198`, `NoOLMController!InstallOrUpdateOpcon`); and where that CR, named `common-service` like the
    master, lies in a watched namespace, it is a clone and `PropagateDefaultCR` overwrites it. `QuiescentSize` does not say
    that the larger count is discarded; it says what holds whether or not that is repaired.
  * `CheckDeployStatus` (`init.go:2228-2237`) drops the error of its Get, so that one failing call moves the status away from a namespace whose services run (`Topology!CheckFails`).
  * `config_bridge.go` means to write the OperandConfig "in its final desired form"; the update that follows in the same reconcile may change it.
  * `init.go:2064` skips the clean-up of the NamespaceScope operator if there is no OperandRegistry, but `GetOperandRegistry` returns an
    empty one instead of nil, so that the branch is never taken.
  * The license message says "Operator will not proceed until then" and the operator proceeds (`commonservice_controller.go:87`).
  * `docs/install.md:170` says that there is no way back to `starterset`, and `updateOperandConfig` takes it.
  * certificate-refresh may delete a leaf secret that was issued anew after it was cached (`certificaterefresh_controller.go:196`).

### Fairness

  * `WF(WorkerStep)`, `WF(Worker)`, `WF(Work)`, `WF(Pass)`, `WF(Refresh)`, `WF(LabelWrite)`: a worker that has begun goes on.
    Faults are not fair, and are bounded.
  * `SF(Reconcile(c))`, `SF(LabelRead(l))`: a request is taken only while the worker is free, which
    comes and goes; the queue is first in, first out, so no request is passed over for ever. A failed request
    comes back with a growing, but bounded delay.
  * `WF(Deliver(c))`, `WF(See...)`, `WF(See)`: informers deliver.
  * `WF(OdlmStep)`, `WF(Roll)`, `WF(RegistryPhase)`, `WF(ConfigPhase)`, and cert-manager's steps: OLM, ODLM and cert-manager
    finish what they began.
  * `WF(Start)`, `WF(StartManager)`, `WF(Creator)`, `WF(Rollout)`: Kubernetes starts a process that ended or whose Deployment changed, and its goroutine runs.
  * `WF(Step)` in `UpgradeCleanup`: one process, which starts again and takes its request; OLM and the finalizers of the NamespaceScope operator are not
    assumed to be fair; the garbage collector acts at once, which is the worst it can do to `ConfigMapSurvives`.
  * `WF(Resync)` in `CertificateRefresh`: the informers of controller-runtime resync (every ten
    hours by default). Without it a leaf that was absent when its CA was renewed
    would be missed; `EventuallyChained` needs it.

  * `WF(Tick)` in `PodRefresh`: time passes, so that `Timeout` is reached. cert-manager sets the status and creates a secret that is missing; that it replaces an old one is
    assumed only of certificates signed so late that the bounded clock ends before their `Timeout` (`MustStore`).

`Stamped` and `EventuallyStamped` speak of an operator that does not restart; `PodLost` shows why.

### Mutants

Every property of a passing run has a mutant in `PROJECT.json`: a definition changed the
way a bug would change it (an error not requeued, no list after a restart, events of other CRs that do not reach the master,
an aggregation of the master only, an update without a version, a refused update not tried again, a
typing error in a size profile, a validation that does not look at owners, the CSV deleted after its Subscription, an owner reference
left in place, a goroutine that tries only once, ...), for which TLC finds the property violated.

## 4. Proofs

Every safety property that a passing run checks, action properties and the refinement included, is also a theorem, for every
value of the constants. Each inductive invariant named below was first checked by TLC on the instance
of its run.

| Theorem | States | Inductive invariant, and why the property alone is not enough |
|---|---|---|
| `CommonServiceControllerProofs!TypeCorrect` | `TypeOK` | inductive as it stands: it says for each flow which steps its worker may be at, without which a shared step such as `opWrite` could continue in the wrong flow |
| `InstalledBeforeSucceeded` | `SucceededInstalled` | `InstalledInv`: the phase is written from memory many steps after the OperandConfig was created or read, so every step in `AfterInstall` has to be reached with it in place |
| `NoCRRestsHalfWay` | `SettledPhase` | `RoleInv`, `PhaseInv`: a CR with nothing due is being reconciled from what it is now, or has a phase to rest with |
| `OperandConfigConverges` | `QuiescentConverged` | `CacheInv`, `GeneralInv`, `ConvergedInv`: while nothing is due for the master, cache and specs agree and what was written matches them |
| `OperandConfigIsCreatedComplete` | `CreatedComplete` | `CacheInv`, `AggregateInv`, `InstalledInv`: what a reconcile has aggregated covers every CR that has not changed since it began |
| `OperandConfigMergeProofs!TypeCorrect` | `TypeOK` | `TypeInv`: each leaf is in its own part of the services, and after the loop over the CRs `next` is past the last |
| `OwnedServiceIsNotSized` | `ControllerOwnsSizes` | `MapInv`, `OwnInv`: the mapping is the one of the CRs seen so far, so the desired services may still have sizes of the CRs before the one that hands the service over, and the OperandConfig those of earlier reconciles; the summary never takes any, and the services that replace them are made of the summary and of desired services that were reset |
| `ReplicaOrInitdb` | `ReplicaHasNoInitdb` | `BootInv`, `ReplicaInv`: the desired services replicate if any CR does, since an incomplete replica stops the reconcile before its summary, and every OperandConfig written went over the base template |
| `LargestSizeWins` | `LargestWins` | `LargestInv`: the desired services have the largest sizes of the CRs that PASS 3 has seen, the summary those of the CRs, raised to the largest profile, that are not in `todo` any more; hence the order does not matter |
| `RequestsWithinLimits` | `Schedulable` | `SoundInv`: desired services and summary have requests and limits in pairs, all quantities, none above its limit. Pairs are needed: of a request from one side and a limit from the other nothing would follow. The OperandConfig is bounded on what was aggregated once that is laid over it, and as a whole once it is replaced |
| `NoOLMControllerProofs!TypeCorrect` | `TypeOK` | `RoleInv`: the master always exists, and each step belongs to its flow |
| `EveryCRSettles` | `SettledPhase` | `CacheInv`, `PhaseInv`: as above, with the clones, which are read from the cache |
| `ClonesAreCopies` | `ClonesFollow` | `FollowInv`: with nothing due for the master, every clone the propagation has visited equals the master |
| `RestSize` | `QuiescentSize` | `GeneralInv`, `SizeInv`: the general flow overwrites the master's count; until its last phase, whose event calls the master, it is `Interrupted`, and stays in the queue across errors and conflicts. `handleDelete` causes no event and so must change nothing (`SameLargest`) |
| `CsMapsProofs!TypeCorrect`, `MapHasNoOverlap` | `TypeOK`, `NoOverlap` | `CopyInv`: a copy that is still fresh is the map, so what was validated is what is written |
| `ImplementsNamespaceMap` | `ClaimsAreAtomic`, the refinement of `NamespaceMap` | the same; each write is one tenant's whole claim on the map it overwrites, every other step stutters |
| `UpgradeCleanupProofs!TypeCorrect`, `ConfigMapIsKept` | `TypeOK`, `ConfigMapSurvives` | `OwnerInv`: the ConfigMap has no owner from the removal of its reference on, and for good once the Delete of the owner was sent, also by a pass that was cut short |
| `NoCSVIsOrphaned` | `NoOrphanCSV` | `CSVInv`: a Subscription names the one CSV there is, DeleteOperator holds that one, and it is gone when the Subscription is about to go, unless `raced` |
| `TopologyProofs!TypeCorrect`, `ServicesHaveOneHome` | `TypeOK`, `OneHome` | `TypeInv` (with `NoCRInv`), `HomeInv`: behind each list of a pass that missed nothing, all that is outside the home has been seen; behind each round of deletes nothing is there |
| `NothingInUseIsRemoved` | `RunningKept` (an action property) | `IdleInv`: what is listed for deletion was idle, and is so unless `raced` |
| `DeployedServicesArePinned` | `Pinned` (an action property) | `PinInv`: `CSData` has the status's namespace, unless `late` or `unpatched`; the one step that moves the status in spite of it is `CheckFails` |
| `PodRefreshProofs!TypeCorrect`, `NoWorkloadRestartsTwice` | `TypeOK`, `NoDoubleRestart` | `ClockInv`, `TodoInv`, `DoneInv`: no label is ahead of the clock or of the restart under way, what is listed for a restart had no label later than the renewal, and what was restarted has one no earlier than it |
| `SkippingIsSound` | `SkipSound` | `OrderInv`, `ReadInv`, `ReadyInv`, `ByInv`, for every `Signing`: no secret is written before its `NotBefore`, a restart after the write has read it, and a reconcile that is past `verifySecretReady` has the secret in place or the `Timeout` behind it |
| `NoWorkloadIsForgotten` | `Stamped` | `GoneInv`, `StampInv`: a workload without the label of a renewal that the operator knows has a request in the queue, or a restart that has still to come to it |
| `CertificateRefreshProofs!TypeCorrect`, `NoSecretIsInvisible` | `TypeOK`, `WatchedAtRest` | `HeldInv`, `QueuedInv`: a secret without the label is queued or in hand, and one in hand that is gone since makes the read stale, so that the update is refused |

The properties about rest share one argument. A request or an event that arrives while the
worker is busy stays until the worker is free. So while nothing is due for a CR, all that the reconcile in progress
has read is still so: its copy is the CR, its lists are the CRs. Every way to end a reconcile early leaves
something due. `Due`, `MasterDue` and their lemmas (`DueStays`, `MasterDueStays`, `StandStill`) say this once, and each
invariant is of the form "nothing due implies ...".

The proofs about `OperandConfigMerge` go from the bottom up. `LargeIsLargest` says that `ResourceComparison` returns the larger of two
sizes whatever their types and spellings, `ExceedsOrder` that quantities are ordered. `MergeJoins`, `ArraysJoin` and `ShrinkLeaves` reduce the
three merges to that comparison field by field, and `LargestJoin`, `LargestShrink`, `SoundJoin` and `SoundShrink` say what it preserves. `TemplateRow`
goes through the twelve tables of `size/` once, row by row: no request exceeds its limit in any of them, and every build sizes the Cluster.

The proofs rest on the named assumptions of the modules and on nothing else: the master is one
of the CRs and general CRs and clones are others; "no object" and "no storage class" are no objects and no classes; bounds are
natural numbers, and replica counts are finitely many, and positive; each workload has one of three kinds; the first map
of `CsMaps` is one that validation accepts, since only operators write it; the CRs given to the merge are well-formed, then and later (`CasesAssumption`, `LaterCasesAssumption`). TLC evaluates them in every run.
The library's `Max` is a CHOOSE, so that `MaxOfSizes` and `FiniteMax` first show that a finite, non-empty set of numbers has a largest.

Four proof attempts changed a definition. PASS 3 of `buildDesiredStateFromAllCRs` was a fold over the list of CRs, about which
the provers can say nothing without induction; it is one step for each CR now, which is also what the code does. `Over` stands where TLC's `@@`
did, which has no meaning for the prover. `LargeIsLargest` failed for the number 0, and TLC confirms that it is lost beside a text that is no quantity: `Comparable`
is that exception, and `Merge` has CRs with 0 since. `SettledPhase` of `CommonServiceController` had a CASE with overlapping
guards for a paused master, whose meaning TLA+ leaves open; it is an IF now. Besides, `AbsentAssumption` in three modules says what
a model value says to TLC by itself: the value that stands for no object is no object.

What stays with TLC:
  * Liveness (`EventuallyConverged`, `EventuallyQuiet`, `EventuallyMapped`, `EventuallyScopeClean`, `EventuallyNoLeftovers`,
    `EventuallyHome`, `EventuallyStamped`, `EventuallyChained`): the prover has no rules for fairness or ENABLED.
  * The three runs that end in a violation.

## 5. Plan

All modules of section 2 are modelled, checked and, for safety, proved. What could follow, in order of importance:

  1. `OperandConfigMerge` for a service with several containers and all features, so that two features meet in one resource.
  2. The composition of `OperandConfigMerge` with `CommonServiceController`: the aggregation there works on sizes that are numbers, and
     `LargestSizeWins` is what justifies its maximum.
  3. Liveness by proof, when the prover has rules for fairness.

## 6. Not modelled

  * Catalog sources, RBAC, CRDs and the templates' text, the collector's ConfigMap and the OperatorConfig: written by calls that succeed
    or fail, and read by nothing here.
  * Of the features, labels and hugepages (`OperandConfigMerge` has one feature of each kind: a boolean, a chosen value), and the
    webhook's checks of hugepages and of a second replica, which looks at the OperandConfig and so lets two pass that are created together;
    `Merge` therefore takes CRs with two replicas.
  * Warning conditions, events, operators' status.
  * The goroutines that clean up after Keycloak and MongoDB, which touch nothing that the rest of the operator reads.
  * The overrides of user-managed operators in the OperandRegistry, dormant operators (`IdentifyCPFSNs`), and the channel of Keycloak in the templates: data.
