------------------------------ MODULE PodRefresh ------------------------------
(***************************************************************************)
(* The pod-refresh controller: when cert-manager renews a certificate, the *)
(* workloads that use its secret are restarted by writing the present time *)
(* into a label of the workload and of its pod template.                   *)
(*                                                                         *)
(* A certificate is its NotBefore time, in seconds; that is the resolution *)
(* of a Certificate's status and of the label.  NotAfter is taken to be a  *)
(* fixed duration after NotBefore, so that one changes when the other does.*)
(***************************************************************************)
EXTENDS Integers, FiniteSets

CONSTANTS
    Certs,        \* Certificates; each has a secret of its own
    NoCert,       \* none of them
    Issued,       \* the Certificates that have been issued when a behaviour begins
    Workloads,    \* deployments, statefulsets and daemonsets of the namespace
    Kind,         \* Kind[w]: 1 deployment, 2 statefulset, 3 daemonset
    Uses,         \* Uses[w]: the certificates whose secrets w refers to
    NoRestart,    \* the workloads annotated not to be restarted
    Timeout,      \* how long an old secret is waited for (60 seconds)
    Signing,      \* longest time from NotBefore to the write of the secret; from
                  \* MaxTime on an old secret may stay for ever
    Lifetime,     \* shortest time between two renewals of a certificate
    MaxTime,      \* bound: the clock
    MaxRenewals,  \* bound: certificates issued
    MaxFaults,    \* bound: API errors
    MaxCrashes    \* bound: restarts of the operator

ASSUME CertAssumption == NoCert \notin Certs /\ Issued \subseteq Certs
ASSUME WorkloadAssumption ==
    /\ Kind \in [Workloads -> 1 .. 3]
    /\ Uses \in [Workloads -> SUBSET Certs]
    /\ NoRestart \subseteq Workloads
ASSUME TimeAssumption ==
    /\ Timeout \in Nat /\ Signing \in Nat /\ Lifetime \in Nat \ {0}
    /\ MaxTime \in Nat \ {0, 1} /\ MaxRenewals \in Nat
    /\ MaxFaults \in Nat /\ MaxCrashes \in Nat

VARIABLES
    now,       \* the clock
    signed,    \* NotBefore of the certificate last signed for each Certificate
    content,   \* NotBefore of the certificate in the secret, 0 without one
    issued,    \* status.NotBefore of the Certificate, 0 if unset, Gone if deleted
    certSeen,  \* the operator's cache: status.NotBefore
    secSeen,   \* the operator's cache: the certificate in the secret
    label,     \* restartLabel of each workload, 0 without one
    labelSeen, \* the operator's cache: the label
    pods,      \* the certificates the pods of a workload read when they started
    queue,     \* the work queue
    pc,        \* "idle", "list" or "update"
    kind,      \* the kind of workload being restarted
    cur, lastUpdated, timeNow,  \* the Certificate, its NotBefore, the new label
    todo,      \* the workloads left to update, each with its version in the list
    stored,    \* history: when the certificate in the secret was written
    done,      \* history: the renewals each workload was restarted for
    by,        \* history: the renewal its last restart was for
    renewals, faults, crashes

certVars   == <<signed, content, issued>>
cacheVars  == <<certSeen, secSeen, labelSeen>>
workerVars == <<pc, kind, cur, lastUpdated, timeNow, todo>>
history    == <<stored, done, by>>
bounds     == <<renewals, faults, crashes>>
vars == <<now, signed, content, issued, certSeen, secSeen, label, labelSeen,
          pods, queue, pc, kind, cur, lastUpdated, timeNow, todo, stored, done,
          by, renewals, faults, crashes>>

Gone == -1
Times == 0 .. MaxTime

\* The certificates there are have been issued at time 1, and their workloads
\* have been restarted; the others are still to be issued.
Init ==
    /\ now = 2
    /\ signed = [c \in Certs |-> IF c \in Issued THEN 1 ELSE 0]
    /\ content = signed /\ issued = signed /\ certSeen = signed /\ secSeen = signed
    /\ label = [w \in Workloads |-> IF \E c \in Uses[w] : signed[c] = 1 THEN 1 ELSE 0]
    /\ labelSeen = label
    /\ pods = [w \in Workloads |-> signed]
    /\ queue = {}
    /\ pc = "idle" /\ kind = 1 /\ cur = NoCert
    /\ lastUpdated = 0 /\ timeNow = 0 /\ todo = {}
    /\ stored = signed
    /\ done = [w \in Workloads |-> {}]
    /\ by = [w \in Workloads |-> <<NoCert, 0>>]
    /\ renewals = 0 /\ faults = 0 /\ crashes = 0

-----------------------------------------------------------------------------
(***************************************************************************)
(* cert-manager, kubelet and the clock                                     *)
(***************************************************************************)

\* Time passes; a signed certificate reaches its secret within Signing, if at all.
Tick ==
    /\ now < MaxTime
    /\ \A c \in Certs : signed[c] # content[c] => now < signed[c] + Signing
    /\ now' = now + 1
    /\ UNCHANGED <<certVars, cacheVars, label, pods, queue, workerVars, history, bounds>>

\* A certificate is signed, before the last moment of the clock.
Sign(c) ==
    /\ renewals < MaxRenewals
    /\ now < MaxTime
    /\ renewals' = renewals + 1
    /\ issued[c] # Gone
    /\ signed[c] = content[c]
    /\ signed[c] = 0 \/ now >= signed[c] + Lifetime
    /\ signed' = [signed EXCEPT ![c] = now]
    /\ UNCHANGED <<now, content, issued, cacheVars, label, pods, queue,
                   workerVars, history, faults, crashes>>

\* cert-manager writes the secret.  Pods that waited for it start with it;
\* running pods go on with what they have read.
StoreSecret(c) ==
    /\ signed[c] # content[c]
    /\ content' = [content EXCEPT ![c] = signed[c]]
    /\ pods' = [w \in Workloads |->
                   IF pods[w][c] = 0 THEN [pods[w] EXCEPT ![c] = signed[c]] ELSE pods[w]]
    /\ stored' = [stored EXCEPT ![c] = now]
    /\ UNCHANGED <<now, signed, issued, cacheVars, label, queue, workerVars,
                   done, by, bounds>>

\* The Certificate's status is set, before or after its secret.
SetStatus(c) ==
    /\ issued[c] \notin {Gone, signed[c]}
    /\ issued' = [issued EXCEPT ![c] = signed[c]]
    /\ UNCHANGED <<now, signed, content, cacheVars, label, pods, queue,
                   workerVars, history, bounds>>

DeleteCertificate(c) ==
    /\ renewals < MaxRenewals
    /\ renewals' = renewals + 1
    /\ issued[c] # Gone
    /\ issued' = [issued EXCEPT ![c] = Gone]
    /\ UNCHANGED <<now, signed, content, cacheVars, label, pods, queue,
                   workerVars, history, faults, crashes>>

-----------------------------------------------------------------------------
(***************************************************************************)
(* The operator's caches                                                   *)
(***************************************************************************)

SeeSecret(c) ==
    /\ secSeen[c] # content[c]
    /\ secSeen' = [secSeen EXCEPT ![c] = content[c]]
    /\ UNCHANGED <<now, certVars, certSeen, labelSeen, label, pods, queue,
                   workerVars, history, bounds>>

SeeWorkload(w) ==
    /\ labelSeen[w] # label[w]
    /\ labelSeen' = [labelSeen EXCEPT ![w] = label[w]]
    /\ UNCHANGED <<now, certVars, certSeen, secSeen, label, pods, queue,
                   workerVars, history, bounds>>

\* Mutant of isExpiredPredicate: the first certificate is no renewal.
PredicateSkipsFirst(old, new) == new > 0 /\ old > 0 /\ old # new

\* isExpiredPredicate: of all events only an update that gives the status
\* another NotAfter leads to a reconcile.
isExpiredPredicate(old, new) == new > 0 /\ old # Gone /\ old # new

SeeCertificate(c) ==
    /\ certSeen[c] # issued[c]
    /\ certSeen' = [certSeen EXCEPT ![c] = issued[c]]
    /\ queue' = IF isExpiredPredicate(certSeen[c], issued[c])
                THEN queue \union {c} ELSE queue
    /\ UNCHANGED <<now, certVars, secSeen, labelSeen, label, pods, workerVars,
                   history, bounds>>

-----------------------------------------------------------------------------
(***************************************************************************)
(* Reconcile                                                               *)
(***************************************************************************)

\* Mutant of verifySecretReady: any certificate in the secret will do.
verifySecretExists(c) == secSeen[c] > 0

\* verifySecretReady: a secret that is missing is waited for, an old one only
\* for as long as Timeout since the NotBefore of the new one.
verifySecretReady(c) ==
    /\ secSeen[c] > 0
    /\ secSeen[c] >= certSeen[c] \/ now - certSeen[c] >= Timeout

Idle ==
    /\ pc' = "idle" /\ kind' = 1 /\ cur' = NoCert
    /\ lastUpdated' = 0 /\ timeNow' = 0 /\ todo' = {}

\* Reconcile returns: an error puts the request back on the queue.
Finish(err) ==
    /\ Idle
    /\ queue' = IF err THEN queue \union {cur} ELSE queue

\* The request of a deleted Certificate is dropped.
Drop(c) ==
    /\ pc = "idle" /\ c \in queue
    /\ certSeen[c] = Gone
    /\ queue' = queue \ {c}
    /\ UNCHANGED <<now, certVars, cacheVars, label, pods, workerVars, history, bounds>>

\* Mutant of Reconcile: the Certificate's status is not looked at.
ReconcileNoStatus(c) ==
    /\ pc = "idle" /\ c \in queue
    /\ verifySecretReady(c)
    /\ queue' = queue \ {c}
    /\ pc' = "list" /\ kind' = 1 /\ cur' = c
    /\ lastUpdated' = certSeen[c]
    /\ timeNow' = now
    /\ UNCHANGED <<now, certVars, cacheVars, label, pods, todo, history, bounds>>

\* A request whose Certificate or secret is not ready is put back with a
\* delay, which changes nothing here; otherwise restart begins.
Reconcile(c) ==
    /\ pc = "idle" /\ c \in queue
    /\ certSeen[c] > 0
    /\ verifySecretReady(c)
    /\ queue' = queue \ {c}
    /\ pc' = "list" /\ kind' = 1 /\ cur' = c
    /\ lastUpdated' = certSeen[c]
    /\ timeNow' = now
    /\ UNCHANGED <<now, certVars, cacheVars, label, pods, todo, history, bounds>>

\* getDeploymentsNeedUpdate and its two copies: the workloads that refer to
\* the secret, may be restarted, and have not been since NotBefore.
NeedsUpdate(w) ==
    /\ cur \in Uses[w]
    /\ w \notin NoRestart
    /\ ~(labelSeen[w] # 0 /\ labelSeen[w] > lastUpdated)

List ==
    /\ pc = "list"
    /\ todo' = {<<w, labelSeen[w]>> : w \in {v \in Workloads : Kind[v] = kind /\ NeedsUpdate(v)}}
    /\ pc' = "update"
    /\ UNCHANGED <<now, certVars, cacheVars, label, pods, queue, kind, cur,
                   lastUpdated, timeNow, history, bounds>>

\* Client.Update of one workload from the cache.  A label that is already
\* there changes no pod template: no pod is restarted.  Restarted pods read
\* the secrets as they are now.
Stamp(w) ==
    /\ label' = [label EXCEPT ![w] = timeNow]
    /\ IF label[w] = timeNow
       THEN UNCHANGED <<pods, done, by>>
       ELSE /\ pods' = [pods EXCEPT ![w] = content]
            /\ done' = [done EXCEPT ![w] = @ \union {<<cur, lastUpdated>>}]
            /\ by' = [by EXCEPT ![w] = <<cur, lastUpdated>>]

\* Mutant of UpdateWorkload: the update carries no resource version.
UpdateWorkloadBlind(w) ==
    \E v \in Times :
        /\ pc = "update" /\ <<w, v>> \in todo
        /\ Stamp(w)
        /\ todo' = todo \ {<<w, v>>}
        /\ UNCHANGED <<now, certVars, cacheVars, queue, pc, kind, cur,
                       lastUpdated, timeNow, stored, bounds>>

\* Mutant of UpdateWorkload: a refused update is skipped.
UpdateWorkloadSkips(w) ==
    \E v \in Times :
        /\ pc = "update" /\ <<w, v>> \in todo
        /\ IF v = label[w] THEN Stamp(w) ELSE UNCHANGED <<label, pods, done, by>>
        /\ todo' = todo \ {<<w, v>>}
        /\ UNCHANGED <<now, certVars, cacheVars, queue, pc, kind, cur,
                       lastUpdated, timeNow, stored, bounds>>

\* Only the operator changes workloads here, so that the label stands for the
\* resource version.  An update of an old version v is refused, and ends
\* restart with an error.
UpdateWorkload(w) ==
    \E v \in Times :
        /\ pc = "update" /\ <<w, v>> \in todo
        /\ \/ /\ v = label[w]
              /\ Stamp(w)
              /\ todo' = todo \ {<<w, v>>}
              /\ UNCHANGED <<queue, pc, kind, cur, lastUpdated, timeNow>>
           \/ /\ v # label[w]
              /\ Finish(TRUE)
              /\ UNCHANGED <<label, pods, done, by>>
        /\ UNCHANGED <<now, certVars, cacheVars, stored, bounds>>

\* All workloads of this kind are done: deployments come first, then
\* statefulsets, then daemonsets.
NextKind ==
    /\ pc = "update" /\ todo = {}
    /\ \/ /\ kind < 3
          /\ kind' = kind + 1
          /\ pc' = "list"
          /\ UNCHANGED <<queue, cur, lastUpdated, timeNow, todo>>
       \/ kind = 3 /\ Finish(FALSE)
    /\ UNCHANGED <<now, certVars, cacheVars, label, pods, history, bounds>>

\* Any call of restart may fail, which ends it with an error.
Fault ==
    /\ pc # "idle"
    /\ faults < MaxFaults
    /\ faults' = faults + 1
    /\ Finish(TRUE)
    /\ UNCHANGED <<now, certVars, cacheVars, label, pods, history, renewals, crashes>>

\* The operator ends and starts again.  Its caches are filled anew, and the
\* create events that come with it lead to no request.
Crash ==
    /\ crashes < MaxCrashes
    /\ crashes' = crashes + 1
    /\ Idle /\ queue' = {}
    /\ certSeen' = issued /\ secSeen' = content /\ labelSeen' = label
    /\ UNCHANGED <<now, certVars, label, pods, history, renewals, faults>>

-----------------------------------------------------------------------------
CertManager ==
    \E c \in Certs : Sign(c) \/ StoreSecret(c) \/ SetStatus(c) \/ DeleteCertificate(c)

See == \/ \E c \in Certs : SeeSecret(c) \/ SeeCertificate(c)
       \/ \E w \in Workloads : SeeWorkload(w)

Worker == List \/ NextKind \/ \E w \in Workloads : UpdateWorkload(w)

Next ==
    \/ Tick
    \/ CertManager
    \/ See
    \/ \E c \in Certs : Drop(c) \/ Reconcile(c)
    \/ Worker
    \/ Fault
    \/ Crash

Spec == Init /\ [][Next]_vars

\* cert-manager creates a secret that is missing; an old one it may never replace,
\* but where the clock ends before the Timeout it does.
MustStore(c) == content[c] = 0 \/ signed[c] + Timeout > MaxTime

CertManagerDue == \E c \in Certs : SetStatus(c) \/ (MustStore(c) /\ StoreSecret(c))

\* Time passes, cert-manager sets the status, the informers deliver (each has only
\* finitely much to do, so that none is held up by another), the worker works off
\* its queue.
Fairness ==
    /\ WF_vars(Tick) /\ WF_vars(CertManagerDue) /\ WF_vars(See) /\ WF_vars(Worker)
    /\ \A c \in Certs : WF_vars(Drop(c)) /\ SF_vars(Reconcile(c))

FairSpec == Spec /\ Fairness

-----------------------------------------------------------------------------
(***************************************************************************)
(* Properties                                                              *)
(***************************************************************************)

\* Every variable has its type; in particular only a Certificate with a status is
\* ever restarted for (Reconcile).
TypeOK ==
    /\ now \in Times
    /\ signed \in [Certs -> Times] /\ content \in [Certs -> Times]
    /\ issued \in [Certs -> Times \union {Gone}]
    /\ certSeen \in [Certs -> Times \union {Gone}]
    /\ secSeen \in [Certs -> Times]
    /\ label \in [Workloads -> Times] /\ labelSeen \in [Workloads -> Times]
    /\ pods \in [Workloads -> [Certs -> Times]]
    /\ queue \subseteq Certs
    /\ pc \in {"idle", "list", "update"} /\ kind \in 1 .. 3
    /\ cur \in (IF pc = "idle" THEN {NoCert} ELSE Certs)
    /\ lastUpdated \in Times /\ timeNow \in Times
    /\ todo \subseteq Workloads \X Times
    /\ stored \in [Certs -> Times]
    /\ done \in [Workloads -> SUBSET (Certs \X Times)]
    /\ by \in [Workloads -> (Certs \union {NoCert}) \X Times]
    /\ renewals \in 0 .. MaxRenewals /\ faults \in 0 .. MaxFaults
    /\ crashes \in 0 .. MaxCrashes

\* A workload w must be restarted for the renewals of c.
Restarts(w, c) == w \notin NoRestart /\ c \in Uses[w]

\* Skipping a workload whose label is later than NotBefore (restartedTime.After in
\* getDeploymentsNeedUpdate) is sound: its pods have read that certificate,
\* whichever renewal they were restarted for.  One case escapes it, and then the
\* skipped pods keep the old certificate: their restart fell between NotBefore
\* and the write of the secret.  If it was for this very renewal, it came after
\* the Timeout (verifySecretReady); a restart for another one is not held back.
SkipSound ==
    \A w \in Workloads, c \in Certs :
        label[w] > content[c] =>
            \/ pods[w][c] = content[c]
            \/ /\ label[w] <= stored[c]
               /\ by[w] = <<c, content[c]>> => label[w] >= content[c] + Timeout

\* No step restarts a workload a second time for the same renewal, retries after an
\* error and an outdated cache included (restart), unless the first time was in
\* the very second of NotBefore: a label of that second is not After it.
NoDoubleRestart ==
    [][\A w \in Workloads :
           label'[w] # label[w] /\ <<cur, lastUpdated>> \in done[w] => label[w] = lastUpdated]_vars

\* Nothing is left to do for the pod-refresh controller.
Quiet == pc = "idle" /\ queue = {} /\ certSeen = issued

\* At rest every workload was restarted no earlier than the NotBefore of each
\* of its certificates: no event, retry or kind of workload is forgotten.  An
\* operator that has restarted may have lost a request: that is EventuallyFresh.
Stamped ==
    Quiet /\ crashes = 0 => \A w \in Workloads, c \in Certs :
        Restarts(w, c) /\ issued[c] > 0 => label[w] >= issued[c]

\* Once renewals stop, that is so for good: neither a secret that appears late
\* nor one that stays old for ever keeps a workload waiting (verifySecretReady),
\* unless the operator restarts in between.
EventuallyStamped ==
    <>[](crashes = 0 => \A w \in Workloads, c \in Certs :
            Restarts(w, c) /\ issued[c] > 0 => label[w] >= issued[c])

\* "It will edit the deployments, statefulsets, and daemonsets that use the
\* secret being updated, which will trigger the pod to be restarted": once
\* renewals stop, all pods have read the certificates in the secrets.
EventuallyFresh ==
    <>[](\A w \in Workloads, c \in Certs :
            Restarts(w, c) /\ issued[c] > 0 => pods[w][c] = content[c])

=============================================================================
