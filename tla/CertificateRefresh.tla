-------------------------- MODULE CertificateRefresh --------------------------
(***************************************************************************)
(* Two controllers that keep leaf certificates in step with their CA: the  *)
(* certificate-refresh controller deletes every leaf secret whose ca.crt   *)
(* is not the CA's tls.crt, so that cert-manager issues it anew, and the   *)
(* certificate-v1-label controller gives every secret the label without    *)
(* which the operator's cache, and so the first controller, cannot see it. *)
(*                                                                         *)
(* A certificate of the CA is its version; a leaf secret is the version of *)
(* the CA in its ca.crt.                                                   *)
(***************************************************************************)
EXTENDS Integers, FiniteSets

CONSTANTS
    Leaves,     \* leaf Certificates of the CA's issuers, and their secrets
    Byo,        \* the CA secret has no Certificate: it was brought by the user
    Slow,       \* the CA secret may stay old for longer than the timeout
    MaxCA,      \* bound: versions of the CA
    MaxFaults,  \* bound: API errors
    MaxCrashes  \* bound: restarts of the operator

ASSUME CertificateAssumption ==
    /\ Byo \in BOOLEAN /\ Slow \in BOOLEAN
    /\ MaxCA \in Nat \ {0} /\ MaxFaults \in Nat /\ MaxCrashes \in Nat

VARIABLES
    ca,           \* API server: version in the CA secret
    caStatus,     \* API server: version in the CA Certificate's status
    leaf,         \* API server: version in each leaf secret, 0 if it is absent
    labelled,     \* API server: the leaf secrets with SecretWatchLabel
    signing,      \* cert-manager: version a new leaf is signed with, 0 if none
    caSeen, caStatusSeen,  \* the operator's caches
    leafSeen,     \* the operator's cache: 0 if absent or not labelled
    queue,        \* the CA secret is on the queue of certificate-refresh
    pc,           \* certificate-refresh: "idle" or "leaves"
    tls,          \* the tls.crt it compares with
    todo,         \* the leaf certificates it has yet to look at
    errs,         \* deletionErrors is not empty
    labelQueue,   \* leaf Certificates with an event or a request for
                  \* certificate-v1-label
    held,         \* leaf whose secret it has read, as a set of at most one
    heldStale,    \* that secret has changed since
    faults, crashes

cmVars      == <<ca, caStatus, leaf, labelled, signing>>
secretCache == <<caSeen, leafSeen>>
refreshVars == <<queue, pc, tls, todo, errs>>
labelVars   == <<labelQueue, held, heldStale>>
bounds      == <<faults, crashes>>
vars == <<ca, caStatus, leaf, labelled, signing, caSeen, caStatusSeen, leafSeen,
          queue, pc, tls, todo, errs, labelQueue, held, heldStale,
          faults, crashes>>

Init ==
    /\ ca = 1 /\ caStatus = 1 /\ caSeen = 1 /\ caStatusSeen = 1
    /\ leaf = [l \in Leaves |-> 0] /\ leafSeen = leaf /\ signing = leaf
    /\ labelled = {}
    /\ queue = TRUE /\ pc = "idle" /\ tls = 0 /\ todo = {} /\ errs = FALSE
    /\ labelQueue = Leaves /\ held = {} /\ heldStale = FALSE
    /\ faults = 0 /\ crashes = 0

-----------------------------------------------------------------------------
(***************************************************************************)
(* cert-manager                                                            *)
(***************************************************************************)

RenewCA ==
    /\ ca < MaxCA
    /\ ca' = ca + 1
    /\ UNCHANGED <<caStatus, leaf, labelled, signing, secretCache, caStatusSeen,
                   refreshVars, labelVars, bounds>>

SetCAStatus ==
    /\ caStatus # ca
    /\ caStatus' = ca
    /\ UNCHANGED <<ca, leaf, labelled, signing, secretCache, caStatusSeen,
                   refreshVars, labelVars, bounds>>

\* A missing leaf secret is issued anew, by the CA of this moment ...
SignLeaf(l) ==
    /\ leaf[l] = 0 /\ signing[l] = 0
    /\ signing' = [signing EXCEPT ![l] = ca]
    /\ UNCHANGED <<ca, caStatus, leaf, labelled, secretCache, caStatusSeen,
                   refreshVars, labelVars, bounds>>

\* ... and written later, as a new secret, without SecretWatchLabel.  The
\* status of its Certificate is updated, an event for certificate-v1-label.
StoreLeaf(l) ==
    /\ signing[l] # 0
    /\ leaf' = [leaf EXCEPT ![l] = signing[l]]
    /\ signing' = [signing EXCEPT ![l] = 0]
    /\ labelQueue' = labelQueue \union {l}
    /\ UNCHANGED <<ca, caStatus, labelled, secretCache, caStatusSeen,
                   refreshVars, held, heldStale, bounds>>

-----------------------------------------------------------------------------
(***************************************************************************)
(* The operator's caches.  Secrets come from one informer, in the order in *)
(* which they changed.                                                     *)
(***************************************************************************)

\* NewCSCache: the cache holds only the secrets with SecretWatchLabel.
Visible == [l \in Leaves |-> IF l \in labelled THEN leaf[l] ELSE 0]

\* An event of the CA secret is a request.  An event of a leaf secret is one
\* that Reconcile disregards, since the leaf is no CA.
SeeSecrets ==
    /\ caSeen # ca \/ leafSeen # Visible
    /\ caSeen' = ca /\ leafSeen' = Visible
    /\ queue' = (queue \/ caSeen # ca)
    /\ UNCHANGED <<cmVars, caStatusSeen, pc, tls, todo, errs, labelVars, bounds>>

SeeCAStatus ==
    /\ caStatusSeen # caStatus
    /\ caStatusSeen' = caStatus
    /\ UNCHANGED <<cmVars, secretCache, refreshVars, labelVars, bounds>>

\* The informer's resync: an event for every secret in the cache.
Resync ==
    /\ ~queue
    /\ queue' = TRUE
    /\ UNCHANGED <<cmVars, secretCache, caStatusSeen, pc, tls, todo, errs,
                   labelVars, bounds>>

-----------------------------------------------------------------------------
(***************************************************************************)
(* certificate-refresh                                                     *)
(***************************************************************************)

\* verifyCASecretUpdated: an old CA secret is waited for, but not for ever.
verifyCASecretUpdated == Byo \/ caSeen >= caStatusSeen \/ Slow

\* A request that is not ready is put back with a delay: nothing changes.
Reconcile ==
    /\ pc = "idle" /\ queue
    /\ verifyCASecretUpdated
    /\ queue' = FALSE
    /\ tls' = caSeen
    /\ todo' = Leaves
    /\ pc' = "leaves"
    /\ UNCHANGED <<cmVars, secretCache, caStatusSeen, errs, labelVars, bounds>>

\* Mutant of Mismatch: a leaf with an older CA is left alone.
MismatchNewer(l) == leafSeen[l] > tls

\* The leaf secret, where the cache has one, carries another CA.
Mismatch(l) == leafSeen[l] # 0 /\ leafSeen[l] # tls

\* The leaf's secret goes, whatever it now holds; it may be gone already.
DeleteLeaf(l) ==
    /\ leaf' = [leaf EXCEPT ![l] = 0]
    /\ labelled' = labelled \ {l}
    /\ heldStale' = (heldStale \/ (l \in held /\ leaf[l] # 0))

\* One turn of the loop.  An error of Delete is remembered, the loop goes on.
CheckLeaf(l) ==
    /\ pc = "leaves" /\ l \in todo
    /\ todo' = todo \ {l}
    /\ \/ /\ ~Mismatch(l)
          /\ UNCHANGED <<leaf, labelled, heldStale, errs, faults>>
       \/ /\ Mismatch(l)
          /\ DeleteLeaf(l)
          /\ UNCHANGED <<errs, faults>>
       \/ /\ Mismatch(l)
          /\ faults < MaxFaults
          /\ faults' = faults + 1
          /\ errs' = TRUE
          /\ UNCHANGED <<leaf, labelled, heldStale>>
    /\ UNCHANGED <<ca, caStatus, signing, secretCache, caStatusSeen, queue, pc,
                   tls, labelQueue, held, crashes>>

\* Reconcile returns: an error puts the request back on the queue.
Finish(err) ==
    /\ pc' = "idle" /\ tls' = 0 /\ todo' = {} /\ errs' = FALSE
    /\ queue' = (queue \/ err)

ReconcileDone ==
    /\ pc = "leaves" /\ todo = {}
    /\ Finish(errs)
    /\ UNCHANGED <<cmVars, secretCache, caStatusSeen, labelVars, bounds>>

\* An error of any other call (the issuers, the leaf certificates, a leaf
\* secret) ends the reconcile.
ReconcileFault ==
    /\ pc = "leaves"
    /\ faults < MaxFaults
    /\ faults' = faults + 1
    /\ Finish(TRUE)
    /\ UNCHANGED <<cmVars, secretCache, caStatusSeen, labelVars, crashes>>

-----------------------------------------------------------------------------
(***************************************************************************)
(* certificate-v1-label                                                    *)
(***************************************************************************)

\* getSecret reads the secret live.  A missing one ends the reconcile.
LabelRead(l) ==
    /\ held = {} /\ l \in labelQueue
    /\ labelQueue' = labelQueue \ {l}
    /\ held' = IF leaf[l] = 0 THEN {} ELSE {l}
    /\ heldStale' = FALSE
    /\ UNCHANGED <<cmVars, secretCache, caStatusSeen, refreshVars, bounds>>

\* Mutant of LabelWrite: an error is logged and not returned.
LabelWriteOnce ==
    /\ held # {}
    /\ held' = {} /\ heldStale' = FALSE
    /\ \/ /\ labelled' = IF heldStale THEN labelled ELSE labelled \union held
          /\ UNCHANGED faults
       \/ /\ faults < MaxFaults
          /\ faults' = faults + 1
          /\ UNCHANGED labelled
    /\ UNCHANGED <<ca, caStatus, leaf, signing, secretCache, caStatusSeen,
                   refreshVars, labelQueue, crashes>>

\* Mutant of LabelWrite: the update carries no resource version.
LabelWriteBlind ==
    /\ held # {}
    /\ held' = {} /\ heldStale' = FALSE
    /\ labelled' = labelled \union held
    /\ UNCHANGED <<ca, caStatus, leaf, signing, secretCache, caStatusSeen,
                   refreshVars, labelQueue, bounds>>

\* updateSecret: refused if the secret has changed, and may fail otherwise;
\* either error puts the request back on the queue.
LabelWrite ==
    /\ held # {}
    /\ held' = {} /\ heldStale' = FALSE
    /\ \/ /\ ~heldStale
          /\ labelled' = labelled \union held
          /\ UNCHANGED <<labelQueue, faults>>
       \/ /\ heldStale
          /\ labelQueue' = labelQueue \union held
          /\ UNCHANGED <<labelled, faults>>
       \/ /\ faults < MaxFaults
          /\ faults' = faults + 1
          /\ labelQueue' = labelQueue \union held
          /\ UNCHANGED labelled
    /\ UNCHANGED <<ca, caStatus, leaf, signing, secretCache, caStatusSeen,
                   refreshVars, crashes>>

\* The operator ends and starts again: its caches are filled anew, with a
\* create event for the CA secret and for every Certificate.
Crash ==
    /\ crashes < MaxCrashes
    /\ crashes' = crashes + 1
    /\ Finish(TRUE)
    /\ caSeen' = ca /\ leafSeen' = Visible /\ caStatusSeen' = caStatus
    /\ labelQueue' = Leaves
    /\ held' = {} /\ heldStale' = FALSE
    /\ UNCHANGED <<cmVars, faults>>

-----------------------------------------------------------------------------
Refresh == Reconcile \/ ReconcileDone \/ \E l \in Leaves : CheckLeaf(l)

Next ==
    \/ RenewCA \/ SetCAStatus
    \/ \E l \in Leaves : SignLeaf(l) \/ StoreLeaf(l)
    \/ SeeSecrets \/ SeeCAStatus \/ Resync
    \/ Refresh \/ ReconcileFault
    \/ \E l \in Leaves : LabelRead(l)
    \/ LabelWrite
    \/ Crash

Spec == Init /\ [][Next]_vars

\* cert-manager issues what is missing, the informers deliver and resync, and
\* each controller works off its queue.  The status of the CA's Certificate need
\* not follow its secret.
Fairness ==
    /\ WF_vars(SeeSecrets) /\ WF_vars(Resync)
    /\ WF_vars(Refresh) /\ WF_vars(LabelWrite)
    /\ \A l \in Leaves : /\ WF_vars(SignLeaf(l) \/ StoreLeaf(l))
                         /\ SF_vars(LabelRead(l))

FairSpec == Spec /\ Fairness

-----------------------------------------------------------------------------
(***************************************************************************)
(* Properties                                                              *)
(***************************************************************************)

\* Every variable has its type; a label belongs to a secret that exists
\* (updateSecret never brings a deleted secret back).
TypeOK ==
    /\ ca \in 1 .. MaxCA /\ caStatus \in 1 .. MaxCA
    /\ caSeen \in 1 .. MaxCA /\ caStatusSeen \in 1 .. MaxCA
    /\ leaf \in [Leaves -> 0 .. MaxCA] /\ leafSeen \in [Leaves -> 0 .. MaxCA]
    /\ signing \in [Leaves -> 0 .. MaxCA]
    /\ labelled \subseteq {l \in Leaves : leaf[l] # 0}
    /\ queue \in BOOLEAN /\ pc \in {"idle", "leaves"} /\ tls \in 0 .. MaxCA
    /\ todo \subseteq Leaves /\ errs \in BOOLEAN
    /\ labelQueue \subseteq Leaves
    /\ held \subseteq Leaves /\ Cardinality(held) <= 1 /\ heldStale \in BOOLEAN
    /\ faults \in 0 .. MaxFaults /\ crashes \in 0 .. MaxCrashes

\* No leaf secret is left invisible: when the label controller has nothing to
\* do, every leaf secret carries SecretWatchLabel, whatever deletions and
\* renewals crossed its read and its update (V1AddLabelReconciler.Reconcile).
WatchedAtRest ==
    labelQueue = {} /\ held = {}
        => \A l \in Leaves : leaf[l] # 0 => l \in labelled

\* Once the CA is no longer renewed, every leaf ends up with a secret issued by
\* the present CA and keeps it: no leaf is missed while it was absent, and the
\* deletions come to an end (CertificateRefreshReconciler.Reconcile).
EventuallyChained == <>[](\A l \in Leaves : leaf[l] = ca)

=============================================================================
