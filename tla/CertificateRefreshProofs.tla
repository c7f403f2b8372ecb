---------------------- MODULE CertificateRefreshProofs ----------------------
(***************************************************************************)
(* Theorems about CertificateRefresh, for any set of leaf certificates,    *)
(* any CA and any bounds: its types, with no label on a secret that does   *)
(* not exist, and no leaf secret left without the label.                   *)
(***************************************************************************)
EXTENDS CertificateRefresh, FiniteSetTheorems, TLAPS

\* cert-manager signs only for a secret that is missing; a secret that was read to
\* be labelled and is gone since makes the read stale.
HeldInv ==
    \A l \in Leaves : /\ signing[l] # 0 => leaf[l] = 0
                      /\ l \in held /\ leaf[l] = 0 => heldStale

\* A leaf secret without the label is one the label controller still has to do
\* with.
QueuedInv ==
    \A l \in Leaves : leaf[l] # 0 => l \in labelled \cup labelQueue \cup held

\* The inductive invariant.
Inv == TypeOK /\ HeldInv /\ QueuedInv

-----------------------------------------------------------------------------

\* At most one secret is held at a time.
LEMMA HeldSmall ==
    /\ Cardinality({}) <= 1
    /\ \A l \in Leaves : Cardinality({l}) <= 1
<1>1. Cardinality({}) = 0  BY FS_EmptySet
<1>2. \A l \in Leaves : Cardinality({l}) = 1  BY FS_Singleton
<1>. QED  BY <1>1, <1>2

\* What the label controller can see is a version of the CA or nothing.
LEMMA VisibleType == ASSUME TypeOK PROVE Visible \in [Leaves -> 0 .. MaxCA]
BY CertificateAssumption DEF TypeOK, Visible

\* The values of a controller at rest.
LEMMA FinishType ==
    ASSUME NEW err \in BOOLEAN, Finish(err)
    PROVE  /\ pc' = "idle" /\ tls' \in 0 .. MaxCA /\ todo' = {}
           /\ errs' \in BOOLEAN /\ queue' \in BOOLEAN
<1>1. 0 \in 0 .. MaxCA  BY CertificateAssumption
<1>2. queue' \in BOOLEAN /\ errs' \in BOOLEAN  BY DEF Finish
<1>. QED  BY <1>1, <1>2 DEF Finish

\* The start.
LEMMA InitInv == Init => Inv
<1>. SUFFICES ASSUME Init PROVE Inv
  OBVIOUS
<1>. USE CertificateAssumption DEF Init
<1>1. TypeOK
  <2>1. 0 \in 0 .. MaxCA /\ 1 \in 1 .. MaxCA /\ 0 \in 0 .. MaxFaults /\ 0 \in 0 .. MaxCrashes
    OBVIOUS
  <2>2. queue \in BOOLEAN /\ errs \in BOOLEAN /\ heldStale \in BOOLEAN
    OBVIOUS
  <2>3. Cardinality(held) <= 1
    BY HeldSmall
  <2>. QED  BY <2>1, <2>2, <2>3 DEF TypeOK
<1>2. HeldInv /\ QueuedInv
  BY DEF HeldInv, QueuedInv
<1>. QED  BY <1>1, <1>2 DEF Inv

\* The steps of cert-manager.
LEMMA CertManagerInv ==
    ASSUME Inv, RenewCA \/ SetCAStatus \/ \E l \in Leaves : SignLeaf(l) \/ StoreLeaf(l)
    PROVE  Inv'
<1>. USE CertificateAssumption DEF secretCache, refreshVars, labelVars, bounds
<1>1. CASE RenewCA
  BY <1>1 DEF RenewCA, Inv, TypeOK, HeldInv, QueuedInv
<1>2. CASE SetCAStatus
  BY <1>2 DEF SetCAStatus, Inv, TypeOK, HeldInv, QueuedInv
<1>3. ASSUME NEW l \in Leaves, SignLeaf(l)
      PROVE  Inv'
  <2>1. signing' \in [Leaves -> 0 .. MaxCA]
    BY <1>3 DEF SignLeaf, Inv, TypeOK
  <2>2. TypeOK'
    BY <1>3, <2>1 DEF SignLeaf, Inv, TypeOK
  <2>3. HeldInv' /\ QueuedInv'
    BY <1>3 DEF SignLeaf, Inv, TypeOK, HeldInv, QueuedInv
  <2>. QED  BY <2>2, <2>3 DEF Inv
<1>4. ASSUME NEW l \in Leaves, StoreLeaf(l)
      PROVE  Inv'
  <2>1. leaf' \in [Leaves -> 0 .. MaxCA] /\ signing' \in [Leaves -> 0 .. MaxCA]
    BY <1>4 DEF StoreLeaf, Inv, TypeOK
  <2>2. \A m \in Leaves : leaf[m] # 0 => leaf'[m] # 0
    BY <1>4 DEF StoreLeaf, Inv, TypeOK
  <2>3. TypeOK'
    BY <1>4, <2>1, <2>2 DEF StoreLeaf, Inv, TypeOK
  <2>4. HeldInv' /\ QueuedInv'
    BY <1>4 DEF StoreLeaf, Inv, TypeOK, HeldInv, QueuedInv
  <2>. QED  BY <2>3, <2>4 DEF Inv
<1>. QED  BY <1>1, <1>2, <1>3, <1>4

\* The caches.
LEMMA CacheInv ==
    ASSUME Inv, SeeSecrets \/ SeeCAStatus \/ Resync
    PROVE  Inv'
<1>. USE DEF cmVars, secretCache, refreshVars, labelVars, bounds
<1>1. CASE SeeSecrets
  BY <1>1, VisibleType DEF SeeSecrets, Inv, TypeOK, HeldInv, QueuedInv
<1>2. CASE SeeCAStatus
  BY <1>2 DEF SeeCAStatus, Inv, TypeOK, HeldInv, QueuedInv
<1>3. CASE Resync
  BY <1>3 DEF Resync, Inv, TypeOK, HeldInv, QueuedInv
<1>. QED  BY <1>1, <1>2, <1>3

\* certificate-refresh, which may delete a secret that is held.
LEMMA RefreshInv ==
    ASSUME Inv, Refresh \/ ReconcileFault
    PROVE  Inv'
<1>. USE DEF cmVars, secretCache, labelVars, bounds
<1>1. CASE Reconcile
  <2>1. queue' \in BOOLEAN /\ tls' = caSeen /\ todo' = Leaves /\ pc' = "leaves"
    BY <1>1 DEF Reconcile
  <2>2. UNCHANGED <<cmVars, secretCache, caStatusSeen, errs, labelVars, bounds>>
    BY <1>1 DEF Reconcile
  <2>3. tls' \in 0 .. MaxCA
    BY <2>1, CertificateAssumption DEF Inv, TypeOK
  <2>. QED  BY <2>1, <2>2, <2>3 DEF Inv, TypeOK, HeldInv, QueuedInv
<1>2. CASE ReconcileDone
  BY <1>2, FinishType DEF ReconcileDone, Inv, TypeOK, HeldInv, QueuedInv
<1>3. CASE ReconcileFault
  <2>1. faults' \in 0 .. MaxFaults
    BY <1>3, CertificateAssumption DEF ReconcileFault, Inv, TypeOK
  <2>. QED  BY <1>3, <2>1, FinishType DEF ReconcileFault, Inv, TypeOK, HeldInv, QueuedInv
<1>4. ASSUME NEW l \in Leaves, CheckLeaf(l)
      PROVE  Inv'
  <2>0. todo' \subseteq Leaves
    BY <1>4 DEF CheckLeaf, Inv, TypeOK
  <2>1. CASE UNCHANGED <<leaf, labelled, heldStale, errs, faults>>
    BY <1>4, <2>0, <2>1 DEF CheckLeaf, Inv, TypeOK, HeldInv, QueuedInv
  <2>2. CASE DeleteLeaf(l) /\ UNCHANGED <<errs, faults>>
    <3>1. /\ leaf' \in [Leaves -> 0 .. MaxCA] /\ heldStale' \in BOOLEAN
          /\ labelled' \subseteq {m \in Leaves : leaf'[m] # 0}
      BY <2>2, CertificateAssumption DEF DeleteLeaf, Inv, TypeOK
    <3>2. TypeOK'
      BY <1>4, <2>0, <2>2, <3>1 DEF CheckLeaf, Inv, TypeOK
    <3>3. HeldInv'
      BY <1>4, <2>2 DEF CheckLeaf, DeleteLeaf, Inv, TypeOK, HeldInv
    <3>4. QueuedInv'
      BY <1>4, <2>2 DEF CheckLeaf, DeleteLeaf, Inv, TypeOK, QueuedInv
    <3>. QED  BY <3>2, <3>3, <3>4 DEF Inv
  <2>3. CASE /\ faults < MaxFaults /\ faults' = faults + 1 /\ errs' = TRUE
             /\ UNCHANGED <<leaf, labelled, heldStale>>
    <3>1. faults' \in 0 .. MaxFaults /\ errs' \in BOOLEAN
      BY <2>3, CertificateAssumption DEF Inv, TypeOK
    <3>2. UNCHANGED <<ca, caStatus, signing, secretCache, caStatusSeen, queue, pc, tls, labelQueue,
                      held, crashes, leaf, labelled, heldStale>>
      BY <1>4, <2>3 DEF CheckLeaf
    <3>. QED  BY <2>0, <3>1, <3>2 DEF Inv, TypeOK, HeldInv, QueuedInv
  <2>. QED  BY <1>4, <2>1, <2>2, <2>3 DEF CheckLeaf
<1>. QED  BY <1>1, <1>2, <1>3, <1>4 DEF Refresh

\* certificate-v1-label: a secret leaves its queue only into its hands, and its
\* hands only with the label or back into the queue.
LEMMA LabelInv ==
    ASSUME Inv, LabelWrite \/ \E l \in Leaves : LabelRead(l)
    PROVE  Inv'
<1>. USE DEF cmVars, secretCache, refreshVars, bounds
<1>1. ASSUME NEW l \in Leaves, LabelRead(l)
      PROVE  Inv'
  <2>1. /\ labelQueue' \subseteq Leaves /\ held' \subseteq Leaves /\ Cardinality(held') <= 1
        /\ heldStale' \in BOOLEAN
    BY <1>1, HeldSmall DEF LabelRead, Inv, TypeOK
  <2>2. UNCHANGED <<cmVars, secretCache, caStatusSeen, refreshVars, bounds>>
    BY <1>1 DEF LabelRead
  <2>3. TypeOK'
    BY <2>1, <2>2 DEF Inv, TypeOK
  <2>4. HeldInv' /\ QueuedInv'
    BY <1>1 DEF LabelRead, Inv, HeldInv, QueuedInv
  <2>. QED  BY <2>3, <2>4 DEF Inv
<1>2. CASE LabelWrite
  <2>1. /\ held' = {} /\ Cardinality(held') <= 1 /\ heldStale' \in BOOLEAN
        /\ labelled' \subseteq {l \in Leaves : leaf[l] # 0} /\ labelQueue' \subseteq Leaves
    BY <1>2, HeldSmall DEF LabelWrite, Inv, TypeOK, HeldInv
  <2>2. faults' \in 0 .. MaxFaults
    BY <1>2, CertificateAssumption DEF LabelWrite, Inv, TypeOK
  <2>3. UNCHANGED <<ca, caStatus, leaf, signing, secretCache, caStatusSeen, refreshVars, crashes>>
    BY <1>2 DEF LabelWrite
  <2>4. TypeOK'
    BY <2>1, <2>2, <2>3 DEF Inv, TypeOK
  <2>5. HeldInv'
    BY <2>1, <2>3 DEF Inv, HeldInv
  <2>6. labelled \cup labelQueue \cup held \subseteq labelled' \cup labelQueue'
    BY <1>2 DEF LabelWrite
  <2>7. QueuedInv'
    BY <2>3, <2>6 DEF Inv, QueuedInv
  <2>. QED  BY <2>4, <2>5, <2>7 DEF Inv
<1>. QED  BY <1>1, <1>2

\* A restart of the operator looks at every Certificate again.
LEMMA CrashInv ==
    ASSUME Inv, Crash
    PROVE  Inv'
<1>. USE DEF Crash, cmVars
<1>1. held' = {} /\ Cardinality(held') <= 1
  BY HeldSmall
<1>2. crashes' \in 0 .. MaxCrashes
  <2>1. crashes < MaxCrashes /\ crashes' = crashes + 1  OBVIOUS
  <2>. QED  BY <2>1, CertificateAssumption DEF Inv, TypeOK
<1>3. leafSeen' \in [Leaves -> 0 .. MaxCA]
  BY VisibleType DEF Inv
<1>4. TypeOK'
  <2>1. heldStale' \in BOOLEAN /\ labelQueue' = Leaves /\ caSeen' = ca /\ caStatusSeen' = caStatus
    OBVIOUS
  <2>2. /\ pc' = "idle" /\ tls' \in 0 .. MaxCA /\ todo' = {} /\ errs' \in BOOLEAN /\ queue' \in BOOLEAN
    BY FinishType
  <2>3. UNCHANGED <<cmVars, faults>>
    OBVIOUS
  <2>. QED  BY <1>1, <1>2, <1>3, <2>1, <2>2, <2>3 DEF Inv, TypeOK
<1>5. HeldInv' /\ QueuedInv'
  BY DEF Inv, HeldInv, QueuedInv
<1>. QED  BY <1>4, <1>5 DEF Inv

\* The invariant holds in every state.
LEMMA Invariance == Spec => []Inv
<1>1. ASSUME Inv, UNCHANGED vars PROVE Inv'
  BY <1>1 DEF vars, Inv, TypeOK, HeldInv, QueuedInv
<1>2. Inv /\ [Next]_vars => Inv'
  BY <1>1, CertManagerInv, CacheInv, RefreshInv, LabelInv, CrashInv DEF Next
<1>. QED  BY <1>2, InitInv, PTL DEF Spec

\* Types; in particular updateSecret never labels a secret that is gone, and so
\* never brings one back.
THEOREM TypeCorrect == Spec => []TypeOK
BY Invariance, PTL DEF Inv

\* When the label controller is at rest no leaf secret is without the label, so
\* that certificate-refresh can see them all, whatever deletions, renewals,
\* errors and restarts crossed its reads and its updates.
THEOREM NoSecretIsInvisible == Spec => []WatchedAtRest
<1>1. Inv => WatchedAtRest
  BY DEF Inv, QueuedInv, WatchedAtRest
<1>. QED  BY <1>1, Invariance, PTL
=============================================================================
