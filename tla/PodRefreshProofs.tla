-------------------------- MODULE PodRefreshProofs --------------------------
(***************************************************************************)
(* Theorems about PodRefresh, for any certificates, workloads and times    *)
(* and any bounds: its types, in which cases a workload is skipped that    *)
(* has not read the certificate, that none is restarted twice for one      *)
(* renewal later than in its first second, and that none is forgotten.     *)
(***************************************************************************)
EXTENDS PodRefresh, TLAPS

-----------------------------------------------------------------------------
(***************************************************************************)
(* Type correctness                                                        *)
(***************************************************************************)

\* The start.
LEMMA InitType == Init => TypeOK
<1>. SUFFICES ASSUME Init PROVE TypeOK
  OBVIOUS
<1>. USE TimeAssumption DEF Init, Times
<1>1. signed \in [Certs -> Times]
  OBVIOUS
<1>2. label \in [Workloads -> Times]
  OBVIOUS
<1>3. pods \in [Workloads -> [Certs -> Times]]
  BY <1>1
<1>4. /\ now \in Times /\ lastUpdated \in Times /\ timeNow \in Times
      /\ renewals \in 0 .. MaxRenewals /\ faults \in 0 .. MaxFaults /\ crashes \in 0 .. MaxCrashes
  OBVIOUS
<1>5. by \in [Workloads -> (Certs \union {NoCert}) \X Times]
  OBVIOUS
<1>. QED  BY <1>1, <1>2, <1>3, <1>4, <1>5 DEF TypeOK

\* The worker at rest.
LEMMA IdleType ==
    ASSUME TypeOK, Idle
    PROVE  /\ pc' = "idle" /\ kind' \in 1 .. 3 /\ cur' = NoCert
           /\ lastUpdated' \in Times /\ timeNow' \in Times /\ todo' = {}
BY TimeAssumption DEF TypeOK, Idle, Times

\* The end of a reconcile.
LEMMA FinishType ==
    ASSUME TypeOK, pc # "idle", NEW err, Finish(err)
    PROVE  queue' \subseteq Certs
BY DEF TypeOK, Finish

\* A restart of a workload.
LEMMA StampType ==
    ASSUME TypeOK, pc # "idle", NEW w \in Workloads, Stamp(w)
    PROVE  /\ label' \in [Workloads -> Times]
           /\ pods' \in [Workloads -> [Certs -> Times]]
           /\ done' \in [Workloads -> SUBSET (Certs \X Times)]
           /\ by' \in [Workloads -> (Certs \union {NoCert}) \X Times]
<1>1. label' \in [Workloads -> Times]
  BY DEF TypeOK, Stamp
<1>2. pods' \in [Workloads -> [Certs -> Times]]
  BY DEF TypeOK, Stamp
<1>3. <<cur, lastUpdated>> \in Certs \X Times
  BY DEF TypeOK
<1>. /\ done \in [Workloads -> SUBSET (Certs \X Times)]
     /\ by \in [Workloads -> (Certs \union {NoCert}) \X Times]
  BY DEF TypeOK
<1>4. done' \in [Workloads -> SUBSET (Certs \X Times)]
  <2>1. done[w] \union {<<cur, lastUpdated>>} \in SUBSET (Certs \X Times)
    BY <1>3
  <2>2. done' = done \/ done' = [done EXCEPT ![w] = done[w] \union {<<cur, lastUpdated>>}]
    BY DEF Stamp
  <2>. QED  BY <2>1, <2>2
<1>5. by' \in [Workloads -> (Certs \union {NoCert}) \X Times]
  <2>1. <<cur, lastUpdated>> \in (Certs \union {NoCert}) \X Times
    BY <1>3
  <2>. QED  BY <2>1 DEF Stamp
<1>. QED  BY <1>1, <1>2, <1>4, <1>5

\* Every step keeps the types.
LEMMA NextType ==
    ASSUME TypeOK, [Next]_vars
    PROVE  TypeOK'
<1>. USE DEF certVars, cacheVars, workerVars, history, bounds
<1>1. CASE Tick
  BY <1>1, TimeAssumption DEF Tick, TypeOK, Times
<1>2. ASSUME NEW c \in Certs, Sign(c)
      PROVE  TypeOK'
  BY <1>2, TimeAssumption DEF Sign, TypeOK
<1>3. ASSUME NEW c \in Certs, StoreSecret(c)
      PROVE  TypeOK'
  <2>1. content' \in [Certs -> Times]
    BY <1>3 DEF StoreSecret, TypeOK
  <2>2. pods' \in [Workloads -> [Certs -> Times]]
    BY <1>3 DEF StoreSecret, TypeOK
  <2>3. stored' \in [Certs -> Times]
    BY <1>3 DEF StoreSecret, TypeOK
  <2>. QED  BY <1>3, <2>1, <2>2, <2>3 DEF StoreSecret, TypeOK
<1>4. ASSUME NEW c \in Certs, SetStatus(c)
      PROVE  TypeOK'
  BY <1>4 DEF SetStatus, TypeOK
<1>5. ASSUME NEW c \in Certs, DeleteCertificate(c)
      PROVE  TypeOK'
  BY <1>5, TimeAssumption DEF DeleteCertificate, TypeOK
<1>6. ASSUME NEW c \in Certs, SeeSecret(c) \/ SeeCertificate(c)
      PROVE  TypeOK'
  BY <1>6 DEF SeeSecret, SeeCertificate, TypeOK
<1>7. ASSUME NEW w \in Workloads, SeeWorkload(w)
      PROVE  TypeOK'
  BY <1>7 DEF SeeWorkload, TypeOK
<1>8. ASSUME NEW c \in Certs, Drop(c)
      PROVE  TypeOK'
  BY <1>8 DEF Drop, TypeOK
<1>9. ASSUME NEW c \in Certs, Reconcile(c)
      PROVE  TypeOK'
  <2>1. lastUpdated' \in Times
    BY <1>9 DEF Reconcile, TypeOK, Gone
  <2>. QED  BY <1>9, <2>1 DEF Reconcile, TypeOK
<1>10. CASE List
  <2>1. todo' \subseteq Workloads \X Times
    BY <1>10 DEF List, TypeOK
  <2>. QED  BY <1>10, <2>1 DEF List, TypeOK
<1>11. ASSUME NEW w \in Workloads, UpdateWorkload(w)
       PROVE  TypeOK'
  <2>1. CASE Stamp(w) /\ todo' \subseteq todo /\ UNCHANGED <<queue, pc, kind, cur, lastUpdated, timeNow>>
    BY <1>11, <2>1, StampType DEF UpdateWorkload, TypeOK
  <2>2. CASE Finish(TRUE) /\ UNCHANGED <<label, pods, done, by>>
    <3>1. Idle  BY <2>2 DEF Finish
    <3>. QED  BY <1>11, <2>2, <3>1, IdleType, FinishType DEF UpdateWorkload, TypeOK
  <2>. QED  BY <1>11, <2>1, <2>2 DEF UpdateWorkload
<1>12. CASE NextKind
  <2>1. CASE Finish(FALSE)
    <3>1. Idle  BY <2>1 DEF Finish
    <3>. QED  BY <1>12, <2>1, <3>1, IdleType, FinishType DEF NextKind, TypeOK
  <2>2. CASE kind < 3 /\ kind' = kind + 1 /\ pc' = "list" /\ UNCHANGED <<queue, cur, lastUpdated, timeNow, todo>>
    BY <1>12, <2>2 DEF NextKind, TypeOK
  <2>. QED  BY <1>12, <2>1, <2>2 DEF NextKind
<1>13. CASE Fault
  <2>1. Idle /\ faults' \in 0 .. MaxFaults
    BY <1>13, TimeAssumption DEF Fault, Finish, TypeOK
  <2>. QED  BY <1>13, <2>1, IdleType, FinishType DEF Fault, TypeOK
<1>14. CASE Crash
  <2>1. crashes' \in 0 .. MaxCrashes
    BY <1>14, TimeAssumption DEF Crash, TypeOK
  <2>. QED  BY <1>14, <2>1, IdleType DEF Crash, TypeOK
<1>15. CASE UNCHANGED vars
  BY <1>15 DEF vars, TypeOK
<1>. QED
  BY <1>1, <1>2, <1>3, <1>4, <1>5, <1>6, <1>7, <1>8, <1>9, <1>10, <1>11, <1>12, <1>13, <1>14, <1>15
     DEF Next, CertManager, See, Worker

\* Every time, certificate, workload and request has its type; a restart is only
\* ever for a Certificate with a status.
THEOREM TypeCorrect == Spec => []TypeOK
BY InitType, NextType, PTL DEF Spec

-----------------------------------------------------------------------------
(***************************************************************************)
(* Clocks                                                                  *)
(***************************************************************************)

\* No secret, status or label is ahead of the clock, and a cached label never
\* ahead of the real one.
PastInv ==
    /\ \A c \in Certs : content[c] <= now /\ signed[c] <= now /\ issued[c] <= now /\ certSeen[c] <= now
    /\ \A w \in Workloads : labelSeen[w] <= label[w] /\ label[w] <= now

\* A restart under way writes a label that is no earlier than the renewal it is
\* for, nor than any label there is.
RestartInv ==
    pc # "idle" => /\ lastUpdated <= timeNow /\ timeNow <= now
                   /\ \A w \in Workloads : label[w] <= timeNow

ClockInv == PastInv /\ RestartInv

\* The workloads listed for a restart had, in the cache, no label later than the
\* renewal.
TodoInv ==
    /\ pc # "update" => todo = {}
    /\ \A x \in todo : x[2] <= lastUpdated

\* The label of a workload that was restarted for a renewal is no earlier than it.
DoneInv == \A w \in Workloads : \A x \in done[w] : x[2] <= label[w]

-----------------------------------------------------------------------------
(***************************************************************************)
(* What is still to be done for a workload                                 *)
(***************************************************************************)

\* The restart under way has still to come to w.
Pending(w) ==
    \/ kind < Kind[w]
    \/ kind = Kind[w] /\ (pc = "list" \/ \E v \in Times : <<w, v>> \in todo)

\* The restart under way is for the newest renewal of c that the operator knows.
RestartingFor(c) == pc # "idle" /\ cur = c /\ lastUpdated = certSeen[c]

\* A workload without the label of a renewal the operator knows is about to get
\* it: the request waits in the queue, or a restart for it is on its way.
StampInv ==
    crashes = 0 =>
        \A w \in Workloads, c \in Certs :
            Restarts(w, c) /\ certSeen[c] > 0 =>
                \/ certSeen[c] <= label[w]
                \/ c \in queue
                \/ RestartingFor(c) /\ Pending(w)

\* A Certificate whose deletion was seen does not come back.
GoneInv == \A c \in Certs : certSeen[c] = Gone => issued[c] = Gone

-----------------------------------------------------------------------------
(***************************************************************************)
(* How a restart is written                                                *)
(***************************************************************************)

\* A workload's label only changes with an update of the version that was listed,
\* and then to the time of the restart.
LEMMA LabelStep ==
    ASSUME TypeOK, [Next]_vars, NEW u \in Workloads, label'[u] # label[u]
    PROVE  /\ pc = "update" /\ <<u, label[u]>> \in todo
           /\ label'[u] = timeNow
<1>. USE DEF certVars, cacheVars, workerVars, history, bounds
<1>1. PICK w \in Workloads : UpdateWorkload(w)
  BY DEF Next, CertManager, See, Worker, Tick, Sign, StoreSecret, SetStatus, DeleteCertificate,
         SeeSecret, SeeCertificate, SeeWorkload, Drop, Reconcile, List, NextKind, Fault, Crash, vars
<1>2. PICK v \in Times : /\ pc = "update" /\ <<w, v>> \in todo
                         /\ v = label[w] /\ Stamp(w)
  BY <1>1 DEF UpdateWorkload
<1>3. u = w /\ label'[u] = timeNow
  BY <1>2 DEF Stamp, TypeOK
<1>. QED  BY <1>2, <1>3

\* So no label goes back.
LEMMA LabelsGrow ==
    ASSUME TypeOK, ClockInv, [Next]_vars
    PROVE  \A w \in Workloads : label[w] <= label'[w]
<1>. SUFFICES ASSUME NEW w \in Workloads PROVE label[w] <= label'[w]
  OBVIOUS
<1>1. CASE label'[w] = label[w]
  BY <1>1 DEF TypeOK, Times
<1>2. CASE label'[w] # label[w]
  <2>1. pc = "update" /\ label'[w] = timeNow
    BY <1>2, LabelStep
  <2>. QED  BY <2>1 DEF ClockInv, RestartInv
<1>. QED  BY <1>1, <1>2

-----------------------------------------------------------------------------
(***************************************************************************)
(* The clocks                                                              *)
(***************************************************************************)

\* The start.
LEMMA InitClock == Init => ClockInv
<1>. SUFFICES ASSUME Init PROVE ClockInv
  OBVIOUS
<1>1. /\ now = 2
      /\ \A c \in Certs : signed[c] \in {0, 1} /\ content = signed /\ issued = signed /\ certSeen = signed
      /\ \A w \in Workloads : label[w] \in {0, 1} /\ labelSeen = label
  BY DEF Init
<1>2. PastInv
  BY <1>1 DEF PastInv
<1>3. RestartInv
  BY DEF Init, RestartInv
<1>. QED  BY <1>2, <1>3 DEF ClockInv

\* The clock never goes back.
LEMMA ClockGrows ==
    ASSUME TypeOK, [Next]_vars
    PROVE  now <= now'
<1>1. now' = now \/ now' = now + 1
  BY DEF Next, CertManager, See, Worker, Tick, Sign, StoreSecret, SetStatus, DeleteCertificate,
         SeeSecret, SeeCertificate, SeeWorkload, Drop, Reconcile, List, UpdateWorkload, NextKind,
         Fault, Crash, vars
<1>. QED  BY <1>1 DEF TypeOK, Times

\* Times of certificates come from the clock, or from one another.
LEMMA NextCertPast ==
    ASSUME TypeOK, ClockInv, [Next]_vars, NEW d \in Certs
    PROVE  content'[d] <= now' /\ signed'[d] <= now' /\ issued'[d] <= now' /\ certSeen'[d] <= now'
<1>. USE DEF certVars, cacheVars, workerVars, history, bounds
<1>0. /\ now \in Int /\ now' \in Int /\ now <= now' /\ 1 <= MaxTime
      /\ content[d] \in Nat /\ signed[d] \in Nat /\ issued[d] \in Int /\ certSeen[d] \in Int
      /\ content[d] <= now /\ signed[d] <= now /\ issued[d] <= now /\ certSeen[d] <= now
  BY ClockGrows, NextType, TimeAssumption DEF TypeOK, Times, Gone, ClockInv, PastInv
<1>d. /\ signed \in [Certs -> Times] /\ content \in [Certs -> Times]
      /\ issued \in [Certs -> Times \union {Gone}] /\ certSeen \in [Certs -> Times \union {Gone}]
  BY DEF TypeOK
<1>1. \/ content'[d] = content[d] /\ signed'[d] = signed[d] /\ issued'[d] = issued[d]
         /\ certSeen'[d] = certSeen[d]
      \/ content'[d] = content[d] /\ signed'[d] = now /\ issued'[d] = issued[d]
         /\ certSeen'[d] = certSeen[d]
      \/ content'[d] = signed[d] /\ signed'[d] = signed[d] /\ issued'[d] = issued[d]
         /\ certSeen'[d] = certSeen[d]
      \/ content'[d] = content[d] /\ signed'[d] = signed[d] /\ issued'[d] \in {signed[d], Gone}
         /\ certSeen'[d] = certSeen[d]
      \/ content'[d] = content[d] /\ signed'[d] = signed[d] /\ issued'[d] = issued[d]
         /\ certSeen'[d] = issued[d]
  <2>1. ASSUME NEW c \in Certs, Sign(c) \/ StoreSecret(c)
        PROVE  /\ \/ content'[d] = content[d] /\ signed'[d] \in {signed[d], now}
                  \/ content'[d] = signed[d] /\ signed'[d] = signed[d]
               /\ issued' = issued /\ certSeen' = certSeen
    BY <1>d, <2>1 DEF Sign, StoreSecret
  <2>2. ASSUME NEW c \in Certs, SetStatus(c) \/ DeleteCertificate(c)
        PROVE  issued'[d] \in {issued[d], signed[d], Gone} /\ UNCHANGED <<content, signed, certSeen>>
    BY <1>d, <2>2 DEF SetStatus, DeleteCertificate
  <2>3. CASE Crash \/ \E c \in Certs : SeeCertificate(c)
    BY <1>d, <2>3 DEF SeeCertificate, Crash
  <2>4. CASE UNCHANGED <<content, signed, issued, certSeen>>
    BY <2>4
  <2>. QED
    BY <2>1, <2>2, <2>3, <2>4 DEF Next, CertManager, See, Worker, Tick, SeeSecret, SeeWorkload, Drop,
       Reconcile, List, UpdateWorkload, NextKind, Fault, vars
<1>. QED  BY <1>0, <1>1 DEF Gone

\* A cached label is a label there was.
LEMMA NextLabelPast ==
    ASSUME TypeOK, ClockInv, [Next]_vars, NEW u \in Workloads
    PROVE  labelSeen'[u] <= label'[u] /\ label'[u] <= now'
<1>. USE DEF certVars, cacheVars, workerVars, history, bounds
<1>0. /\ now \in Int /\ now' \in Int /\ now <= now' /\ timeNow \in Int
      /\ label[u] \in Int /\ label'[u] \in Int /\ labelSeen[u] \in Int
      /\ labelSeen[u] <= label[u] /\ label[u] <= now /\ label[u] <= label'[u]
  BY ClockGrows, NextType, LabelsGrow DEF TypeOK, Times, ClockInv, PastInv
<1>1. labelSeen'[u] \in {labelSeen[u], label[u]}
  <2>1. labelSeen \in [Workloads -> Times]
    BY DEF TypeOK
  <2>2. ASSUME NEW w \in Workloads, SeeWorkload(w)
        PROVE  labelSeen'[u] \in {labelSeen[u], label[u]}
    BY <2>1, <2>2 DEF SeeWorkload
  <2>3. CASE Crash
    BY <2>3 DEF Crash
  <2>4. CASE UNCHANGED labelSeen
    BY <2>4
  <2>. QED
    BY <2>2, <2>3, <2>4 DEF Next, CertManager, See, Worker, Tick, Sign, StoreSecret, SetStatus,
       DeleteCertificate, SeeSecret, SeeCertificate, Drop, Reconcile, List, UpdateWorkload, NextKind,
       Fault, vars
<1>2. label'[u] = label[u] \/ (label'[u] = timeNow /\ timeNow <= now)
  BY LabelStep DEF ClockInv, RestartInv
<1>. QED  BY <1>0, <1>1, <1>2

\* A restart keeps the time it began with.
LEMMA NextRestart ==
    ASSUME TypeOK, ClockInv, [Next]_vars
    PROVE  RestartInv'
<1>. USE DEF certVars, cacheVars, workerVars, history, bounds
<1>0. /\ now \in Int /\ now' \in Int /\ now <= now' /\ timeNow \in Int /\ lastUpdated \in Int
      /\ \A w \in Workloads : label[w] \in Int /\ label'[w] \in Int
  BY ClockGrows, NextType DEF TypeOK, Times
<1>1. \/ pc' = "idle"
      \/ pc # "idle" /\ lastUpdated' = lastUpdated /\ timeNow' = timeNow
      \/ \E c \in Certs : Reconcile(c)
  BY DEF Next, CertManager, See, Worker, Tick, Sign, StoreSecret, SetStatus, DeleteCertificate,
         SeeSecret, SeeCertificate, SeeWorkload, Drop, List, UpdateWorkload, NextKind,
         Fault, Crash, Finish, Idle, vars, TypeOK
<1>2. CASE pc' = "idle"
  BY <1>2 DEF RestartInv
<1>3. CASE pc # "idle" /\ lastUpdated' = lastUpdated /\ timeNow' = timeNow
  <2>1. lastUpdated <= timeNow /\ timeNow <= now /\ \A w \in Workloads : label[w] <= timeNow
    BY <1>3 DEF ClockInv, RestartInv
  <2>2. \A w \in Workloads : label'[w] = label[w] \/ label'[w] = timeNow
    BY LabelStep
  <2>. QED  BY <1>0, <1>3, <2>1, <2>2 DEF RestartInv
<1>4. ASSUME NEW c \in Certs, Reconcile(c)
      PROVE  RestartInv'
  <2>1. lastUpdated' = certSeen[c] /\ timeNow' = now /\ now' = now /\ label' = label
    BY <1>4 DEF Reconcile
  <2>. QED  BY <1>0, <2>1 DEF RestartInv, ClockInv, PastInv
<1>. QED  BY <1>1, <1>2, <1>3, <1>4

\* Every step keeps the clocks in order.
LEMMA NextClock ==
    ASSUME TypeOK, ClockInv, [Next]_vars
    PROVE  ClockInv'
<1>1. PastInv'
  BY NextCertPast, NextLabelPast DEF PastInv
<1>. QED  BY <1>1, NextRestart DEF ClockInv

-----------------------------------------------------------------------------
(***************************************************************************)
(* No workload is restarted twice for a renewal                            *)
(***************************************************************************)

\* A workload is only listed if its label in the cache is no later than the
\* renewal.
LEMMA NextTodo ==
    ASSUME TypeOK, TodoInv, [Next]_vars
    PROVE  TodoInv'
<1>. USE DEF certVars, cacheVars, workerVars, history, bounds
<1>1. \/ todo' = {}
      \/ pc = "update" /\ pc' = "update" /\ todo' \subseteq todo /\ lastUpdated' = lastUpdated
      \/ List
  BY DEF Next, CertManager, See, Worker, Tick, Sign, StoreSecret, SetStatus, DeleteCertificate,
         SeeSecret, SeeCertificate, SeeWorkload, Drop, Reconcile, UpdateWorkload, NextKind,
         Fault, Crash, Finish, Idle, vars, TodoInv
<1>2. CASE todo' = {}
  BY <1>2 DEF TodoInv
<1>3. CASE pc = "update" /\ pc' = "update" /\ todo' \subseteq todo /\ lastUpdated' = lastUpdated
  BY <1>3 DEF TodoInv
<1>4. CASE List
  <2>1. \A w \in Workloads : NeedsUpdate(w) => labelSeen[w] <= lastUpdated
    BY DEF NeedsUpdate, TypeOK, Times
  <2>2. pc' = "update" /\ lastUpdated' = lastUpdated
    BY <1>4 DEF List
  <2>3. ASSUME NEW x \in todo'
        PROVE  x[2] <= lastUpdated
    BY <1>4, <2>1 DEF List
  <2>. QED  BY <2>2, <2>3 DEF TodoInv
<1>. QED  BY <1>1, <1>2, <1>3, <1>4

\* A renewal enters the history only with a label that is no earlier.
LEMMA NextDone ==
    ASSUME TypeOK, ClockInv, DoneInv, [Next]_vars
    PROVE  DoneInv'
<1>. USE DEF certVars, cacheVars, workerVars, history, bounds
<1>1. CASE done' = done
  <2>1. \A w \in Workloads : label[w] <= label'[w] /\ label[w] \in Int /\ label'[w] \in Int
    BY LabelsGrow, NextType DEF TypeOK, Times
  <2>2. \A w \in Workloads : \A x \in done[w] : x[2] \in Int
    BY DEF TypeOK, Times
  <2>. QED  BY <1>1, <2>1, <2>2 DEF DoneInv
<1>2. CASE done' # done
  <2>1. PICK w \in Workloads : UpdateWorkload(w)
    BY <1>2 DEF Next, CertManager, See, Worker, Tick, Sign, StoreSecret, SetStatus, DeleteCertificate,
         SeeSecret, SeeCertificate, SeeWorkload, Drop, Reconcile, List, NextKind, Fault, Crash, vars
  <2>2. Stamp(w) /\ pc = "update"
    BY <1>2, <2>1 DEF UpdateWorkload
  <2>3. /\ lastUpdated <= timeNow
        /\ done' = [done EXCEPT ![w] = @ \union {<<cur, lastUpdated>>}]
        /\ label' = [label EXCEPT ![w] = timeNow]
    BY <1>2, <2>2 DEF Stamp, ClockInv, RestartInv
  <2>4. label[w] <= timeNow /\ timeNow \in Int /\ lastUpdated \in Int /\ label[w] \in Int
    BY <2>2 DEF ClockInv, RestartInv, TypeOK, Times
  <2>5. ASSUME NEW u \in Workloads, NEW x \in done'[u]
        PROVE  x[2] <= label'[u]
    <3>1. CASE x \in done[u]
      <4>1. x[2] <= label[u] /\ x[2] \in Int
        BY <3>1 DEF DoneInv, TypeOK, Times
      <4>2. label'[u] = IF u = w THEN timeNow ELSE label[u]
        BY <2>3 DEF TypeOK
      <4>. QED  BY <4>1, <4>2, <2>4
    <3>2. CASE x \notin done[u]
      <4>1. u = w /\ x = <<cur, lastUpdated>>
        BY <2>3, <2>5, <3>2 DEF TypeOK
      <4>2. label'[u] = timeNow /\ x[2] = lastUpdated
        BY <2>3, <4>1 DEF TypeOK
      <4>. QED  BY <4>2, <2>3, <2>4
    <3>. QED  BY <3>1, <3>2
  <2>. QED  BY <2>5 DEF DoneInv
<1>. QED  BY <1>1, <1>2

\* No retry, whether after an error or of an outdated cache, restarts a workload
\* a second time for the same renewal, unless it was restarted in the very second
\* of the renewal's NotBefore.
THEOREM NoWorkloadRestartsTwice == Spec => NoDoubleRestart
<1>1. Init => TypeOK /\ ClockInv /\ TodoInv /\ DoneInv
  <2>. SUFFICES ASSUME Init PROVE TypeOK /\ ClockInv /\ TodoInv /\ DoneInv
    OBVIOUS
  <2>1. TodoInv /\ DoneInv
    BY DEF Init, TodoInv, DoneInv
  <2>. QED  BY <2>1, InitType, InitClock
<1>2. TypeOK /\ ClockInv /\ TodoInv /\ DoneInv /\ [Next]_vars
        => (TypeOK /\ ClockInv /\ TodoInv /\ DoneInv)'
  BY NextType, NextClock, NextTodo, NextDone
<1>3. TypeOK /\ ClockInv /\ TodoInv /\ DoneInv /\ [Next]_vars
        => [\A w \in Workloads :
               label'[w] # label[w] /\ <<cur, lastUpdated>> \in done[w] => label[w] = lastUpdated]_vars
  <2>. SUFFICES ASSUME TypeOK, TodoInv, DoneInv, [Next]_vars,
                       NEW w \in Workloads, label'[w] # label[w],
                       <<cur, lastUpdated>> \in done[w]
                PROVE  label[w] = lastUpdated
    OBVIOUS
  <2>1. <<w, label[w]>> \in todo
    BY LabelStep
  <2>2. label[w] <= lastUpdated
    BY <2>1 DEF TodoInv
  <2>3. lastUpdated <= label[w]
    BY DEF DoneInv
  <2>4. label[w] \in Int /\ lastUpdated \in Int
    BY DEF TypeOK, Times
  <2>. QED  BY <2>2, <2>3, <2>4
<1>. QED  BY <1>1, <1>2, <1>3, PTL DEF Spec, NoDoubleRestart

-----------------------------------------------------------------------------
(***************************************************************************)
(* When the pods of a workload that is skipped have read the certificate   *)
(***************************************************************************)

\* The cached secret, the secret and the certificate last signed, in the order of
\* their certificates; no pod has read a certificate that is not in the secret.
OrderInv ==
    /\ \A c \in Certs : secSeen[c] <= content[c] /\ content[c] <= signed[c]
    /\ \A w \in Workloads, c \in Certs : pods[w][c] <= content[c]

\* Pods that were started after the secret was written have read it.
ReadInv == \A w \in Workloads, c \in Certs : label[w] > stored[c] => pods[w][c] = content[c]

\* A restart begins with the secret in place or after the Timeout ...
ReadyInv ==
    pc # "idle" => content[cur] >= lastUpdated \/ timeNow >= lastUpdated + Timeout

\* ... and so do the pods it starts.
ByInv ==
    \A w \in Workloads, c \in Certs :
        by[w][1] = c => pods[w][c] >= by[w][2] \/ label[w] >= by[w][2] + Timeout

\* Certificates are signed, stored and seen in the order of time.
LEMMA NextOrder ==
    ASSUME TypeOK, ClockInv, OrderInv, [Next]_vars
    PROVE  OrderInv'
<1>. USE DEF certVars, cacheVars, workerVars, history, bounds
<1>1. ASSUME NEW d \in Certs
      PROVE  secSeen'[d] <= content'[d] /\ content'[d] <= signed'[d] /\ content[d] <= content'[d]
  <2>0. /\ now \in Int /\ secSeen[d] \in Int /\ content[d] \in Int /\ signed[d] \in Int
        /\ secSeen[d] <= content[d] /\ content[d] <= signed[d] /\ signed[d] <= now
    BY DEF TypeOK, Times, ClockInv, PastInv, OrderInv
  <2>d. signed \in [Certs -> Times] /\ content \in [Certs -> Times] /\ secSeen \in [Certs -> Times]
    BY DEF TypeOK
  <2>1. \/ secSeen'[d] \in {secSeen[d], content[d]} /\ content'[d] = content[d] /\ signed'[d] = signed[d]
        \/ secSeen'[d] = secSeen[d] /\ content'[d] = content[d] /\ signed'[d] = now
        \/ secSeen'[d] = secSeen[d] /\ content'[d] = signed[d] /\ signed'[d] = signed[d]
    <3>1. ASSUME NEW c \in Certs, Sign(c)
          PROVE  signed'[d] \in {signed[d], now} /\ UNCHANGED <<content, secSeen>>
      BY <2>d, <3>1 DEF Sign
    <3>2. ASSUME NEW c \in Certs, StoreSecret(c)
          PROVE  content'[d] \in {content[d], signed[d]} /\ UNCHANGED <<signed, secSeen>>
      BY <2>d, <3>2 DEF StoreSecret
    <3>3. CASE Crash \/ \E c \in Certs : SeeSecret(c)
      BY <2>d, <3>3 DEF SeeSecret, Crash
    <3>4. CASE UNCHANGED <<content, signed, secSeen>>
      BY <3>4
    <3>. QED
      BY <3>1, <3>2, <3>3, <3>4 DEF Next, CertManager, See, Worker, Tick, SetStatus,
         DeleteCertificate, SeeCertificate, SeeWorkload, Drop, Reconcile, List, UpdateWorkload,
         NextKind, Fault, vars
  <2>. QED  BY <2>0, <2>1
<1>2. ASSUME NEW u \in Workloads, NEW d \in Certs
      PROVE  pods'[u][d] <= content'[d]
  <2>0. /\ pods[u][d] \in Int /\ content[d] \in Int /\ content'[d] \in Int
        /\ pods[u][d] <= content[d] /\ content[d] <= content'[d]
    BY <1>1, NextType DEF TypeOK, Times, OrderInv
  <2>1. pods'[u][d] \in {pods[u][d], content[d], content'[d]}
    <3>1. ASSUME NEW c \in Certs, StoreSecret(c)
          PROVE  pods'[u][d] \in {pods[u][d], content'[d]}
      BY <3>1 DEF StoreSecret, TypeOK
    <3>2. ASSUME NEW w \in Workloads, Stamp(w)
          PROVE  pods'[u][d] \in {pods[u][d], content[d]}
      BY <3>2 DEF Stamp, TypeOK
    <3>. QED
      BY <3>1, <3>2 DEF Next, CertManager, See, Worker, Tick, Sign, SetStatus, DeleteCertificate,
         SeeSecret, SeeCertificate, SeeWorkload, Drop, Reconcile, List, UpdateWorkload, NextKind,
         Fault, Crash, vars
  <2>. QED  BY <2>0, <2>1
<1>. QED  BY <1>1, <1>2 DEF OrderInv

\* A new secret is written no earlier than any label; a restart reads the secrets.
LEMMA NextRead ==
    ASSUME TypeOK, ClockInv, ReadInv, [Next]_vars
    PROVE  ReadInv'
<1>. USE DEF certVars, cacheVars, workerVars, history, bounds
<1>1. ASSUME NEW d \in Certs, StoreSecret(d)
      PROVE  ReadInv'
  <2>. SUFFICES ASSUME NEW w \in Workloads, NEW c \in Certs, label'[w] > stored'[c]
                PROVE  pods'[w][c] = content'[c]
    BY DEF ReadInv
  <2>1. label' = label /\ stored' = [stored EXCEPT ![d] = now]
    BY <1>1 DEF StoreSecret
  <2>2. c # d
    <3>1. label[w] <= now /\ label[w] \in Int /\ now \in Int
      BY DEF ClockInv, PastInv, TypeOK, Times
    <3>. QED  BY <2>1, <3>1 DEF TypeOK
  <2>3. content'[c] = content[c] /\ pods'[w][c] = pods[w][c] /\ stored'[c] = stored[c]
    BY <1>1, <2>2 DEF StoreSecret, TypeOK
  <2>. QED  BY <2>1, <2>3 DEF ReadInv
<1>2. ASSUME NEW u \in Workloads, Stamp(u), content' = content, stored' = stored
      PROVE  ReadInv'
  <2>1. CASE label[u] = timeNow
    <3>1. label' = label /\ pods' = pods
      BY <1>2, <2>1 DEF Stamp, TypeOK
    <3>. QED  BY <1>2, <3>1 DEF ReadInv
  <2>2. CASE label[u] # timeNow
    <3>1. label' = [label EXCEPT ![u] = timeNow] /\ pods' = [pods EXCEPT ![u] = content]
      BY <1>2, <2>2 DEF Stamp
    <3>. QED  BY <1>2, <3>1 DEF ReadInv, TypeOK
  <2>. QED  BY <2>1, <2>2
<1>3. CASE UNCHANGED <<label, content, pods, stored>>
  BY <1>3 DEF ReadInv
<1>. QED
  BY <1>1, <1>2, <1>3 DEF Next, CertManager, See, Worker, Tick, Sign, SetStatus, DeleteCertificate,
     SeeSecret, SeeCertificate, SeeWorkload, Drop, Reconcile, List, UpdateWorkload, NextKind,
     Fault, Crash, vars

\* A secret is not replaced by an older one.
LEMMA ContentGrows ==
    ASSUME TypeOK, OrderInv, [Next]_vars
    PROVE  \A c \in Certs : content[c] <= content'[c]
<1>. USE DEF certVars, cacheVars, workerVars, history, bounds
<1>. SUFFICES ASSUME NEW d \in Certs PROVE content[d] <= content'[d]
  OBVIOUS
<1>d. signed \in [Certs -> Times] /\ content \in [Certs -> Times]
  BY DEF TypeOK
<1>1. content'[d] \in {content[d], signed[d]}
  <2>1. ASSUME NEW c \in Certs, StoreSecret(c)
        PROVE  content'[d] \in {content[d], signed[d]}
    BY <1>d, <2>1 DEF StoreSecret
  <2>2. CASE content' = content
    BY <2>2
  <2>. QED
    BY <2>1, <2>2 DEF Next, CertManager, See, Worker, Tick, Sign, SetStatus, DeleteCertificate,
       SeeSecret, SeeCertificate, SeeWorkload, Drop, Reconcile, List, UpdateWorkload, NextKind,
       Fault, Crash, vars
<1>. QED  BY <1>1 DEF OrderInv, TypeOK, Times

\* verifySecretReady holds a restart back for as long as it says.
LEMMA NextReady ==
    ASSUME TypeOK, OrderInv, ReadyInv, [Next]_vars
    PROVE  ReadyInv'
<1>. USE DEF certVars, cacheVars, workerVars, history, bounds
<1>1. \/ pc' = "idle"
      \/ pc # "idle" /\ cur' = cur /\ lastUpdated' = lastUpdated /\ timeNow' = timeNow
      \/ \E c \in Certs : Reconcile(c)
  BY DEF Next, CertManager, See, Worker, Tick, Sign, StoreSecret, SetStatus, DeleteCertificate,
         SeeSecret, SeeCertificate, SeeWorkload, Drop, List, UpdateWorkload, NextKind,
         Fault, Crash, Finish, Idle, vars, TypeOK
<1>2. CASE pc' = "idle"
  BY <1>2 DEF ReadyInv
<1>3. CASE pc # "idle" /\ cur' = cur /\ lastUpdated' = lastUpdated /\ timeNow' = timeNow
  <2>1. cur \in Certs
    BY <1>3 DEF TypeOK
  <2>2. /\ content[cur] \in Int /\ content'[cur] \in Int /\ content[cur] <= content'[cur]
        /\ lastUpdated \in Int
    BY <2>1, ContentGrows, NextType DEF TypeOK, Times
  <2>. QED  BY <1>3, <2>2 DEF ReadyInv
<1>4. ASSUME NEW c \in Certs, Reconcile(c)
      PROVE  ReadyInv'
  <2>1. /\ cur' = c /\ lastUpdated' = certSeen[c] /\ timeNow' = now /\ content' = content
        /\ secSeen[c] >= certSeen[c] \/ now - certSeen[c] >= Timeout
    BY <1>4 DEF Reconcile, verifySecretReady
  <2>2. /\ secSeen[c] <= content[c] /\ secSeen[c] \in Int /\ content[c] \in Int
        /\ certSeen[c] \in Int /\ now \in Int /\ Timeout \in Int
    BY TimeAssumption DEF OrderInv, TypeOK, Times, Gone
  <2>3. content'[cur'] >= lastUpdated' \/ timeNow' >= lastUpdated' + Timeout
    BY <2>1, <2>2
  <2>. QED  BY <2>3 DEF ReadyInv
<1>. QED  BY <1>1, <1>2, <1>3, <1>4

\* The pods of a restart read the secret that was there when it began, or a later
\* one.
LEMMA NextBy ==
    ASSUME TypeOK, ClockInv, OrderInv, ReadyInv, ByInv, [Next]_vars
    PROVE  ByInv'
<1>. USE DEF certVars, cacheVars, workerVars, history, bounds
<1>1. ASSUME NEW d \in Certs, StoreSecret(d)
      PROVE  ByInv'
  <2>. SUFFICES ASSUME NEW w \in Workloads, NEW c \in Certs, by'[w][1] = c
                PROVE  pods'[w][c] >= by'[w][2] \/ label'[w] >= by'[w][2] + Timeout
    BY DEF ByInv
  <2>1. label' = label /\ by' = by
    BY <1>1 DEF StoreSecret
  <2>2. /\ pods[w][c] \in Nat /\ signed[d] \in Nat /\ by[w][2] \in Int
    BY DEF TypeOK, Times
  <2>3. pods'[w][c] = pods[w][c] \/ (pods[w][c] = 0 /\ pods'[w][c] = signed[d])
    BY <1>1 DEF StoreSecret, TypeOK
  <2>4. pods[w][c] >= by[w][2] \/ label[w] >= by[w][2] + Timeout
    BY <2>1 DEF ByInv
  <2>. QED  BY <2>1, <2>2, <2>3, <2>4
<1>2. ASSUME NEW u \in Workloads, Stamp(u), pc # "idle"
      PROVE  ByInv'
  <2>1. CASE label[u] = timeNow
    <3>1. label' = label /\ pods' = pods /\ by' = by
      BY <1>2, <2>1 DEF Stamp, TypeOK
    <3>. QED  BY <3>1 DEF ByInv
  <2>2. CASE label[u] # timeNow
    <3>1. /\ label' = [label EXCEPT ![u] = timeNow] /\ pods' = [pods EXCEPT ![u] = content]
          /\ by' = [by EXCEPT ![u] = <<cur, lastUpdated>>]
      BY <1>2, <2>2 DEF Stamp
    <3>2. content[cur] >= lastUpdated \/ timeNow >= lastUpdated + Timeout
      BY <1>2 DEF ReadyInv
    <3>3. label'[u] = timeNow /\ pods'[u] = content /\ by'[u] = <<cur, lastUpdated>>
      BY <3>1 DEF TypeOK
    <3>4. \A w \in Workloads : w # u =>
             label'[w] = label[w] /\ pods'[w] = pods[w] /\ by'[w] = by[w]
      BY <3>1 DEF TypeOK
    <3>. QED  BY <3>2, <3>3, <3>4 DEF ByInv
  <2>. QED  BY <2>1, <2>2
<1>3. CASE UNCHANGED <<label, pods, by>>
  BY <1>3 DEF ByInv
<1>. QED
  BY <1>1, <1>2, <1>3 DEF Next, CertManager, See, Worker, Tick, Sign, SetStatus, DeleteCertificate,
     SeeSecret, SeeCertificate, SeeWorkload, Drop, Reconcile, List, UpdateWorkload, NextKind,
     Fault, Crash, vars

SkipInv == OrderInv /\ ReadInv /\ ReadyInv /\ ByInv

\* However late cert-manager writes a secret: the pods of a workload whose label is
\* later than a certificate have read it, or their restart fell between its
\* NotBefore and the write of its secret, and then, if it was for this renewal,
\* after the Timeout.
THEOREM SkippingIsSound == Spec => []SkipSound
<1>1. Init => TypeOK /\ ClockInv /\ SkipInv
  <2>. SUFFICES ASSUME Init PROVE TypeOK /\ ClockInv /\ SkipInv
    OBVIOUS
  <2>1. TypeOK /\ ClockInv
    BY InitType, InitClock
  <2>2. /\ content = signed /\ secSeen = signed /\ stored = signed /\ pc = "idle"
        /\ \A w \in Workloads : pods[w] = signed /\ by[w] = <<NoCert, 0>>
    BY DEF Init
  <2>3. OrderInv
    BY <2>1, <2>2 DEF OrderInv, TypeOK, Times
  <2>4. ReadInv /\ ReadyInv
    BY <2>2 DEF ReadInv, ReadyInv
  <2>5. ByInv
    BY <2>2, CertAssumption DEF ByInv
  <2>. QED  BY <2>1, <2>3, <2>4, <2>5 DEF SkipInv
<1>2. TypeOK /\ ClockInv /\ SkipInv /\ [Next]_vars => (TypeOK /\ ClockInv /\ SkipInv)'
  BY NextType, NextClock, NextOrder, NextRead, NextReady, NextBy DEF SkipInv
<1>3. TypeOK /\ SkipInv => SkipSound
  <2>. SUFFICES ASSUME TypeOK, SkipInv, NEW w \in Workloads, NEW c \in Certs,
                       label[w] > content[c], pods[w][c] # content[c]
                PROVE  /\ label[w] <= stored[c]
                       /\ by[w] = <<c, content[c]>> => label[w] >= content[c] + Timeout
    BY DEF SkipSound
  <2>1. /\ pods[w][c] \in Int /\ content[c] \in Int /\ stored[c] \in Int /\ label[w] \in Int
        /\ pods[w][c] <= content[c]
    BY DEF TypeOK, Times, SkipInv, OrderInv
  <2>2. label[w] <= stored[c]
    BY <2>1 DEF SkipInv, ReadInv
  <2>3. ASSUME by[w] = <<c, content[c]>>
        PROVE  label[w] >= content[c] + Timeout
    BY <2>1, <2>3 DEF SkipInv, ByInv
  <2>. QED  BY <2>2, <2>3
<1>. QED  BY <1>1, <1>2, <1>3, PTL DEF Spec

-----------------------------------------------------------------------------
(***************************************************************************)
(* No workload is forgotten                                                *)
(***************************************************************************)

\* cert-manager does not touch a deleted Certificate.
LEMMA NextGone ==
    ASSUME TypeOK, GoneInv, [Next]_vars
    PROVE  GoneInv'
<1>. USE DEF certVars, cacheVars, workerVars, history, bounds
<1>. SUFFICES ASSUME NEW c \in Certs, certSeen'[c] = Gone
              PROVE  issued'[c] = Gone
  BY DEF GoneInv
<1>1. /\ certSeen'[c] \in {certSeen[c], issued[c]}
      /\ issued[c] = Gone => issued'[c] = Gone
  BY DEF Next, CertManager, See, Worker, Tick, Sign, StoreSecret, SetStatus, DeleteCertificate,
         SeeSecret, SeeCertificate, SeeWorkload, Drop, Reconcile, List, UpdateWorkload, NextKind,
         Fault, Crash, vars, TypeOK
<1>. QED  BY <1>1 DEF GoneInv

\* An update of a Certificate's NotBefore that the operator sees is queued.
LEMMA SeenIsQueued ==
    ASSUME TypeOK, GoneInv, [Next]_vars, NEW c \in Certs,
           crashes' = 0, certSeen'[c] # certSeen[c], certSeen'[c] > 0
    PROVE  c \in queue'
<1>. USE DEF certVars, cacheVars, workerVars, history, bounds
<1>1. ~Crash
  BY DEF Crash, TypeOK
<1>2. PICK d \in Certs : SeeCertificate(d)
  BY <1>1 DEF Next, CertManager, See, Worker, Tick, Sign, StoreSecret, SetStatus, DeleteCertificate,
     SeeSecret, SeeWorkload, Drop, Reconcile, List, UpdateWorkload, NextKind, Fault, vars
<1>3. c = d /\ certSeen'[c] = issued[c]
  BY <1>2 DEF SeeCertificate, TypeOK
<1>4. certSeen[c] # Gone
  BY <1>3 DEF GoneInv, Gone
<1>. QED  BY <1>2, <1>3, <1>4 DEF SeeCertificate, isExpiredPredicate

\* A queued request stays, or its restart begins.
LEMMA QueuedIsKept ==
    ASSUME TypeOK, [Next]_vars, NEW c \in Certs, NEW w \in Workloads,
           crashes' = 0, certSeen'[c] = certSeen[c], certSeen[c] > 0, c \in queue
    PROVE  c \in queue' \/ (RestartingFor(c) /\ Pending(w))'
<1>. USE DEF certVars, cacheVars, workerVars, history, bounds
<1>1. ~Crash
  BY DEF Crash, TypeOK
<1>2. ~Drop(c)
  BY DEF Drop, Gone
<1>3. CASE Reconcile(c)
  <2>1. pc' = "list" /\ kind' = 1 /\ cur' = c /\ lastUpdated' = certSeen[c]
    BY <1>3 DEF Reconcile
  <2>2. Kind[w] \in 1 .. 3
    BY WorkloadAssumption
  <2>3. Pending(w)'
    BY <2>1, <2>2 DEF Pending
  <2>. QED  BY <2>1, <2>3 DEF RestartingFor
<1>4. CASE ~Reconcile(c)
  BY <1>1, <1>2, <1>4 DEF Next, CertManager, See, Worker, Tick, Sign, StoreSecret, SetStatus,
     DeleteCertificate, SeeSecret, SeeCertificate, SeeWorkload, Drop, Reconcile, List,
     UpdateWorkload, NextKind, Fault, Finish, vars
<1>. QED  BY <1>3, <1>4

\* A restart for the newest renewal comes to every workload, or is queued again.
LEMMA PendingIsKept ==
    ASSUME TypeOK, ClockInv, [Next]_vars, NEW c \in Certs, NEW w \in Workloads,
           crashes' = 0, certSeen'[c] = certSeen[c], Restarts(w, c),
           RestartingFor(c), Pending(w)
    PROVE  \/ certSeen[c] <= label'[w]
           \/ c \in queue'
           \/ (RestartingFor(c) /\ Pending(w))'
<1>. USE DEF certVars, cacheVars, workerVars, history, bounds
<1>0. /\ Kind[w] \in 1 .. 3 /\ kind \in 1 .. 3
      /\ label[w] \in Int /\ label'[w] \in Int /\ labelSeen[w] \in Times /\ label[w] <= label'[w]
      /\ labelSeen[w] <= label[w]
      /\ pc # "idle" /\ cur = c /\ lastUpdated = certSeen[c] /\ lastUpdated \in Int
      /\ lastUpdated <= timeNow /\ timeNow \in Int
  BY WorkloadAssumption, NextType, LabelsGrow
     DEF TypeOK, Times, RestartingFor, ClockInv, PastInv, RestartInv
<1>1. CASE UNCHANGED workerVars
  BY <1>1, <1>0 DEF RestartingFor, Pending
<1>2. CASE List
  <2>1. pc' = "update" /\ kind' = kind /\ cur' = cur /\ lastUpdated' = lastUpdated /\ pc = "list"
    BY <1>2 DEF List
  <2>2. CASE kind = Kind[w] /\ NeedsUpdate(w)
    <3>1. <<w, labelSeen[w]>> \in todo'
      BY <1>2, <2>2 DEF List
    <3>2. Pending(w)'
      BY <1>0, <2>1, <2>2, <3>1 DEF Pending
    <3>. QED  BY <1>0, <2>1, <3>2 DEF RestartingFor
  <2>3. CASE ~NeedsUpdate(w)
    <3>1. labelSeen[w] > lastUpdated
      BY <1>0, <2>3 DEF NeedsUpdate, Restarts
    <3>. QED  BY <1>0, <3>1 DEF Times
  <2>4. CASE kind < Kind[w]
    BY <1>0, <2>1, <2>4 DEF RestartingFor, Pending
  <2>. QED  BY <2>2, <2>3, <2>4 DEF Pending
<1>3. CASE NextKind
  <2>1. todo = {} /\ pc = "update"
    BY <1>3 DEF NextKind
  <2>2. kind < Kind[w]
    BY <2>1 DEF Pending
  <2>. kind # 3
    BY <1>0, <2>2
  <2>3. kind' = kind + 1 /\ pc' = "list" /\ cur' = cur /\ lastUpdated' = lastUpdated
    BY <1>3 DEF NextKind
  <2>4. Pending(w)'
    BY <1>0, <2>2, <2>3 DEF Pending
  <2>. QED  BY <1>0, <2>3, <2>4 DEF RestartingFor
<1>4. ASSUME NEW u \in Workloads, UpdateWorkload(u)
      PROVE  \/ certSeen[c] <= label'[w]
             \/ c \in queue'
             \/ (RestartingFor(c) /\ Pending(w))'
  <2>1. PICK v \in Times :
           /\ pc = "update"
           /\ \/ /\ Stamp(u)
                 /\ todo' = todo \ {<<u, v>>}
                 /\ UNCHANGED <<queue, pc, kind, cur, lastUpdated, timeNow>>
              \/ Finish(TRUE)
    BY <1>4 DEF UpdateWorkload
  <2>2. CASE Finish(TRUE)
    BY <1>0, <2>2 DEF Finish
  <2>3. CASE /\ Stamp(u)
             /\ todo' = todo \ {<<u, v>>}
             /\ UNCHANGED <<queue, pc, kind, cur, lastUpdated, timeNow>>
    <3>1. CASE u = w
      <4>1. label'[w] = timeNow
        BY <2>3, <3>1 DEF Stamp, TypeOK
      <4>. QED  BY <1>0, <4>1
    <3>2. CASE u # w
      <4>1. \A n \in Times : <<w, n>> \in todo => <<w, n>> \in todo'
        BY <2>3, <3>2
      <4>2. pc' = pc /\ kind' = kind
        BY <2>3
      <4>3. Pending(w)'
        BY <4>1, <4>2 DEF Pending
      <4>. QED  BY <1>0, <2>3, <4>3 DEF RestartingFor
    <3>. QED  BY <3>1, <3>2
  <2>. QED  BY <2>1, <2>2, <2>3
<1>5. CASE Fault
  BY <1>0, <1>5 DEF Fault, Finish
<1>6. ~Crash
  BY DEF Crash, TypeOK
<1>. QED
  BY <1>0, <1>1, <1>2, <1>3, <1>4, <1>5, <1>6 DEF Next, CertManager, See, Worker, Tick, Sign,
     StoreSecret, SetStatus, DeleteCertificate, SeeSecret, SeeCertificate, SeeWorkload, Drop,
     Reconcile, vars

\* Every step keeps what is still to be done.
LEMMA NextStamp ==
    ASSUME TypeOK, ClockInv, GoneInv, StampInv, [Next]_vars
    PROVE  StampInv'
<1>. SUFFICES ASSUME crashes' = 0, NEW w \in Workloads, NEW c \in Certs,
                     Restarts(w, c), certSeen'[c] > 0
              PROVE  \/ certSeen'[c] <= label'[w]
                     \/ c \in queue'
                     \/ (RestartingFor(c) /\ Pending(w))'
  BY DEF StampInv, Restarts
<1>1. CASE certSeen'[c] # certSeen[c]
  BY <1>1, SeenIsQueued
<1>2. CASE certSeen'[c] = certSeen[c]
  <2>0. crashes' = crashes \/ crashes' = crashes + 1
    BY DEF Next, CertManager, See, Worker, Tick, Sign, StoreSecret, SetStatus, DeleteCertificate,
       SeeSecret, SeeCertificate, SeeWorkload, Drop, Reconcile, List, UpdateWorkload, NextKind,
       Fault, Crash, vars, bounds
  <2>1. crashes = 0
    BY <2>0 DEF TypeOK
  <2>2. \/ certSeen[c] <= label[w]
        \/ c \in queue
        \/ RestartingFor(c) /\ Pending(w)
    BY <1>2, <2>1 DEF StampInv
  <2>3. CASE certSeen[c] <= label[w]
    <3>1. label[w] <= label'[w] /\ label[w] \in Int /\ label'[w] \in Int /\ certSeen[c] \in Int
      BY LabelsGrow, NextType DEF TypeOK, Times, Gone
    <3>. QED  BY <1>2, <2>3, <3>1
  <2>4. CASE c \in queue
    BY <1>2, <2>4, QueuedIsKept
  <2>5. CASE RestartingFor(c) /\ Pending(w)
    BY <1>2, <2>5, PendingIsKept
  <2>. QED  BY <2>2, <2>3, <2>4, <2>5
<1>. QED  BY <1>1, <1>2

\* When the controller has nothing left to do, every workload that may be
\* restarted was, no earlier than the NotBefore of each certificate it uses: no
\* event, refused update, error or kind of workload is forgotten.
THEOREM NoWorkloadIsForgotten == Spec => []Stamped
<1>1. Init => TypeOK /\ ClockInv /\ GoneInv /\ StampInv
  <2>. SUFFICES ASSUME Init PROVE TypeOK /\ ClockInv /\ GoneInv /\ StampInv
    OBVIOUS
  <2>1. GoneInv
    BY DEF Init, GoneInv
  <2>2. StampInv
    <3>. SUFFICES ASSUME NEW w \in Workloads, NEW c \in Certs, c \in Uses[w], certSeen[c] > 0
                  PROVE  certSeen[c] <= label[w]
      BY DEF StampInv, Restarts
    <3>1. certSeen[c] = 1 /\ signed[c] = 1
      BY DEF Init
    <3>2. label[w] = 1
      BY <3>1 DEF Init
    <3>. QED  BY <3>1, <3>2
  <2>. QED  BY <2>1, <2>2, InitType, InitClock
<1>2. TypeOK /\ ClockInv /\ GoneInv /\ StampInv /\ [Next]_vars
        => (TypeOK /\ ClockInv /\ GoneInv /\ StampInv)'
  BY NextType, NextClock, NextGone, NextStamp
<1>3. TypeOK /\ StampInv => Stamped
  <2>. SUFFICES ASSUME StampInv, Quiet, crashes = 0, NEW w \in Workloads, NEW c \in Certs,
                       Restarts(w, c), issued[c] > 0
                PROVE  issued[c] <= label[w]
    BY DEF Stamped, TypeOK, Times, Gone
  <2>. QED  BY DEF StampInv, Quiet, RestartingFor
<1>. QED  BY <1>1, <1>2, <1>3, PTL DEF Spec
=============================================================================
