------------------------------- MODULE CsMaps -------------------------------
(***************************************************************************)
(* kube-public/common-service-maps, the one object the operators of        *)
(* several tenants share.  Each reconcile of a master CR reads it, puts    *)
(* the tenant's WATCH_NAMESPACE in front, takes those namespaces out of    *)
(* the other entries and writes it back with the resource version it read. *)
(* Every failure but a missing permission and a failed Create ends the     *)
(* process, and the kubelet starts it again.                               *)
(*                                                                         *)
(* A map is its set of entries (their order is never read).  A copy is     *)
(* fresh while the object in the cluster has the version that was read.    *)
(***************************************************************************)
EXTENDS Integers, FiniteSets

CONSTANTS
    Tenants,      \* the operators, one per tenant
    Namespaces,
    ControlNs,    \* "cs-control"
    Scopes,       \* values of WATCH_NAMESPACE; {} is AllNamespaces mode
    Homes,        \* values of servicesNamespace
    FirstMaps,    \* entries of the maps found at the start
    Denials,      \* the sets of tenants whose service account may not touch the map
    Absent,       \* no such ConfigMap: not a set of entries
    MaxEdits,     \* bound: changes of a scope or a home
    MaxFaults     \* bound: failing calls and killed processes, together

ASSUME ScopesAssumption == Scopes \subseteq SUBSET Namespaces /\ Homes \subseteq Namespaces
ASSUME DenialsAssumption == Denials \subseteq SUBSET Tenants

VARIABLES
    cm,      \* API server: the entries of the ConfigMap, or Absent
    scope,   \* API server: WATCH_NAMESPACE in the operator's Deployment
    denied,  \* API server: the tenants without the permission, never changed
    home,    \* API server: the services namespace in the master CR
    proc,    \* what each operator's process is doing
    watch,   \* CSData.WatchNamespaces of the process
    due,     \* a reconcile of the master CR is in the work queue
    copy,    \* the ConfigMap as read: its entries and whether they are current
    lost,    \* operators whose last turn left the map alone, and went on
    edits, faults

vars == <<cm, scope, denied, home, proc, watch, due, copy, lost, edits, faults>>
cluster == <<scope, denied, home, edits>>

Entries == [csNs : Namespaces, requestNs : SUBSET Namespaces]
NoCopy == [entries |-> {}, fresh |-> FALSE]

\* A map found at the start was written by the same code.
ASSUME FirstMapsAssumption ==
    /\ Absent \notin SUBSET Entries
    /\ \A m \in FirstMaps \ {Absent} :
           /\ m \subseteq Entries
           /\ \A e, f \in m : e # f => e.csNs # f.csNs /\ e.requestNs \cap f.requestNs = {}

Init ==
    /\ cm \in FirstMaps
    /\ scope \in [Tenants -> Scopes \ {{}}]
    /\ denied \in Denials
    /\ home \in [Tenants -> Homes]
    /\ proc = [t \in Tenants |-> "down"]
    /\ watch = [t \in Tenants |-> {}]
    /\ due = [t \in Tenants |-> FALSE]
    /\ copy = [t \in Tenants |-> NoCopy]
    /\ lost = {}
    /\ edits = 0
    /\ faults = 0

-----------------------------------------------------------------------------
(* Around the operators.                                                    *)

\* The installer changes the namespaces an operator watches: the Deployment has
\* the new environment, the process that runs still has the old one.
Rescope(t, s) ==
    /\ edits < MaxEdits /\ scope[t] # s
    /\ scope' = [scope EXCEPT ![t] = s]
    /\ edits' = edits + 1
    /\ UNCHANGED <<cm, denied, home, proc, watch, due, copy, lost, faults>>

\* A user moves the services of a tenant (before they run: UpdateConfigStatus).
Move(t, h) ==
    /\ edits < MaxEdits /\ home[t] # h
    /\ home' = [home EXCEPT ![t] = h]
    /\ due' = [due EXCEPT ![t] = proc[t] # "down"]
    /\ edits' = edits + 1
    /\ UNCHANGED <<cm, scope, denied, proc, watch, copy, lost, faults>>

\* Any other event that enqueues the master CR.
Event(t) ==
    /\ proc[t] # "down"
    /\ due' = [due EXCEPT ![t] = TRUE]
    /\ UNCHANGED <<cm, scope, denied, home, proc, watch, copy, lost, edits, faults>>

\* The process is gone: os.Exit(1), a rollout or a crash.
Exit(t) ==
    /\ proc' = [proc EXCEPT ![t] = "down"]
    /\ copy' = [copy EXCEPT ![t] = NoCopy]
    /\ due' = [due EXCEPT ![t] = FALSE]

\* The Deployment replaces a process that has an old environment.
Rollout(t) ==
    /\ proc[t] # "down" /\ watch[t] # scope[t]
    /\ Exit(t)
    /\ UNCHANGED <<cm, scope, denied, home, watch, lost, edits, faults>>

Kill(t) ==
    /\ proc[t] # "down" /\ faults < MaxFaults
    /\ Exit(t)
    /\ faults' = faults + 1
    /\ UNCHANGED <<cm, scope, denied, home, watch, lost, edits>>

\* main reads WATCH_NAMESPACE; the first List enqueues the master CR.
Start(t) ==
    /\ proc[t] = "down"
    /\ proc' = [proc EXCEPT ![t] = "idle"]
    /\ watch' = [watch EXCEPT ![t] = scope[t]]
    /\ due' = [due EXCEPT ![t] = TRUE]
    /\ UNCHANGED <<cm, scope, denied, home, copy, lost, edits, faults>>

-----------------------------------------------------------------------------
(* The map in a reconcile of the master CR.                                 *)

\* The step is over, the reconcile goes on.
Done(t) ==
    /\ proc' = [proc EXCEPT ![t] = "idle"]
    /\ copy' = [copy EXCEPT ![t] = NoCopy]

\* AllNamespaces mode and a missing permission skip the map.
GetCmOfMapCs(t) ==
    /\ proc[t] = "idle" /\ due[t]
    /\ due' = [due EXCEPT ![t] = FALSE]
    /\ IF watch[t] = {} \/ t \in denied
       THEN Done(t)
       ELSE IF cm = Absent
       THEN /\ proc' = [proc EXCEPT ![t] = "create"]
            /\ UNCHANGED copy
       ELSE /\ proc' = [proc EXCEPT ![t] = "update"]
            /\ copy' = [copy EXCEPT ![t] = [entries |-> cm, fresh |-> TRUE]]
    /\ UNCHANGED <<cm, cluster, watch, lost, faults>>

\* The object now has these entries and, if they differ, another version.
Put(t, entries) ==
    /\ proc' = [proc EXCEPT ![t] = "idle"]
    /\ cm' = entries
    /\ copy' = [u \in Tenants |->
                   IF u = t THEN NoCopy
                   ELSE IF entries = cm THEN copy[u]
                   ELSE [copy[u] EXCEPT !.fresh = FALSE]]
    /\ lost' = lost \ {t}

\* Mutant: WATCH_NAMESPACE is not split at its commas.
CreateUnsplit(t) ==
    /\ proc[t] = "create" /\ cm = Absent
    /\ Put(t, {[csNs |-> home[t], requestNs |-> {watch[t]}]})
    /\ UNCHANGED <<cluster, watch, due, faults>>

\* The error of Create is logged, and the caller is told that all is well.
CreateCsMaps(t) ==
    /\ proc[t] = "create"
    /\ \/ /\ cm = Absent
          /\ Put(t, {[csNs |-> home[t], requestNs |-> watch[t]]})
          /\ UNCHANGED faults
       \/ /\ cm # Absent \/ faults < MaxFaults
          /\ faults' = IF cm = Absent THEN faults + 1 ELSE faults
          /\ proc' = [proc EXCEPT ![t] = "idle"]
          /\ lost' = lost \cup {t}
          /\ UNCHANGED <<cm, copy>>
    /\ UNCHANGED <<cluster, watch, due>>

\* The tenant's entry, and what its scope leaves of the others.
Updated(entries, s, h) ==
    LET Others == {e \in entries : e.csNs \notin s}
        Left(e) == [e EXCEPT !.requestNs = @ \ s]
    IN  {[csNs |-> h, requestNs |-> s]} \cup {f \in {Left(e) : e \in Others} : f.requestNs # {}}

\* Mutant: only the request namespaces are compared.
ValidNoOwner(entries) ==
    \A e, f \in entries : e # f => e.requestNs \cap f.requestNs = {}

ValidateCsMaps(entries) ==
    /\ \A e \in entries : ControlNs # e.csNs /\ ControlNs \notin e.requestNs
    /\ \A e, f \in entries : e # f => e.csNs # f.csNs /\ e.requestNs \cap f.requestNs = {}

\* Mutant: the write carries no resource version.
UpdateBlind(t) ==
    /\ proc[t] = "update"
    /\ LET new == Updated(copy[t].entries, watch[t], home[t])
       IN  IF ValidateCsMaps(new)
           THEN Put(t, new) /\ UNCHANGED due
           ELSE Exit(t) /\ UNCHANGED <<cm, lost>>
    /\ UNCHANGED <<cluster, watch, faults>>

\* Mutant: a conflict is logged, and the reconcile goes on.
UpdateForgets(t) ==
    /\ proc[t] = "update"
    /\ LET new == Updated(copy[t].entries, watch[t], home[t])
       IN  IF ValidateCsMaps(new)
           THEN /\ IF copy[t].fresh THEN Put(t, new) ELSE Done(t) /\ UNCHANGED <<cm, lost>>
                /\ UNCHANGED due
           ELSE Exit(t) /\ UNCHANGED <<cm, lost>>
    /\ UNCHANGED <<cluster, watch, faults>>

\* A map that does not validate and a write in conflict end the process.
UpdateCsMaps(t) ==
    /\ proc[t] = "update"
    /\ LET new == Updated(copy[t].entries, watch[t], home[t])
       IN  IF ValidateCsMaps(new) /\ copy[t].fresh
           THEN Put(t, new) /\ UNCHANGED due
           ELSE Exit(t) /\ UNCHANGED <<cm, lost>>
    /\ UNCHANGED <<cluster, watch, faults>>

\* A call fails.  An access review before Get is taken for a missing permission
\* and skips the map; any other failure ends the process.
Fault(t) ==
    /\ faults < MaxFaults
    /\ faults' = faults + 1
    /\ \/ /\ proc[t] = "idle" /\ due[t] /\ watch[t] # {} /\ t \notin denied
          /\ due' = [due EXCEPT ![t] = FALSE]
          /\ lost' = lost \cup {t}
          /\ UNCHANGED <<proc, copy>>
       \/ /\ proc[t] = "update" \/ (proc[t] = "idle" /\ due[t] /\ watch[t] # {})
          /\ Exit(t)
          /\ UNCHANGED lost
    /\ UNCHANGED <<cm, cluster, watch>>

Work(t) == GetCmOfMapCs(t) \/ CreateCsMaps(t) \/ UpdateCsMaps(t)

Next ==
    \E t \in Tenants :
        \/ \E s \in Scopes : Rescope(t, s)
        \/ \E h \in Homes : Move(t, h)
        \/ Event(t) \/ Rollout(t) \/ Kill(t) \/ Start(t)
        \/ Work(t) \/ Fault(t)

Spec == Init /\ [][Next]_vars

\* The kubelet starts a process that ended, the Deployment rolls out, a worker
\* takes what is in its queue.  Nothing is assumed of users and faults.
FairSpec == Spec /\ \A t \in Tenants : WF_vars(Start(t)) /\ WF_vars(Rollout(t)) /\ WF_vars(Work(t))
-----------------------------------------------------------------------------
(* Properties.                                                              *)

\* The type invariant: a process holds a copy only between Get and Update.
TypeOK ==
    /\ cm = Absent \/ cm \subseteq Entries
    /\ scope \in [Tenants -> SUBSET Namespaces] /\ watch \in [Tenants -> SUBSET Namespaces]
    /\ home \in [Tenants -> Namespaces]
    /\ proc \in [Tenants -> {"down", "idle", "create", "update"}]
    /\ denied \subseteq Tenants
    /\ due \in [Tenants -> BOOLEAN] /\ lost \subseteq Tenants
    /\ copy \in [Tenants -> [entries : SUBSET Entries, fresh : BOOLEAN]]
    /\ \A t \in Tenants : proc[t] # "update" => copy[t] = NoCopy

\* "common-service-maps has no scope overlapping" (ValidateCsMaps): whatever
\* tenants claim at the same time, wherever they keep their services, no
\* namespace has two owners and no owner two entries.
NoOverlap ==
    cm # Absent =>
        \A e, f \in cm : e # f => e.csNs # f.csNs /\ e.requestNs \cap f.requestNs = {}

\* The promise to the tenants: the map as NamespaceMap sees it.
Promise == INSTANCE NamespaceMap WITH map <- IF cm = Absent THEN {} ELSE cm

\* CsMaps implements NamespaceMap: every write of UpdateCsMaps and CreateCsMaps
\* is one tenant's claim on the map it overwrites, so that no claim of another
\* tenant made since the read is undone.
ClaimsAreAtomic == Promise!Spec

\* The tenant's own entry is in the map.
Mapped(t) == cm # Absent /\ [csNs |-> home[t], requestNs |-> scope[t]] \in cm

\* A scope that holds its services namespace, as the webhook demands, and that
\* no other tenant's scope or services namespace meets.
Sound(t) ==
    /\ t \notin denied /\ home[t] \in scope[t] /\ ControlNs \notin scope[t]
    /\ \A u \in Tenants \ {t} :
           home[u] \notin scope[t] /\ scope[t] \cap (scope[u] \cup watch[u]) = {}

\* A tenant whose scope is always sound is in the map for good in the end,
\* whatever conflicts, crashes and claims of others it meets on the way: the
\* process that lost ends, starts again and claims again (os.Exit(1) in
\* ReconcileMasterCR).  The one exception is a claim the code gives up without
\* an error.
EventuallyMapped ==
    \A t \in Tenants : []Sound(t) => <>[](Mapped(t) \/ t \in lost)
=============================================================================
