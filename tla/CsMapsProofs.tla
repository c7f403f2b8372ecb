---------------------------- MODULE CsMapsProofs ----------------------------
(***************************************************************************)
(* Theorems about CsMaps, for any number of tenants, any namespaces,       *)
(* scopes and homes, any map found at the start and any bounds: its types, *)
(* no overlap in the map, and that it implements NamespaceMap.             *)
(***************************************************************************)
EXTENDS CsMaps, TLAPS

-----------------------------------------------------------------------------
(***************************************************************************)
(* The computation of a new map                                            *)
(***************************************************************************)

\* What UpdateCsMaps makes of a map is a map, and it is never empty.
LEMMA UpdatedType ==
    ASSUME NEW m \in SUBSET Entries, NEW s \in SUBSET Namespaces, NEW h \in Namespaces
    PROVE  Updated(m, s, h) \in SUBSET Entries
BY DEF Updated, Entries

\* UpdateCsMaps computes the claim of NamespaceMap.
LEMMA UpdatedIsClaimed ==
    ASSUME NEW m, NEW s, NEW h
    PROVE  Updated(m, s, h) = Promise!Claimed(m, s, h)
BY DEF Updated, Promise!Claimed

\* The first claim, on a map without entries, is the one CreateCsMaps writes.
LEMMA FirstClaim ==
    ASSUME NEW s, NEW h
    PROVE  Promise!Claimed({}, s, h) = {[csNs |-> h, requestNs |-> s]}
BY DEF Promise!Claimed

-----------------------------------------------------------------------------
(***************************************************************************)
(* Type correctness                                                        *)
(***************************************************************************)

\* A process without a copy.
LEMMA NoCopyType == NoCopy \in [entries : SUBSET Entries, fresh : BOOLEAN]
BY DEF NoCopy

\* Ending a process forgets its copy.
LEMMA ExitType ==
    ASSUME TypeOK, NEW t \in Tenants, Exit(t)
    PROVE  /\ proc' \in [Tenants -> {"down", "idle", "create", "update"}]
           /\ due' \in [Tenants -> BOOLEAN]
           /\ copy' \in [Tenants -> [entries : SUBSET Entries, fresh : BOOLEAN]]
           /\ \A u \in Tenants : proc'[u] # "update" => copy'[u] = NoCopy
BY NoCopyType DEF TypeOK, Exit

\* Ending the step on the map forgets the copy.
LEMMA DoneType ==
    ASSUME TypeOK, NEW t \in Tenants, Done(t)
    PROVE  /\ proc' \in [Tenants -> {"down", "idle", "create", "update"}]
           /\ copy' \in [Tenants -> [entries : SUBSET Entries, fresh : BOOLEAN]]
           /\ \A u \in Tenants : proc'[u] # "update" => copy'[u] = NoCopy
BY NoCopyType DEF TypeOK, Done

\* A write makes the copies of the others stale and keeps them well typed.
LEMMA PutType ==
    ASSUME TypeOK, NEW t \in Tenants, NEW m \in SUBSET Entries, Put(t, m)
    PROVE  /\ cm' \subseteq Entries /\ lost' \subseteq Tenants
           /\ proc' \in [Tenants -> {"down", "idle", "create", "update"}]
           /\ copy' \in [Tenants -> [entries : SUBSET Entries, fresh : BOOLEAN]]
           /\ \A u \in Tenants : proc'[u] # "update" => copy'[u] = NoCopy
<1>. USE NoCopyType DEF TypeOK, Put
<1>1. /\ cm' \subseteq Entries /\ lost' \subseteq Tenants
      /\ proc' \in [Tenants -> {"down", "idle", "create", "update"}]
  OBVIOUS
<1>2. ASSUME NEW u \in Tenants
      PROVE  copy'[u] \in [entries : SUBSET Entries, fresh : BOOLEAN]
  OBVIOUS
<1>3. copy' \in [Tenants -> [entries : SUBSET Entries, fresh : BOOLEAN]]
  BY <1>2
<1>4. ASSUME NEW u \in Tenants, proc'[u] # "update"
      PROVE  copy'[u] = NoCopy
  <2>1. CASE u = t  BY <2>1
  <2>2. CASE u # t
    <3>1. proc[u] # "update" /\ copy[u] = NoCopy  BY <1>4, <2>2
    <3>. QED  BY <2>2, <3>1 DEF NoCopy
  <2>. QED  BY <2>1, <2>2
<1>. QED  BY <1>1, <1>3, <1>4

\* Every operation keeps the types.
LEMMA NextType ==
    ASSUME TypeOK, [Next]_vars
    PROVE  TypeOK'
<1>. USE ScopesAssumption
<1>1. ASSUME NEW t \in Tenants, NEW s \in Scopes, Rescope(t, s)
      PROVE  TypeOK'
  BY <1>1 DEF TypeOK, Rescope
<1>2. ASSUME NEW t \in Tenants, NEW h \in Homes, Move(t, h)
      PROVE  TypeOK'
  BY <1>2 DEF TypeOK, Move
<1>3. ASSUME NEW t \in Tenants, Event(t)
      PROVE  TypeOK'
  BY <1>3 DEF TypeOK, Event
<1>4. ASSUME NEW t \in Tenants, Rollout(t) \/ Kill(t)
      PROVE  TypeOK'
  <2>1. Exit(t)  BY <1>4 DEF Rollout, Kill
  <2>. QED  BY <1>4, <2>1, ExitType DEF TypeOK, Rollout, Kill
<1>5. ASSUME NEW t \in Tenants, Start(t)
      PROVE  TypeOK'
  BY <1>5 DEF TypeOK, Start
<1>6. ASSUME NEW t \in Tenants, GetCmOfMapCs(t)
      PROVE  TypeOK'
  <2>1. CASE watch[t] = {} \/ t \in denied
    BY <1>6, <2>1, DoneType DEF TypeOK, GetCmOfMapCs, cluster
  <2>2. CASE ~(watch[t] = {} \/ t \in denied) /\ cm = Absent
    BY <1>6, <2>2 DEF TypeOK, GetCmOfMapCs, cluster
  <2>3. CASE ~(watch[t] = {} \/ t \in denied) /\ cm # Absent
    <3>1. [entries |-> cm, fresh |-> TRUE] \in [entries : SUBSET Entries, fresh : BOOLEAN]
      BY <2>3 DEF TypeOK
    <3>2. copy' \in [Tenants -> [entries : SUBSET Entries, fresh : BOOLEAN]]
      BY <1>6, <2>3, <3>1 DEF TypeOK, GetCmOfMapCs
    <3>3. proc' \in [Tenants -> {"down", "idle", "create", "update"}] /\ due' \in [Tenants -> BOOLEAN]
      BY <1>6, <2>3 DEF TypeOK, GetCmOfMapCs
    <3>4. \A u \in Tenants : proc'[u] # "update" => copy'[u] = NoCopy
      BY <1>6, <2>3 DEF TypeOK, GetCmOfMapCs
    <3>. QED  BY <1>6, <3>2, <3>3, <3>4 DEF TypeOK, GetCmOfMapCs, cluster
  <2>. QED  BY <2>1, <2>2, <2>3
<1>7. ASSUME NEW t \in Tenants, CreateCsMaps(t)
      PROVE  TypeOK'
  <2>1. CASE Put(t, {[csNs |-> home[t], requestNs |-> watch[t]]})
    <3>1. {[csNs |-> home[t], requestNs |-> watch[t]]} \in SUBSET Entries
      BY DEF TypeOK, Entries
    <3>. QED  BY <1>7, <2>1, <3>1, PutType DEF TypeOK, CreateCsMaps, cluster
  <2>2. CASE /\ proc' = [proc EXCEPT ![t] = "idle"] /\ lost' = lost \cup {t}
             /\ UNCHANGED <<cm, copy>>
    BY <1>7, <2>2 DEF TypeOK, CreateCsMaps, cluster
  <2>. QED  BY <1>7, <2>1, <2>2 DEF CreateCsMaps
<1>8. ASSUME NEW t \in Tenants, UpdateCsMaps(t)
      PROVE  TypeOK'
  <2>1. Updated(copy[t].entries, watch[t], home[t]) \in SUBSET Entries
    BY UpdatedType DEF TypeOK
  <2>2. CASE Put(t, Updated(copy[t].entries, watch[t], home[t])) /\ UNCHANGED due
    BY <1>8, <2>1, <2>2, PutType DEF TypeOK, UpdateCsMaps, cluster
  <2>3. CASE Exit(t) /\ UNCHANGED <<cm, lost>>
    BY <1>8, <2>3, ExitType DEF TypeOK, UpdateCsMaps, cluster
  <2>. QED  BY <1>8, <2>2, <2>3 DEF UpdateCsMaps
<1>9. ASSUME NEW t \in Tenants, Fault(t)
      PROVE  TypeOK'
  <2>1. CASE Exit(t) /\ UNCHANGED lost
    BY <1>9, <2>1, ExitType DEF TypeOK, Fault, cluster
  <2>2. CASE /\ due' = [due EXCEPT ![t] = FALSE]
             /\ lost' = lost \cup {t}
             /\ UNCHANGED <<proc, copy>>
    BY <1>9, <2>2 DEF TypeOK, Fault, cluster
  <2>. QED  BY <1>9, <2>1, <2>2 DEF Fault
<1>10. CASE UNCHANGED vars
  BY <1>10 DEF TypeOK, vars
<1>. QED
  BY <1>1, <1>2, <1>3, <1>4, <1>5, <1>6, <1>7, <1>8, <1>9, <1>10 DEF Next, Work

\* The types hold at the start.
LEMMA InitType == Init => TypeOK
BY ScopesAssumption, DenialsAssumption, FirstMapsAssumption, NoCopyType DEF Init, TypeOK

\* Every value of the map, of the operators' copies and of their queues has its
\* type, and a process holds a copy only between Get and Update.
THEOREM TypeCorrect == Spec => []TypeOK
BY InitType, NextType, PTL DEF Spec

-----------------------------------------------------------------------------
(***************************************************************************)
(* No overlap                                                              *)
(***************************************************************************)

\* A copy that is fresh is the map (the resource version is the one read), and a
\* process that means to write the map has a scope to claim.
CopyInv ==
    \A t \in Tenants :
        /\ copy[t].fresh => cm # Absent /\ copy[t].entries = cm
        /\ proc[t] \in {"create", "update"} => watch[t] # {}

\* What the refinement is proved from.
Inv == TypeOK /\ CopyInv /\ NoOverlap

\* A map is never the value for no map.
LEMMA MapExists == ASSUME NEW m \in SUBSET Entries PROVE m # Absent
BY FirstMapsAssumption

\* A write keeps what fresh copies are, for it makes every other copy stale.
LEMMA PutKeepsCopies ==
    ASSUME Inv, NEW t \in Tenants, NEW m \in SUBSET Entries, Put(t, m), watch' = watch
    PROVE  CopyInv'
<1>. USE DEF Inv, TypeOK, CopyInv, Put
<1>1. ASSUME NEW u \in Tenants, copy'[u].fresh
      PROVE  cm' # Absent /\ copy'[u].entries = cm'
  <2>1. cm' # Absent  BY MapExists
  <2>2. u # t  BY <1>1 DEF NoCopy
  <2>3. m = cm /\ copy'[u] = copy[u]  BY <1>1, <2>2
  <2>. QED  BY <1>1, <2>1, <2>3
<1>2. ASSUME NEW u \in Tenants, proc'[u] \in {"create", "update"}
      PROVE  watch'[u] # {}
  BY <1>2
<1>. QED  BY <1>1, <1>2

\* Ending a process or a step keeps what fresh copies are.
LEMMA EndKeepsCopies ==
    ASSUME Inv, NEW t \in Tenants, Exit(t) \/ Done(t), cm' = cm, watch' = watch
    PROVE  CopyInv'
BY DEF Inv, TypeOK, CopyInv, Exit, Done, NoCopy

\* No operation but Create and Update writes the map.
LEMMA MapKept ==
    ASSUME [Next]_vars,
           ~ \E t \in Tenants : CreateCsMaps(t) \/ UpdateCsMaps(t)
    PROVE  cm' = cm
BY DEF Next, vars, Work, Rescope, Move, Event, Rollout, Kill, Start, GetCmOfMapCs, Fault

\* Every operation keeps what fresh copies are.
LEMMA NextCopies ==
    ASSUME Inv, [Next]_vars
    PROVE  CopyInv'
<1>1. ASSUME NEW t \in Tenants, (\E s \in Scopes : Rescope(t, s)) \/ (\E h \in Homes : Move(t, h)) \/ Event(t)
      PROVE  CopyInv'
  <2>1. UNCHANGED <<cm, copy, proc, watch>>
    BY <1>1 DEF Rescope, Move, Event
  <2>. QED  BY <2>1 DEF Inv, CopyInv
<1>2. ASSUME NEW t \in Tenants, Rollout(t) \/ Kill(t)
      PROVE  CopyInv'
  BY <1>2, EndKeepsCopies DEF Rollout, Kill
<1>3. ASSUME NEW t \in Tenants, Start(t)
      PROVE  CopyInv'
  BY <1>3 DEF Start, Inv, TypeOK, CopyInv
<1>4. ASSUME NEW t \in Tenants, GetCmOfMapCs(t)
      PROVE  CopyInv'
  <2>1. CASE Done(t)
    BY <1>4, <2>1, EndKeepsCopies DEF GetCmOfMapCs
  <2>2. CASE watch[t] # {} /\ proc' = [proc EXCEPT ![t] = "create"] /\ UNCHANGED copy
    BY <1>4, <2>2 DEF GetCmOfMapCs, Inv, TypeOK, CopyInv
  <2>3. CASE /\ watch[t] # {} /\ cm # Absent
             /\ proc' = [proc EXCEPT ![t] = "update"]
             /\ copy' = [copy EXCEPT ![t] = [entries |-> cm, fresh |-> TRUE]]
    BY <1>4, <2>3 DEF GetCmOfMapCs, Inv, TypeOK, CopyInv
  <2>. QED  BY <1>4, <2>1, <2>2, <2>3 DEF GetCmOfMapCs
<1>5. ASSUME NEW t \in Tenants, CreateCsMaps(t)
      PROVE  CopyInv'
  <2>1. CASE Put(t, {[csNs |-> home[t], requestNs |-> watch[t]]})
    <3>1. {[csNs |-> home[t], requestNs |-> watch[t]]} \in SUBSET Entries
      BY DEF Inv, TypeOK, Entries
    <3>. QED  BY <1>5, <2>1, <3>1, PutKeepsCopies DEF CreateCsMaps
  <2>2. CASE UNCHANGED <<cm, copy>> /\ proc' = [proc EXCEPT ![t] = "idle"]
    BY <1>5, <2>2 DEF CreateCsMaps, Inv, TypeOK, CopyInv
  <2>. QED  BY <1>5, <2>1, <2>2 DEF CreateCsMaps
<1>6. ASSUME NEW t \in Tenants, UpdateCsMaps(t)
      PROVE  CopyInv'
  <2>1. Updated(copy[t].entries, watch[t], home[t]) \in SUBSET Entries
    BY UpdatedType DEF Inv, TypeOK
  <2>. QED  BY <1>6, <2>1, PutKeepsCopies, EndKeepsCopies DEF UpdateCsMaps
<1>7. ASSUME NEW t \in Tenants, Fault(t)
      PROVE  CopyInv'
  <2>1. CASE Exit(t)
    BY <1>7, <2>1, EndKeepsCopies DEF Fault
  <2>2. CASE UNCHANGED <<proc, copy>>
    BY <1>7, <2>2 DEF Fault, Inv, CopyInv
  <2>. QED  BY <1>7, <2>1, <2>2 DEF Fault
<1>8. CASE UNCHANGED vars
  BY <1>8 DEF vars, Inv, CopyInv
<1>. QED
  BY <1>1, <1>2, <1>3, <1>4, <1>5, <1>6, <1>7, <1>8 DEF Next, Work

\* The two writers write a map without overlap: Create one with a single entry,
\* Update one that ValidateCsMaps let pass.
LEMMA NextOverlap ==
    ASSUME Inv, [Next]_vars
    PROVE  NoOverlap'
<1>1. ASSUME NEW t \in Tenants, CreateCsMaps(t)
      PROVE  NoOverlap'
  BY <1>1 DEF CreateCsMaps, Put, Inv, NoOverlap
<1>2. ASSUME NEW t \in Tenants, UpdateCsMaps(t)
      PROVE  NoOverlap'
  BY <1>2 DEF UpdateCsMaps, Put, ValidateCsMaps, Inv, NoOverlap
<1>3. CASE cm' = cm
  BY <1>3 DEF Inv, NoOverlap
<1>. QED  BY <1>1, <1>2, <1>3, MapKept

\* The inductive invariant holds in every state.
LEMMA Invariance == Spec => []Inv
<1>1. Init => Inv
  <2>. SUFFICES ASSUME Init PROVE Inv
    OBVIOUS
  <2>1. CopyInv  BY DEF Init, CopyInv, NoCopy
  <2>2. NoOverlap  BY FirstMapsAssumption DEF Init, NoOverlap
  <2>. QED  BY <2>1, <2>2, InitType DEF Inv
<1>2. Inv /\ [Next]_vars => Inv'
  BY NextType, NextCopies, NextOverlap DEF Inv
<1>. QED  BY <1>1, <1>2, PTL DEF Spec

\* Whatever tenants claim at the same time, no namespace of the map has two
\* owners and no owner two entries.
THEOREM MapHasNoOverlap == Spec => []NoOverlap
BY Invariance, PTL DEF Inv

-----------------------------------------------------------------------------
(***************************************************************************)
(* The refinement                                                          *)
(***************************************************************************)

\* The map as NamespaceMap sees it.
MapBar == IF cm = Absent THEN {} ELSE cm

\* A Create that succeeds is the first claim.
LEMMA CreateClaims ==
    ASSUME Inv, NEW t \in Tenants, CreateCsMaps(t)
    PROVE  Promise!Next \/ MapBar' = MapBar
<1>1. CASE cm' = cm
  BY <1>1 DEF MapBar
<1>2. CASE cm = Absent /\ Put(t, {[csNs |-> home[t], requestNs |-> watch[t]]})
  <2>1. /\ home[t] \in Namespaces /\ watch[t] \in (SUBSET Namespaces) \ {{}}
    BY <1>2 DEF CreateCsMaps, Inv, TypeOK, CopyInv
  <2>2. {[csNs |-> home[t], requestNs |-> watch[t]]} \in SUBSET Entries
    BY <2>1 DEF Entries
  <2>3. MapBar = {} /\ MapBar' = {[csNs |-> home[t], requestNs |-> watch[t]]}
    BY <1>2, <2>2, MapExists DEF MapBar, Put
  <2>4. MapBar' = Promise!Claimed(MapBar, watch[t], home[t])
    BY <2>3, FirstClaim
  <2>5. Promise!Disjoint(MapBar')
    BY <2>3 DEF Promise!Disjoint
  <2>6. Promise!Claim(watch[t], home[t])
    BY <2>4, <2>5 DEF Promise!Claim, MapBar
  <2>. QED  BY <2>1, <2>6 DEF Promise!Next
<1>. QED  BY CreateCsMaps(t), <1>1, <1>2 DEF CreateCsMaps

\* An Update that succeeds is a claim on the map that it replaces: the copy it
\* started from is that map.
LEMMA UpdateClaims ==
    ASSUME Inv, NEW t \in Tenants, UpdateCsMaps(t)
    PROVE  Promise!Next \/ MapBar' = MapBar
<1>. DEFINE new == Updated(copy[t].entries, watch[t], home[t])
<1>1. CASE cm' = cm
  BY <1>1 DEF MapBar
<1>2. CASE ValidateCsMaps(new) /\ copy[t].fresh /\ Put(t, new)
  <2>1. /\ home[t] \in Namespaces /\ watch[t] \in (SUBSET Namespaces) \ {{}}
        /\ copy[t].entries \in SUBSET Entries
    BY <1>2 DEF UpdateCsMaps, Inv, TypeOK, CopyInv
  <2>2. MapBar = cm /\ copy[t].entries = cm
    BY <1>2 DEF MapBar, Inv, CopyInv
  <2>3. new \in SUBSET Entries
    BY <2>1, UpdatedType
  <2>4. MapBar' = new
    BY <1>2, <2>3, MapExists DEF MapBar, Put
  <2>5. MapBar' = Promise!Claimed(MapBar, watch[t], home[t])
    BY <2>2, <2>4, UpdatedIsClaimed
  <2>6. Promise!Disjoint(MapBar')
    BY <1>2, <2>4 DEF ValidateCsMaps, Promise!Disjoint
  <2>7. Promise!Claim(watch[t], home[t])
    BY <2>5, <2>6 DEF Promise!Claim, MapBar
  <2>. QED  BY <2>1, <2>7 DEF Promise!Next
<1>. QED  BY UpdateCsMaps(t), <1>1, <1>2 DEF UpdateCsMaps

\* CsMaps implements NamespaceMap: every step of every operator, crash, conflict
\* and retry is one tenant's whole claim on the current map, or leaves the map.
THEOREM ImplementsNamespaceMap == Spec => ClaimsAreAtomic
<1>1. Init => Promise!Init
  BY FirstMapsAssumption DEF Init, Promise!Init, Promise!Entries, Promise!Disjoint, Entries
<1>2. Inv /\ [Next]_vars => [Promise!Next]_MapBar
  <2>. SUFFICES ASSUME Inv, [Next]_vars
                PROVE  Promise!Next \/ MapBar' = MapBar
    OBVIOUS
  <2>1. CASE cm' = cm
    BY <2>1 DEF MapBar
  <2>. QED  BY <2>1, MapKept, CreateClaims, UpdateClaims
<1>. QED
  BY <1>1, <1>2, Invariance, PTL DEF Spec, ClaimsAreAtomic, Promise!Spec, MapBar
=============================================================================
