---------------------------- MODULE NamespaceMap ----------------------------
(***************************************************************************)
(* What kube-public/common-service-maps promises to the tenants of a       *)
(* cluster, with no word on how it is kept: the map assigns namespaces to  *)
(* services namespaces, and changes only when one tenant claims its whole  *)
(* scope, at once and on the map as it is.  CsMaps, where a claim is a     *)
(* read, a computation and a conditional write in processes that end and   *)
(* start again, implements it.                                             *)
(***************************************************************************)
CONSTANTS Namespaces, ControlNs

VARIABLE map   \* a set of entries: request namespaces, and whom they map to

Entries == [csNs : Namespaces, requestNs : SUBSET Namespaces]

\* No namespace has two owners, no owner two entries.
Disjoint(m) ==
    \A e, f \in m : e # f => e.csNs # f.csNs /\ e.requestNs \cap f.requestNs = {}

\* The map after the tenant with services namespace home claims scope: every
\* namespace outside the scope keeps its owner, unless the owner itself is in
\* the scope.
Claimed(m, scope, home) ==
    {[csNs |-> home, requestNs |-> scope]}
        \cup {f \in {[e EXCEPT !.requestNs = @ \ scope] : e \in {d \in m : d.csNs \notin scope}} :
                f.requestNs # {}}

Claim(scope, home) ==
    /\ map' = Claimed(map, scope, home)
    /\ Disjoint(map')

Init == map \subseteq Entries /\ Disjoint(map)

Next == \E scope \in (SUBSET Namespaces) \ {{}}, home \in Namespaces : Claim(scope, home)

Spec == Init /\ [][Next]_map
=============================================================================
