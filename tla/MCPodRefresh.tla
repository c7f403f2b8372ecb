---------------------------- MODULE MCPodRefresh ----------------------------
(***************************************************************************)
(* Instances of PodRefresh for TLC: a deployment and a daemonset, one of   *)
(* which uses the secrets of all certificates, and a statefulset.           *)
(***************************************************************************)
EXTENDS PodRefresh, TLC

CONSTANTS c1, c2, dep, sts, ds, none

MCKind == [w \in Workloads |-> CASE w = dep -> 1 [] w = sts -> 2 [] w = ds -> 3]
MCUses == [w \in Workloads |-> IF w = dep THEN Certs ELSE {c1}]

=============================================================================
