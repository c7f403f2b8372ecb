----------------------------- MODULE MCTopology -----------------------------
(***************************************************************************)
(* Instances of Topology for TLC.                                          *)
(***************************************************************************)
EXTENDS Topology, TLC

CONSTANTS op, ms, foreign, none

=============================================================================
