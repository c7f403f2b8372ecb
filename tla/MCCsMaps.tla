------------------------------ MODULE MCCsMaps ------------------------------
(***************************************************************************)
(* Instances of CsMaps for TLC.                                            *)
(***************************************************************************)
EXTENDS CsMaps

CONSTANTS t1, t2, a, b, c, none

MCScopes == {{}, {a}, {a, b}, {b, c}}

\* No map, or one a former tenant left behind.
MCFirstMaps == {Absent, {[csNs |-> b, requestNs |-> {b, c}]}}
MCDenials == {{}, {t2}}
=============================================================================
