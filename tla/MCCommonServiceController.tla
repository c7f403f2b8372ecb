--------------------- MODULE MCCommonServiceController ---------------------
(***************************************************************************)
(* Instances of CommonServiceController for TLC.                           *)
(***************************************************************************)
EXTENDS CommonServiceController, TLC

CONSTANTS cs, app, sc1, sc2, none


=============================================================================
