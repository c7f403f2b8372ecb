------------------------- MODULE MCNoOLMController -------------------------
(***************************************************************************)
(* Instances of NoOLMController for TLC.                                   *)
(***************************************************************************)
EXTENDS NoOLMController

CONSTANTS cs, app, clone, none

\* A larger profile, a count of its own, the profile of the start, paused.
MCEdited ==
    {[size |-> 2, own |-> 0, paused |-> FALSE], [size |-> 1, own |-> 3, paused |-> FALSE],
     [size |-> 1, own |-> 0, paused |-> FALSE], [size |-> 1, own |-> 0, paused |-> TRUE]}
=============================================================================
