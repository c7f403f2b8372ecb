-------------------------- MODULE MCUpgradeCleanup --------------------------
(***************************************************************************)
(* Instances of UpgradeCleanup for TLC.                                    *)
(***************************************************************************)
EXTENDS UpgradeCleanup

CONSTANTS n1, n2, idp, none
\* A simple topology, separate services, minimal permissions, several namespaces.
MCSettings ==
    {[simple |-> TRUE, apart |-> FALSE, allowed |-> TRUE, kinds |-> FALSE],
     [simple |-> TRUE, apart |-> TRUE, allowed |-> FALSE, kinds |-> TRUE],
     [simple |-> FALSE, apart |-> TRUE, allowed |-> TRUE, kinds |-> TRUE]}
=============================================================================
