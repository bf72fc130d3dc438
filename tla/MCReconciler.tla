---------------------------- MODULE MCReconciler ----------------------------
(***************************************************************************)
(* Instances of Reconciler for TLC.                                        *)
(***************************************************************************)
EXTENDS Reconciler

CONSTANTS p1, p2

OneId       == {1}
TwoProfiles == {p1, p2}
=============================================================================
