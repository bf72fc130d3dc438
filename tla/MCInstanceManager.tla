------------------------- MODULE MCInstanceManager -------------------------
(***************************************************************************)
(* Instances of InstanceManager for TLC.                                   *)
(***************************************************************************)
EXTENDS InstanceManager

CONSTANT i1

OneId == {i1}
=============================================================================
