------------------------------ MODULE MCServer ------------------------------
(***************************************************************************)
(* An instance of Server for TLC.                                          *)
(***************************************************************************)
EXTENDS Server, TLC

CONSTANTS i1, i2

TwoInstances == {i1, i2}
=============================================================================
