------------------------------- MODULE MCLogs -------------------------------
(***************************************************************************)
(* An instance of LogPages for TLC.                                        *)
(***************************************************************************)
EXTENDS LogPages

SomeWidths   == <<{2}, {0, 2}, {1}>>
SecondLine   == {2}
SmallLimits  == {0, 3}
SmallOffsets == {0, 1}
=============================================================================
