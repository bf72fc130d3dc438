------------------------------ MODULE MCBackup ------------------------------
(***************************************************************************)
(* An instance of Backup for TLC: three commands in the three seconds at   *)
(* the turn of a year, and the calendar on every day of 68 years, at its   *)
(* first and at its last second.                                           *)
(***************************************************************************)
EXTENDS Backup

NewYearsEve == {1704067198}  \* 31 December 2023, 23:59:58
OneSecond == {1}
\* 1 January 1970 to 18 January 2038, the last day TLC's integers hold.
EveryDay == {86400 * d + s : d \in 0..24854, s \in {0, 86399}}
=============================================================================
