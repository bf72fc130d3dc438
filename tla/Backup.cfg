CONSTANTS
  StartTimes <- NewYearsEve
  Gaps <- OneSecond
  Moments <- EveryDay
  MaxOps = 3
  MaxWrites = 1
  MaxFaults = 2
SPECIFICATION BackupSpec
CHECK_DEADLOCK FALSE
INVARIANT BackupInv
INVARIANT NamesTellTime
INVARIANT CommandsEndWell
