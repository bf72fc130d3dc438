CONSTANTS
  MaxLines = 3
  Widths <- SomeWidths
  Labelled <- SecondLine
  MaxSpawns = 2
  Batch = 4
  PendingMax = 4
  RescueTicks = 2
  BusCap = 1
  Chunk = 6
  MaxPage = 2
  Limits <- SmallLimits
  Offsets <- SmallOffsets
SPECIFICATION LogsSpec
INVARIANT LogsInv
INVARIANT PageIsTail
PROPERTY GapsShow
PROPERTY CatchesUp
