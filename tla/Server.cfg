CONSTANTS
  i1 = i1
  i2 = i2
  Instances <- TwoInstances
  MaxRequests = 1
  MaxStreams = 1
SPECIFICATION Spec
CHECK_DEADLOCK FALSE
INVARIANT Inv
PROPERTY NoStartBehindStopAll
PROPERTY ShutdownEnds
