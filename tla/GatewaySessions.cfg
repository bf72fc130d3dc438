SPECIFICATION Spec
CONSTANTS
  Conns = {c1, c2}
  Clients <- MCClients
  Configs <- MCConfigs
  Width <- MCWidth
  Instances = {1}
  MaxGen = 2
  MaxNow = 2
  MaxChunks = 1
  Second = 2
CHECK_DEADLOCK FALSE
INVARIANT Inv
INVARIANT RateBounded
PROPERTY StrangersCostNothing
PROPERTY WaitsEnd
