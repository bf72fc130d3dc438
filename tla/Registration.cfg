SPECIFICATION Spec
CONSTANTS
  Profiles <- MCProfiles
  Global <- MCGlobal
  Unreadable <- MCUnreadable
  MaxReady = 2
  MaxRegister = 2
  MaxEnrolPolls = 2
  MaxVerify = 1
  MaxProbes = 2
  MaxStarts = 3
CHECK_DEADLOCK FALSE
INVARIANT Inv
INVARIANT LicenceCurrent
PROPERTY StartEnds
PROPERTY LicenceNotLost
