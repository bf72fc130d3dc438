CONSTANTS
    p1 = p1
    p2 = p2
    Ids <- OneId
    Profiles <- TwoProfiles
    NoProfile = NoProfile
    AutoRestart = {TRUE, FALSE}
    MaxGap = 2
    MaxEdits = 5
    MaxBirths = 1
    StopMayFail = TRUE
SPECIFICATION FairSpec
INVARIANT Inv
INVARIANT CommandsServed
PROPERTY BackoffHonoured
PROPERTY Converges
