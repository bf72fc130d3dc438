CONSTANTS
    i1 = i1
    i2 = i2
    c1 = c1
    c2 = c2
    Profiles <- TwoProfiles
    Instances <- TwoInstances
    Clients <- TwoClients
    Patches <- SixPatches
SPECIFICATION Spec
SYMMETRY Symmetry
INVARIANT Inv
PROPERTY BindingNeverShares
