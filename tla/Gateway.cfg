CONSTANTS
    c1 = c1
    p1 = p1
    Clients <- OneClient
    UserRows <- ThreeRows
    Passwords <- OnePassword
    NoPassword = NoPassword
    Keep = Keep
SPECIFICATION FairSpec
INVARIANT Inv
PROPERTY AuthHolds
PROPERTY ConfigConverges
PROPERTY ListenersClose
