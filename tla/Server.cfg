SPECIFICATION Spec
CONSTANTS
    Clients <- MCClients
    Bounds <- MCBounds
INVARIANTS
    TypeOK
    RequestUnderstoodUnlessSplit
    GrantIsGenuine
    NothingBeforeAuthentication
PROPERTY HandshakeEndsUnlessShort
CHECK_DEADLOCK FALSE
