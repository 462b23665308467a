SPECIFICATION Spec
CONSTANTS
    Clients <- MCUserpass
    Bounds <- MCBounds
PROPERTY HandshakeEnds
CHECK_DEADLOCK FALSE
