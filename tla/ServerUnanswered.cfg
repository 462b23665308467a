SPECIFICATION Spec
CONSTANTS
    Clients <- MCDomain
    Bounds <- MCBounds
INVARIANT RequestAnswered
CHECK_DEADLOCK FALSE
