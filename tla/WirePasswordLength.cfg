SPECIFICATION Spec
CONSTANTS
    Opts <- MCOptsUnequal
    Targets <- MCTargets
    Users <- MCUsers
    Bounds <- MCBounds
    Kinds = {"userpass"}
INVARIANT PasswordLength
CHECK_DEADLOCK FALSE
