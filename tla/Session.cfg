SPECIFICATION Spec
CONSTANTS
    Modes = {"sync", "async"}
    Opts <- MCOpts
    Targets <- MCTargets
    AppData <- MCAppData
    MaxApp = 1
    Bounds <- MCBounds
INVARIANTS
    RelayAligned
    VerdictDelivered
PROPERTIES
    ImplementsTunnel
    SessionSettles
CHECK_DEADLOCK FALSE
