SPECIFICATION Spec
CONSTANTS
    Opts <- MCOpts
    Targets <- MCTargets
    Users <- MCUsers
    Bounds <- MCBounds
    Kinds = {"greeting", "userpass", "request", "request_v4", "reply", "reply_v4"}
INVARIANTS
    NegotiationInterop
    RequestInterop
    ReplyInterop
    VerdictV4Interop
    MessagesFit
CHECK_DEADLOCK FALSE
