SPECIFICATION Spec
CONSTANTS
    Endpoints <- MCEndpoints
    Codes <- MCCodes
    Resolutions <- MCResolutions
INVARIANTS
    TypeOK
    TunnelBeforeHttp
    ExitTruthUnlessHostless
    AddressesInOrder
PROPERTY ExitsOnceLost
CHECK_DEADLOCK FALSE
