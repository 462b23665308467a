SPECIFICATION Spec
CONSTANTS
    Modes = {"sync", "async"}
    Targets <- MCTargets
    Users <- MCUsers
    Answers <- MCAnswers
    AppData <- MCAppData
    MaxApp = 1
INVARIANTS
    TypeOK
    SuccessIsGenuineV4
    ReplyReportedV4
    TransportErrorKeptV4
PROPERTIES
    TerminatesV4
    ImplementsServiceV4
CHECK_DEADLOCK FALSE
