SPECIFICATION Spec
CONSTANTS
    Modes = {"sync", "async"}
    Opts <- MCOpts
    Targets <- MCTargets
    Answers <- MCAnswers
    AppData <- MCAppData
    MaxApp = 1
INVARIANTS
    TypeOK
    SuccessIsGenuine
    NegotiationRespected
    StageInv
    NoStrayTransportError
    TransportErrorKept
    ReplyReportedAlone
PROPERTIES
    AnsweredCompletes
    ImplementsService
CHECK_DEADLOCK FALSE
