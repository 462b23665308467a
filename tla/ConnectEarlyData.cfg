SPECIFICATION Spec
CONSTANTS
    Modes = {"sync", "async"}
    Opts <- MCOpts
    Targets <- MCTargets
    Answers <- MCAnswers
    AppData <- MCAppData
    MaxApp = 1
INVARIANT ReplyReported
CHECK_DEADLOCK FALSE
