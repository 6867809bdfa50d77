SPECIFICATION Spec
CONSTANTS
    MaxProcs = 4
    SpinLimit = 2
    MaxFiles = 1
    TfsReady = TRUE
    MaxDepth = 8
INVARIANT AnsweredCallerContinues
CHECK_DEADLOCK FALSE
