SPECIFICATION Spec
CONSTANTS
    MaxProcs = 5
    SpinLimit = 2
    MaxFiles = 2
    TfsReady = TRUE
    MaxDepth = 8
INVARIANTS
    TypeOK
    FsServerHoldsPid2
    CurrentExecutes
    RoundAscends
    NoMailToTheDead
    MailFollowsProtocol
    ServerNeverWaits
    LateAnswer
PROPERTIES
    BuriedForGood
    NoReuseUnderRequest
    MailboxesSpec
CHECK_DEADLOCK FALSE
