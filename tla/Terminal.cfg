SPECIFICATION WebSpec
CONSTANTS
    WebNames <- MCNames
    WebTexts <- MCTexts
    Newline <- MCNewline
    StateLists <- MCStateLists
    MaxCommands = 4
INVARIANTS
    TypeOK
    FilesAreTheHistory
PROPERTY ModeIsDecided
