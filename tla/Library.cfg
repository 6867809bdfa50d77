SPECIFICATION Spec
CONSTANTS
    IntBits = 8
    Space = 32
    NUL = 0
    NameLen = 8
    Memories <- MCMemories
    Fills <- MCFills
    Values <- MCValues
    Bases <- MCBases
    CommandLines <- MCCommandLines
    Kernels <- MCKernels
    Files <- MCFiles
    Texts <- MCTexts
    Addresses <- MCAddresses
    Words <- MCWords
    Chars <- MCChars
INVARIANTS
    StringsAgree
    TokensAreWords
    ImageArrives
    SystemCallsPass
CHECK_DEADLOCK FALSE
