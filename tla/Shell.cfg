SPECIFICATION Spec
CONSTANTS
    MaxFiles = 3
    MaxSize = 1
    Names = {n1, n2, n3, n4}
    BadNames = {bad}
    a = a
    Bytes = {a}
    Texts <- MCTexts
    Fds <- MCFds
    SH_MAX_FILES = 2
    CatSize = 1
INVARIANTS
    SessionNamesItsFiles
    CreatedIsRegistered
PROPERTY EntriesAreForGood
