SPECIFICATION Spec
CONSTANTS
    MaxFiles = 3
    MaxSize = 2
    Names = {n1, n2, n3, n4}
    BadNames = {bad}
    a = a
    b = b
    Bytes = {a, b}
    Texts <- MCTexts
    Fds <- MCFds
INVARIANT
    TypeOK
PROPERTIES
    FileStoreSpec
    HandlesAreCounted
