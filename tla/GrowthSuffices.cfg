SPECIFICATION Spec
CONSTANTS
    MaxPages = 5
    ReservedPages = 1
    PageSize = 64
    PageKiB = 1
    MemSizes <- MCMemSizes
    WordSize = 1024
    HeaderSize = 12
    MinSplit = 28
    Sizes <- MCSizes
INVARIANT GrowthSuffices
