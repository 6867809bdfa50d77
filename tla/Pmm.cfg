SPECIFICATION Spec
CONSTANTS
    MaxPages = 10
    ReservedPages = 3
    PageSize = 4096
    PageKiB = 4
    MemSizes <- MCMemSizes
    Addresses <- MCAddresses
INVARIANTS
    TypeOK
    CountIsExact
    ScanStaysInside
    RefusesOnlyWhenFull
    FencesStaySet
PROPERTY PageAllocatorSpec
