SPECIFICATION Spec
CONSTANTS
    N = 3
    MaxPuts = 2
CONSTRAINT Unraced
INVARIANTS
    TypeOK
    HomeAgrees
PROPERTIES
    RegisterKept
CHECK_DEADLOCK FALSE
