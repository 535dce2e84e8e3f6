SPECIFICATION FairSpec
CONSTANTS
    Calls = {c1, c2}
    MaxDepth = 5
CONSTRAINT Unraced
INVARIANTS
    TypeOK
    DialogOwned
    CoverVerified
    UserRecorded
    OneCover
PROPERTY SignedInArrives
CHECK_DEADLOCK FALSE
