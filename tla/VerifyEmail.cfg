SPECIFICATION FairSpec
CONSTANTS
    WAIT = 3
    CHECK_SECONDS = 2
    MaxSends = 3
    MaxChecks = 3
INVARIANTS
    TypeOK
    ResendHonest
    CreatesBounded
    NoLeakedTimer
    DeadOnlyUnsent
    CoverStays
PROPERTIES
    OnboardingKept
    VerifiedLeaves
    ResendComesBack
    TimersEnd
