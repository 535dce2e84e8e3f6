SPECIFICATION Spec
CONSTANTS
    WAIT = 3
    CHECK_SECONDS = 2
    MaxSends = 3
    MaxChecks = 1
INVARIANT ResendNeverEarly
