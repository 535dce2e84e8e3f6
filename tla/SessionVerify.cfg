SPECIFICATION Spec
CONSTANTS
    Calls = {c1}
    MaxDepth = 4
INVARIANT VerifyHasUser
CHECK_DEADLOCK FALSE
