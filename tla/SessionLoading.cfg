SPECIFICATION Spec
CONSTANTS
    Calls = {c1}
    MaxDepth = 4
INVARIANT LoadingHidden
CHECK_DEADLOCK FALSE
