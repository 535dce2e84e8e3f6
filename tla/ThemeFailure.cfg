SPECIFICATION Spec
CONSTANTS
    N = 2
    MaxPuts = 1
PROPERTY FailureReported
CHECK_DEADLOCK FALSE
