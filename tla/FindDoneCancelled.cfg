SPECIFICATION Spec
CONSTANTS
    MaxTurns = 1
    MaxIterations = 1
    MaxCalls = 0
    MaxStops = 1
INVARIANT NoDoneAndCancelled
CHECK_DEADLOCK FALSE
