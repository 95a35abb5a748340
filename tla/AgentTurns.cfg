SPECIFICATION Spec
CONSTANTS
    MaxTurns = 2
    MaxIterations = 2
    MaxCalls = 1
    MaxStops = 2
INVARIANTS TypeOK RequestIsWhole HistoryPaired CancelledLeavesNoTrace
    OutcomeAnnounced
PROPERTY DiskOnlyGrows
CHECK_DEADLOCK FALSE
