CONSTANTS
  Sessions <- Threes
  MaxInputs = 3
  MaxInbox = 2
SPECIFICATION Spec
INVARIANT KeyUpEndsHold
CHECK_DEADLOCK FALSE
