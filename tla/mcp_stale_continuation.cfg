\* No fault: a reader finishes the Operation before its worker does.
SPECIFICATION Spec
CONSTANTS
  NoOwner = NoOwner
  Workers = {w1}
  Hazards = {"read"}
  MaxFaults = 0
  MaxAttempts = 3
INVARIANTS
  NoStaleContinuation
CHECK_DEADLOCK FALSE
