\* One stall: the second worker finds the intent still prepared.
SPECIFICATION Spec
CONSTANTS
  NoOwner = NoOwner
  Workers = {w1, w2}
  Hazards = {"stall"}
  MaxFaults = 1
  MaxAttempts = 3
INVARIANTS
  AtMostOneDispatch
CHECK_DEADLOCK FALSE
