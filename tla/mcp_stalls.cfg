\* Two workers hold the same Tool Call when a lease lapses under a live one.
SPECIFICATION Spec
CONSTANTS
  NoOwner = NoOwner
  Workers = {w1, w2}
  Hazards = {"cancel", "read", "revoke", "stall", "crash", "error", "lost_ack"}
  MaxFaults = 2
  MaxAttempts = 3
INVARIANTS
  FailureIsHonest
  SuccessIsProved
  DispatchAccounted
  LedgersInv
CHECK_DEADLOCK FALSE
