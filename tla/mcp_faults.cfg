\* Workers and their transactions fail; the Tool Call is decided all the same.
SPECIFICATION Spec
CONSTANTS
  NoOwner = NoOwner
  Workers = {w1, w2}
  Hazards = {"cancel", "read", "revoke", "expire", "unregistered", "crash", "error", "lost_ack"}
  MaxFaults = 2
  MaxAttempts = 4
INVARIANTS
  IInv
  AtMostOneDispatch
PROPERTIES
  ImplementsLifecycle
  ContinuationDecides
CHECK_DEADLOCK FALSE
