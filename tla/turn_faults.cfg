\* Faults of the Gateway process and of its transactions; the loop may end for good.
SPECIFICATION Spec
CONSTANTS
  NoOwner = NoOwner
  Workers = {}
  FaultKinds = {"rollback", "lost_ack", "crash"}
  MaxFaults = 2
INVARIANTS
  IInv
  ContradictedOnlyInWindow
  NothingLeftToResume
  ApprovalDrivesContinuation
  LoopLeavesDecided
PROPERTIES
  ImplementsLifecycle
  HandsOver
  CancellationDecides
CHECK_DEADLOCK FALSE
