\* No fault: the answer settles while a cancellation is past its reconciliation and not
\* yet recorded.
SPECIFICATION Spec
CONSTANTS
  NoOwner = NoOwner
  Workers = {w1}
  Hazards = {"cancel"}
  MaxFaults = 0
  MaxAttempts = 3
INVARIANTS
  SettledAnswerStands
CHECK_DEADLOCK FALSE
