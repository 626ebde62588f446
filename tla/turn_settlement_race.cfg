\* No fault at all: the settlement commits inside the transaction of an append.
SPECIFICATION Spec
CONSTANTS
  NoOwner = NoOwner
  Workers = {}
  FaultKinds = {}
  MaxFaults = 0
INVARIANTS
  SettledAnswerStands
CHECK_DEADLOCK FALSE
