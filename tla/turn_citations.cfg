\* No fault: citations are yielded after the answer they belong to was settled.
SPECIFICATION Spec
CONSTANTS
  NoOwner = NoOwner
  Workers = {}
  FaultKinds = {}
  MaxFaults = 0
INVARIANTS
  CitationsInStream
CHECK_DEADLOCK FALSE
