\* Two processes with a kernel, conflicting requests and two faults.
SPECIFICATION Spec
CONSTANTS
  Kernels = {k1, k2}
  Requests = {r1, r2}
  NoRequest = NoRequest
  MaxFaults = 2
INVARIANTS
  IInv
  DispatchedOnce
  LedgersAreHonest
PROPERTIES
  FactsStand
CHECK_DEADLOCK FALSE
