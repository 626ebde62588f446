\* Two workers contend for one continuation; under one worker two follow each other.
SPECIFICATION Spec
CONSTANTS
  NoOwner = NoOwner  NoCall = NoCall
  Workers = {w1, w2}
  Calls = {c1, c2}
  TheCall = c1  TheWorker = w1
  MaxSequence = 2
  MaxGeneration = 2
  LeaseDuration = 1
  ApprovalExpiry = 2
  MaxClock = 3
  MaxInflight = 2
CONSTRAINT Bounded
INVARIANTS
  IInv
  GenerationIssuedOnce
  OwnerHoldsLatestGrant
  SettledByLatestGrant
  OneActiveContinuation
  RunsOnlyApproved
PROPERTIES
  LiveLeaseKept
  FinalRowsKept
  ImplementsFencedLease
