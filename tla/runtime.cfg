\* A PDF with a preview, or a video, is processed and deleted at any time; a turn with
\* every combination of budget, requirement and remediation; a deletion outbox with two
\* keys and two workers.
SPECIFICATION AllSpec
CONSTANTS
  Keys = {"original", "text", "figures", "frames", "preview"}
  Kinds = {"pdf", "video"}
  Removable = TRUE
  Deleters = {d1}
  MaxDeletionAttempts = 1
  AttemptCeiling = 1
  QueueAttempts = 2
  MaxFaults = 1
  Rounds = 2
  MaxRetries = 1
  MaxCalls = 2
  MaxModelCalls = 3
  MaxToolCalls = 2
  MaxCostCents = 2
  Costs = {0, 2}
  d2 = d2  k1 = k1  k2 = k2
INVARIANTS
  NothingDangles
  CompletedIsGone
  CallsWithinBudget
  CallsAreBounded
  RunsAreSettled
PROPERTIES
  DeletionStands
  BlockStands
  ProcessingEnds
  LoopEnds
  DeletionsAreFinal
  DeletionsEnd
CHECK_DEADLOCK FALSE
