\* A Source is deleted while a job of it is processed; nothing fails.
SPECIFICATION Spec
CONSTANTS
  Keys = {"original", "text", "figures", "frames", "preview"}
  Kinds = {"pdf", "video", "text", "audio"}
  Removable = TRUE
  Deleters = {d1}
  MaxDeletionAttempts = 1
  AttemptCeiling = 1
  QueueAttempts = 3
  MaxFaults = 0
INVARIANTS
  LedgerFollowsQueue
CHECK_DEADLOCK FALSE
