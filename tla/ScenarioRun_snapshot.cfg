CONSTANTS
  NumOps = 4
  Plan <- SnapshotPlan
  Kind = "SnapshotPinnedGc"
  FaultAt <- KillSnapshotChunk
  MaxTrouble = 2
  MayLose = TRUE
  MayMisread = FALSE
  MayReportHeld = FALSE
  Budget <- Ticks
  MaxAge = 3
SPECIFICATION Spec
CHECK_DEADLOCK FALSE
INVARIANTS
  NoSkippedOperation
  PassMeansDurable
