CONSTANTS
  NumOps = 6
  Plan <- MixedPlan
  Kind = "Mixed"
  FaultAt <- KillSecondChunk
  MaxTrouble = 1
  MayLose = FALSE
  MayMisread = FALSE
  MayReportHeld = FALSE
  Budget <- Ticks
  MaxAge = 3
SPECIFICATION Spec
CHECK_DEADLOCK FALSE
INVARIANTS
  ResumeAtBatchBoundary
