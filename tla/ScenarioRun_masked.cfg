CONSTANTS
  NumOps = 3
  Plan <- OverwritePlan
  Kind = "Pointwise"
  FaultAt <- ReopenOnce
  MaxTrouble = 1
  MayLose = FALSE
  MayMisread = TRUE
  MayReportHeld = FALSE
  Budget <- Ticks
  MaxAge = 3
SPECIFICATION Spec
CHECK_DEADLOCK FALSE
INVARIANTS
  MissingRemainsBreak
