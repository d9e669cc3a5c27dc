CONSTANTS
  NumOps = 3
  Plan <- OverwritePlan
  Kind = "Pointwise"
  FaultAt <- NoFaults
  MaxTrouble = 1
  MayLose = FALSE
  MayMisread = FALSE
  MayReportHeld = FALSE
  Budget <- Ticks
  MaxAge = 3
SPECIFICATION Spec
CHECK_DEADLOCK FALSE
INVARIANTS
  PassMeansVerified
