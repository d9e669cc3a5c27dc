CONSTANTS
  NumOps = 3
  Plan <- PointwisePlan
  Kind = "Pointwise"
  FaultAt <- KillThenAck
  MaxTrouble = 2
  MayLose = FALSE
  MayMisread = FALSE
  MayReportHeld = TRUE
  Budget <- Ticks
  MaxAge = 3
SPECIFICATION Spec
CHECK_DEADLOCK FALSE
INVARIANTS
  NoSkippedOperation
  PassMeansStruck
  NoOrphanedLock
PROPERTIES
  Terminates
