CONSTANTS
  NumOps = 4
  Plan <- HotColdPlan
  Kind = "MultiCfHotCold"
  FaultAt <- KillSecondChunk
  MaxTrouble = 2
  MayLose = TRUE
  MayMisread = TRUE
  MayReportHeld = FALSE
  Budget <- Ticks
  MaxAge = 3
SPECIFICATION Spec
CHECK_DEADLOCK FALSE
INVARIANTS
  CompleteRunAllAcked
  PassMeansDurable
  VerifiedMeansChecked
