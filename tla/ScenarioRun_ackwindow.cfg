CONSTANTS
  NumOps = 3
  Plan <- OverwritePlan
  Kind = "Pointwise"
  FaultAt <- FailpointThenAck
  MaxTrouble = 2
  MayLose = FALSE
  MayMisread = FALSE
  MayReportHeld = FALSE
  Budget <- Ticks
  MaxAge = 3
SPECIFICATION Spec
CHECK_DEADLOCK FALSE
INVARIANTS
  TypeOK
  CompleteRunAllAcked
  EveryFaultRecorded
  FailpointOfOpenRecovery
PROPERTIES
  FaultProtocol
  FailpointFiresOnce
  GradedByCompletingAttempt
