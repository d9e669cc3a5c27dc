CONSTANTS
  OpsFactor = 5
  ChunkFactor = 5
  Requests <- MCRequests
SPECIFICATION Spec
CHECK_DEADLOCK FALSE
INVARIANTS
  TypeOK
  GeneratedPlanIsWellFormed
  ChunksAreExecutable
  EveryFaultPlaced
  LanesNeverMeet
  LiveIsWhatSurvives
