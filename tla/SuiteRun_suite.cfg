CONSTANTS
  MaxOutages = 2
  Catalog <- OneOfEach
  Commands <- CommandLines
  Scales <- TwoScales
  Seeds <- TwoSeeds
SPECIFICATION Spec
CHECK_DEADLOCK FALSE
INVARIANTS
  TypeOK
  NoLeakedProject
  ArtifactsAgree
  EveryItemReported
  FrontierNamesFirst
  SelectedIsExecutable
PROPERTIES
  VerdictIsCharged
  CommandReturns
