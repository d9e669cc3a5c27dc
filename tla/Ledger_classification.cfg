CONSTANTS
  Ids = {i1, i2, i3}
  Planned = {i1, i2}
  Identities = {a, b}
  NoIdentity = none
SPECIFICATION Spec
CHECK_DEADLOCK FALSE
INVARIANTS
  TypeOK
  DuplicateIsIdentityConflict
  AckedIsWarranted
  MissingIsWarranted
PROPERTIES
  AckSurvivesReplay
