CONSTANTS
  Requested = {0, 120, 240}
  Horizon = 250
SPECIFICATION Spec
CHECK_DEADLOCK FALSE
INVARIANTS
  FencingIsNotGraded
  NotGivenUpFenced
