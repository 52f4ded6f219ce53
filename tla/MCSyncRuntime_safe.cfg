SPECIFICATION Spec
CONSTANTS
  c1 = c1
  c2 = c2
  Callers <- TwoCallers
  MayDelete = TRUE
  MaxCrashes = 1
CHECK_DEADLOCK FALSE
INVARIANTS MarkerCoversRun ReturnsAfterRun WakeupOwed
PROPERTIES SoleCallerReturns
