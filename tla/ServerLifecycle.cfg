SPECIFICATION Spec
INVARIANTS
  TypeOK
  DestroyedAfterUse
  WaitsOnlyIfMissed
PROPERTIES
  SignalHonoured
CHECK_DEADLOCK FALSE
