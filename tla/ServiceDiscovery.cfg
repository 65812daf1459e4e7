SPECIFICATION Spec
INVARIANTS
  RegisteredAgain
CHECK_DEADLOCK FALSE
