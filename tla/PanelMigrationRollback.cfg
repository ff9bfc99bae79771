\* What "rolled back to v3" leaves behind.
SPECIFICATION Spec
CONSTANT MaxTries = 1
INVARIANTS
  RolledBackIsV3
CHECK_DEADLOCK FALSE
