\* A legacy config with api_host; three polls stand for ten.
SPECIFICATION Spec
CONSTANTS
  MaxAttempts = 3
  HasAPIHost = TRUE
INVARIANTS
  LegacyConfigRecoverable
  SwitchedIsComplete
  RolledBackRestoresConfig
  RecordedModeIsTrue
PROPERTIES
  RunsAreBounded
