\* v2 and b2 never answer a health check; two tries stand for five.
SPECIFICATION Spec
CONSTANTS
  Tags = {v1, v2}
  Builds = {b1, b2}
  Sound = {v1, b1}
  MaxTries = 2
INVARIANTS
  PreviousBinaryKept
  RolledBackIsPrevious
  UpdatedIsHealthy
PROPERTIES
  RecordsOnlyHealthy
  ReplacesWithWayBack
  RunsAreBounded
