\* Two health checks stand for five.  Once a migration has been recorded
\* there is nothing left to migrate.
SPECIFICATION Spec
CONSTANT MaxTries = 2
INVARIANTS
  V3TreeKept
  FailureLeavesV3
  MigratedIsServed
PROPERTIES
  RecordsOnlyHealthy
  RunsAreBounded
CHECK_DEADLOCK FALSE
