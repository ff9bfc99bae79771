CONSTANTS
    MaxRuns = 3
    Requested = {"mysql", "postgres", "sqlite"}
    External = {"mysql"}
    Enrolling = {"mysql"}
SPECIFICATION Spec
INVARIANT KeyKept
INVARIANT DoneIsUsable
INVARIANT SuccessIsInForce
INVARIANT FailsOnlyIfKnown
PROPERTY KnownPasswordKept
PROPERTY ForeignDataKept
CHECK_DEADLOCK FALSE
