CONSTANTS
    MaxRuns = 4
    Tokens = {t1, t2, t3}
SPECIFICATION Spec
SYMMETRY TokenSymmetry
INVARIANT TypeOK
INVARIANT DoneIsConsistent
INVARIANT FailsOnlyIfKnown
PROPERTY EnrolledWithVerifiedPanel
CHECK_DEADLOCK FALSE
