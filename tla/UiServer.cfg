SPECIFICATION Spec
CONSTANTS
    c1 = c1
    c2 = c2
    Conns = {c1, c2}
    Main = Main
    MaxRequests = 2
INVARIANTS
    TypeOK
    NoFalseSuccess
    CleanWithoutOverlap
PROPERTIES
    Answered
CHECK_DEADLOCK FALSE
