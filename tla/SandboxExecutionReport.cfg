SPECIFICATION Spec
CONSTANTS
    Requests = {r1, r2, r3}
INVARIANTS
    ReportIsComplete
CHECK_DEADLOCK FALSE
