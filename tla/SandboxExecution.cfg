SPECIFICATION Spec
CONSTANTS
    Requests = {r1, r2, r3}
INVARIANTS
    ExecutionInv
    StopCutsNobodyOff
    DrainIsTold
    ReportIsTruthful
    NothingLeftBehind
PROPERTIES
    ExecutionReturns
\* An execution ends.
CHECK_DEADLOCK FALSE
