SPECIFICATION Spec
CONSTANTS
    Requests = {r1, r2}
    Drainers = {d1}
    MaxConcurrent = 1
PROPERTIES
    DroppedAreRejected
CHECK_DEADLOCK FALSE
