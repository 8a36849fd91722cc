SPECIFICATION Spec
CONSTANTS
    Requests = {c1, c2, c3, c4}
    MaxConcurrent = 1
    QueueSize = 2
    QueueTimeout = 2
    Drift = 1
    MaxTime = 1
PROPERTIES
    FullMeansWaiting
CHECK_DEADLOCK FALSE
