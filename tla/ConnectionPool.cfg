SPECIFICATION Spec
CONSTANTS
    Requests = {r1, r2, r3, r4}
    Drainers = {d1, d2}
    MaxConcurrent = 2
INVARIANTS
    PoolInv
    BoundedConcurrency
    NoIdleSlotWhileWaiting
    NoOvertaking
    DrainedIsQuiet
PROPERTIES
    QueuedIsServed
    DrainIsSignalled
    ImplementsAdmissionControl
\* After a drain every caller is rejected: the pool really stops.
CHECK_DEADLOCK FALSE
