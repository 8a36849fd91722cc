SPECIFICATION Spec
CONSTANTS
    Caches = {c1, c2}
    Tools = {t1, t2}
    Callers = {k1, k2}
    Ttl = 1
    MaxCacheSize = 1
    MaxTime = 2
    MaxVersion = 2
    MaxSaves = 1
SYMMETRY Symmetric
CONSTRAINT OneThingAtATime
INVARIANT
    FileIsWhole
\* Time and versions are bounded.
CHECK_DEADLOCK FALSE
