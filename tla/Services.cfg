SPECIFICATION Spec
CONSTANTS
    ToolCalls = {r1, r2}
    MCPServers = {s, h}
    StdioServers = {s}
    PoolLimit = 1
    MaxWaiting = 2
    BucketClients = {c}
    MaxPerWindow = 2
    BucketWindow = 3
    BurstSize = 3
    WindowClients = {w}
    Endpoints = {e}
    Overridden = {e}
    MaxRequests = 2
    MaxOverride = 1
    WindowTicks = 3
    OverrideTicks = 2
    SecondTicks = 2
    GuardedCalls = {a, b, d}
    FailureThreshold = 2
    MaxFailures = 4
    MaxClients = 3
    PyRuns = {p, q}
    Console = con
    Lockers = {x, y}
    Guests = {y}
    Departed = z
    NoFile = nf
    MaxRetries = 2
    Processes = {p1, p2}
    UserSettings = {u}
    RetentionDays = 1
    MaxDay = 3
INVARIANTS
    ServicesInv
    LimitsAreKept
    NobodyCutOff
    ExclusiveUnlessRaced
    ConfigIsWhole
    OwnProxyUnlessShared
PROPERTIES
    SignalEndsAll
\* Processes exit or die, schedulers that are done and limiters out of tokens stop.
CHECK_DEADLOCK FALSE
