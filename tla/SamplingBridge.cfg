SPECIFICATION Spec
CONSTANTS
    Calls = {c1, c2, c3}
    MaxRounds = 2
    MaxTokens = 3
    Usage = {1, 2}
INVARIANTS
    BridgeInv
    TokenLimit
    RoundLimitWithoutRace
    StopCutsNobodyOff
PROPERTIES
    EveryCallIsAnswered
    StopReturns
\* The bridge is stopped at the end of an execution.
CHECK_DEADLOCK FALSE
