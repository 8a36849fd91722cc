SPECIFICATION Spec
CONSTANTS
    Processes = {"wizard", "sync"}
    Servers = {"s1"}
    MaxVersion = 1
    MaxStarts = 2
    MaxTasks = 2
INVARIANTS
    SetupInv
    SettingsRecoverable
    NoEntryLostAlone
PROPERTIES
    SetupEnds
CHECK_DEADLOCK FALSE
