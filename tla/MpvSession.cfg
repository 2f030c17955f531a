SPECIFICATION FairSpec
CONSTANTS
    a = a
    b = b
    c = c
    Videos = {a, b, c}
    Items = {a, b}
    Picks <- MCPicks
    Season <- MCSeason
    StaleLimit = 1
    MaxLaunches = 2
    MaxUses = 2
    MaxEvents = 1
    None = None
INVARIANTS
    NothingSpawnedAfterStop
    AskedOnce
PROPERTIES
    DeadSessionEnds
CHECK_DEADLOCK FALSE
