SPECIFICATION Spec
CONSTANTS
    Daemons = {d1, d2}
    Starters = {s1, s2}
    NoOne = NoOne
    MaxCrashes = 0
    ByHand = FALSE
INVARIANT OneDaemon
CHECK_DEADLOCK FALSE
