SPECIFICATION Spec
CONSTANTS
    Daemons = {d1, d2, d3}
    Starters = {s1, s2}
    NoOne = NoOne
    MaxCrashes = 2
    ByHand = TRUE
INVARIANTS HolderIsReachable OnlyTheLivingTurnAway
CHECK_DEADLOCK FALSE
