SPECIFICATION Spec
CONSTANTS
    r1 = r1
    r2 = r2
    Keys = {"a", "b"}
    Classes = {"audio", "video"}
    Default = "audio"
    Rows <- AudioRows
    Size <- MCSize
    Budget <- MCBudget
    FillAttempts = 1
    Announces = {TRUE}
    Readers = {r1}
    MaxFills = 2
    MaxCrashes = 0
INVARIANTS
    ActiveCountsUsers
PROPERTIES
    UsedIsNotEvicted
