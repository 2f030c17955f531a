SPECIFICATION FairSpec
CONSTANTS
    r1 = r1
    r2 = r2
    Keys = {"a"}
    Classes = {"audio", "video"}
    Default = "audio"
    Rows <- BothRows
    Size <- MCSize
    Budget <- MCBudget
    FillAttempts = 2
    Announces = {TRUE, FALSE}
    Readers = {r1}
    MaxFills = 2
    MaxCrashes = 1
INVARIANTS
    CompleteEntryIsWhole
    ServedIsWhole
    CutOffOnlyByFailure
PROPERTIES
    RequestsEnd
    FillsEnd
