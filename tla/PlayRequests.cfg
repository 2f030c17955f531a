SPECIFICATION FairSpec
CONSTANTS
    a = a
    e = e
    f = f
    w1 = w1
    w2 = w2
    RowLinks = {a}
    Entries = {e, f}
    Chosen = {e}
    Workers = {w1, w2}
    MaxRequests = 2
    MaxFailures = 1
    None = None
    Elsewhere = Elsewhere
INVARIANTS
    OneResolvePerRow
PROPERTIES
    PlaysLandInOrder
    NoLinkReturns
    WarmedRowsSettle
CHECK_DEADLOCK FALSE
