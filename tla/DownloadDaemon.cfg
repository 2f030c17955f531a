SPECIFICATION FairSpec
CONSTANTS
    t1 = t1
    Torrents = {t1}
    Commits <- MCCommits
    MaxRequests = 2
    MaxFaults = 1
    None = None
INVARIANTS
    OneEnginePerTorrent
    WaitsAreKept
PROPERTIES
    RowsStayOnDisk
    DownloadsEnd
    PendingIsAnswered
CHECK_DEADLOCK FALSE
