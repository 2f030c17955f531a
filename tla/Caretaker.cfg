SPECIFICATION FairSpec
CONSTANTS
    l1 = l1
    l2 = l2
    Links = {l1, l2}
    NoSong = NoSong
    Window = 2
    Before <- MCBefore
    MaxRows = 2
    MaxEvents = 1
INVARIANTS
    QueueIsAsLeft
    OneLateSwap
PROPERTY
    WindowIsResolved
CHECK_DEADLOCK FALSE
