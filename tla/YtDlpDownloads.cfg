SPECIFICATION FairSpec
CONSTANTS
    MaxItems = 3
    MaxRetries = 1
    None = None
PROPERTY WaitingEnds
CHECK_DEADLOCK FALSE
