SPECIFICATION Spec
CONSTANTS
    NRequests = 3
    Kind <- MCKind
    ReplaceId <- MCReplaceId
    MaxFaults = 2
    MaxTimeouts = 2
    StartupFaults = TRUE
    Steps <- MCSteps
    IdleTimeout = TRUE
PROPERTIES
    UnhealthyReconnects
    RequestsSettle
    HealthyAgainAfterBothEnd
INVARIANTS
    OneClient
    CleanExchange
    NoMixedAnswers
    ConfirmationsMatch
    SkippedIsReplaced
    SettledInOrder
CHECK_DEADLOCK FALSE
