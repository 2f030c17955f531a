SPECIFICATION KeyFairSpec
CONSTANTS
    Keys <- MCKeys
    Bindings <- MCBindings
    StepsOnce <- MCStepsOnce
    MaxKeys = 3
    MaxReloads = 1
    MaxClicks = 1
    Jobs <- MCJobs
    IdOf <- MCIdOf
    Delay <- MCDelay
    Repeated <- MCRepeated
    MaxTime = 2
    MaxCancels = 0
    Never = Never
PROPERTIES TypedTextIsKept SequencesEnd
CHECK_DEADLOCK FALSE
