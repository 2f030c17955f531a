SPECIFICATION FairSpec
CONSTANTS
    Jobs <- MCJobs
    IdOf <- MCIdOf
    Delay <- MCDelay
    Repeated <- MCRepeated
    MaxTime = 2
    MaxCancels = 1
    Never = Never
INVARIANTS OneJobPerId WaitsForADueJob
PROPERTY KeepsTimers DueJobsRun
CHECK_DEADLOCK FALSE
