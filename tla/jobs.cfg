\* Two jobs through a queue with room for one, and a batch of two, one or both
\* asked at a time, all served by two threads.
SPECIFICATION SharedFairSpec
CONSTANTS
    JobIds = {j1, j2}
    MaxJobs = 1
    MaxWorkers = 2
    MaxPolls = 1
    BatchSize = 2
    MaxConcurrency = 2
INVARIANTS
    SizeBound
    RunningIsDriven
    CancelledHasNoResult
    BatchInPlace
PROPERTIES
    LiveJobsStay
    RemovedStaysRemoved
    OutcomeIsFinal
    JobsSettle
    BatchEnds
CHECK_DEADLOCK FALSE
