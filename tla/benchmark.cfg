\* Three workers for six models, so that there is a full batch to slow down.
SPECIFICATION FairSpec
CONSTANTS
    Selected <- SixModels
    Tasks = 2
    MaxWorkers = 3
    Faults <- MCFaults
INVARIANTS
    EachModelOnce
PROPERTIES
    RateLimitSlowsDown
    RunEnds
CHECK_DEADLOCK FALSE
