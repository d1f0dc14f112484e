SPECIFICATION Spec
CONSTANTS
    JobIds = {j1}
    MaxJobs = 1
    MaxWorkers = 1
    MaxPolls = 1
INVARIANT CancelledStaysCancelled
CHECK_DEADLOCK FALSE
