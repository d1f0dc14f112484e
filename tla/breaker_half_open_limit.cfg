SPECIFICATION Spec
CONSTANTS
    Threads = {t1, t2}
    FailureThreshold = 1
    RecoveryTimeout = 1
    HalfOpenMaxCalls = 1
INVARIANT HalfOpenLimit
