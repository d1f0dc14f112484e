\* Four executor threads share a breaker that opens on two failures in a row.
SPECIFICATION FairSpec
CONSTANTS
    Threads = {t1, t2, t3, t4}
    FailureThreshold = 2
    RecoveryTimeout = 2
    HalfOpenMaxCalls = 1
INVARIANTS
    HalfOpenWasQuiet
PROPERTIES
    OpenClosesOnlyByReset
    OpenAdmitsNobodyNew
    ImplementsPromise
    AutoRecovery
