\* Two requests at a time share the breakers and the cache.
SPECIFICATION FairSpec
CONSTANTS
    a = a
    b = b
    c = c
    d = d
    Models = {a, b, c, d}
    Available = {a, b, c}
    Tasks = {"fallback"}
    Route <- RouteOf
    Fallbacks <- FallbacksOf
    Prompts = {p1}
    CacheEnabled = TRUE
    Requests = {r1, r2}
    FailureThreshold = 1
    RecoveryTimeout = 0
    HalfOpenMaxCalls = 1
CHECK_DEADLOCK FALSE
INVARIANTS
    AnswerOwnsUp
    FailureIsExhaustive
    CacheHoldsAnswers
    RecordedOnce
PROPERTIES
    VerdictIsItsOwn
    OpenIsLeftAlone
    ImplementsButBorrows
    EveryRequestAnswered
