\* Two audits, the second perhaps in the same second as the first, and a
\* service that is started twice and asked by two requests.
SPECIFICATION Spec
CONSTANTS
    Unit = 100
    Traits <- MCTraits
    Priority <- MCPriority
    Limit = 2
    Registry <- MCRegistry
    Avoided <- MCAvoided
    Listings <- MCListings
    Showings <- MCShowings
    Readers = {r1, r2}
    Nothing = Nothing
    MaxAudits = 2
    MaxStamp = 2
    MaxLives = 2
INVARIANTS
    CandidatesAreBest
    AvoidedWithReason
    PerfectAndFast
    PapersInOrder
    OfferIsNewest
    OfferIsSteady
CHECK_DEADLOCK FALSE
