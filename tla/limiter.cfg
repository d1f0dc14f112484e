SPECIFICATION Spec
CONSTANTS
    c1 = c1
    c2 = c2
    Clients <- MCClients
    Rate = 2
    Window = 2
    Second = 2
    Interval = 2
    Horizon = 10
SYMMETRY Symmetry
INVARIANTS BurstBound RetryAfterSuffices 
PROPERTIES ChargedOnlyWhenAdmitted
