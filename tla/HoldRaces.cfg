\* One caller uses Redis, which may lose its data, and the other does not.
SPECIFICATION FairSpec
CONSTANTS
    Holds = {h1}
    Callers = {c1, c2}
    Bookings = {b1, b2}
    Reasons = {reason}
    MaxTime = 3
    Coordinated = {c1}
    MaxLosses = 1
    None = None
INVARIANTS
    TypeOK
    RowCoherent
    ExpiredOnlyAfterExpiry
    SweepAgreesWithDomain
PROPERTIES
    KeyEventuallyFree
