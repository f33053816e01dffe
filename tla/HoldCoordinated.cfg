\* Three callers coordinate through Redis, which keeps its data.
SPECIFICATION Spec
CONSTANTS
    Holds = {h1}
    Callers = {c1, c2, c3}
    Bookings = {b1, b2}
    Reasons = {reason}
    MaxTime = 3
    Coordinated = {c1, c2, c3}
    MaxLosses = 0
    None = None
INVARIANTS
    OneCoordinator
PROPERTIES
    NeverResold
    SoldOnce
