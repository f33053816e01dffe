\* Two callers coordinate through Redis, which loses its data once.
SPECIFICATION Spec
CONSTANTS
    Holds = {h1}
    Callers = {c1, c2}
    Bookings = {b1, b2}
    Reasons = {reason}
    MaxTime = 3
    Coordinated = {c1, c2}
    MaxLosses = 1
    None = None
PROPERTIES
    NeverResold
