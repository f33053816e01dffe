\* Two API processes relay two events, one transaction, two environment faults.
SPECIFICATION Spec
CONSTANTS
    MaxEvents = 2
    Transactions = {t1}
    Relays = {r1, r2}
    Undeliverable <- NoEvents
    BatchSize = 2
    MaxClock = 1
    MaxAttempts = 3
    MaxFaults = 2
    None = None
    Own = Own
SYMMETRY Symmetry
INVARIANTS
    TypeOK
    CopiesBounded
PROPERTIES
    ImplementsPublication
