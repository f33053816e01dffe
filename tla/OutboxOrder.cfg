\* One relay, no fault: two events of one aggregate written by one transaction.
SPECIFICATION Spec
CONSTANTS
    MaxEvents = 2
    Transactions = {t1}
    Relays = {r1}
    Undeliverable <- NoEvents
    BatchSize = 2
    MaxClock = 1
    MaxAttempts = 3
    MaxFaults = 0
    None = None
    Own = Own
INVARIANTS
    PublishedInOrder
