\* One relay, one fault; event 1 goes to a topic the broker does not have.
SPECIFICATION FairSpec
CONSTANTS
    MaxEvents = 3
    Transactions = {t1}
    Relays = {r1}
    Undeliverable <- FirstOnly
    BatchSize = 2
    MaxClock = 1
    MaxAttempts = 3
    MaxFaults = 1
    None = None
    Own = Own
PROPERTIES
    AttemptsNeverDecrease
    CommitOrderKept
    EventuallyPublished
