\* One undeliverable row fills the only slot of every poll.
SPECIFICATION FairSpec
CONSTANTS
    MaxEvents = 2
    Transactions = {t1}
    Relays = {r1}
    Undeliverable <- FirstOnly
    BatchSize = 1
    MaxClock = 1
    MaxAttempts = 3
    MaxFaults = 0
    None = None
    Own = Own
PROPERTIES
    EventuallyPublished
