\* One group of two members, two events that may come twice, two faults.
SPECIFICATION FairSpec
CONSTANTS
    m1 = m1
    m2 = m2
    g1 = g1
    g2 = g2
    Events = {e1, e2}
    Empty = Empty
    Poison = Poison
    Groups <- OneGroup
    Members <- TwoMembers
    GroupOf <- SameGroup
    MaxMessages = 3
    MaxFaults = 2
    None = None
INVARIANTS
    TypeOK
    CommittedMeansHandled
    HandledOncePerFault
PROPERTIES
    ImplementsConsumption
    EventuallyDone
CHECK_DEADLOCK FALSE
