\* Two groups of one member each record what they handled in one ledger.
SPECIFICATION Spec
CONSTANTS
    m1 = m1
    m2 = m2
    g1 = g1
    g2 = g2
    Events = {e1}
    Empty = Empty
    Poison = Poison
    Groups <- TwoGroups
    Members <- TwoMembers
    GroupOf <- OwnGroup
    MaxMessages = 1
    MaxFaults = 0
    None = None
INVARIANTS
    CommittedMeansHandled
CHECK_DEADLOCK FALSE
