\* Two chats, two nodes, two mishaps.
SPECIFICATION SessionFairSpec
CONSTANTS
    n1 = n1
    n2 = n2
    s1 = s1
    s2 = s2
    none = none
    Nodes = {n1, n2}
    Chats = {s1, s2}
    Runs = {}
    NodeOf <- AllOnFirst
    MaxMishaps = 2
    NoSession = none
INVARIANTS
    ActiveIsKept
    CleanedIsArchived
PROPERTIES
    EverySessionEnds
CHECK_DEADLOCK FALSE
