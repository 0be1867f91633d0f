\* Three runs of one agent, without mishaps.
SPECIFICATION Spec
CONSTANTS
    n1 = n1
    n2 = n2
    r1 = r1
    r2 = r2
    r3 = r3
    none = none
    Nodes = {n1, n2}
    Chats = {}
    Runs = {r1, r2, r3}
    NodeOf <- Placement
    MaxMishaps = 0
    NoSession = none
INVARIANTS
    RunsExclusive
CHECK_DEADLOCK FALSE
