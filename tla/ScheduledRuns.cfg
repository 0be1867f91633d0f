\* Two runs of one agent, on one node, and one mishap.
SPECIFICATION FairSpec
CONSTANTS
    n1 = n1
    n2 = n2
    r1 = r1
    r2 = r2
    r3 = r3
    none = none
    Nodes = {n1}
    Chats = {}
    Runs = {r1, r2}
    NodeOf <- OneNode
    MaxMishaps = 1
    NoSession = none
INVARIANTS
    NoLockLeftBehind
PROPERTIES
    EverySessionEnds
CHECK_DEADLOCK FALSE
