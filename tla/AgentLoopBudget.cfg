\* A session that goes on after its token budget.
SPECIFICATION Spec
CONSTANTS
    m1 = m1
    m2 = m2
    m3 = m3
    m4 = m4
    s1 = s1
    s2 = s2
    Messages = {m1, m2}
    Sessions = {s1}
    SessionOf <- OneSession
    Sync = {}
    Patient = {m1, m2}
    Rejected = {}
    WithPii = {}
    Signs <- NoSigns
    Responses <- TextOnly
    MaxToolIterations = 2
    MaxHistoryMessages = 6
    Budget = 1
INVARIANTS
    BudgetStopsRequests
CHECK_DEADLOCK FALSE
