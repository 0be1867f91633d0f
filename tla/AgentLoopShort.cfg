\* A session of two user messages, the second with three signs.
SPECIFICATION Spec
CONSTANTS
    m1 = m1
    m2 = m2
    m3 = m3
    m4 = m4
    s1 = s1
    s2 = s2
    Messages = {m1, m3}
    Sessions = {s1}
    SessionOf <- OneSession
    Sync = {}
    Patient = {m1, m3}
    Rejected = {}
    WithPii = {}
    Signs <- LateSigns
    Responses <- TextOnly
    MaxToolIterations = 2
    MaxHistoryMessages = 6
    Budget = 3
INVARIANTS
    ShortExchangesPass
CHECK_DEADLOCK FALSE
