\* A message with PII, with the filter on.
SPECIFICATION Spec
CONSTANTS
    m1 = m1
    m2 = m2
    m3 = m3
    m4 = m4
    s1 = s1
    s2 = s2
    Messages = {m1}
    Sessions = {s1}
    SessionOf <- OneSession
    Sync = {}
    Patient = {m1}
    Rejected = {}
    WithPii = {m1}
    Signs <- NoSigns
    Responses <- TextOnly
    MaxToolIterations = 2
    MaxHistoryMessages = 6
    Budget = 3
INVARIANTS
    RawPiiNeverSent
CHECK_DEADLOCK FALSE
