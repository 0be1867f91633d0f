\* Three messages of one session, each sent when the one before has ended.
SPECIFICATION Spec
CONSTANTS
    m1 = m1
    m2 = m2
    m3 = m3
    m4 = m4
    s1 = s1
    s2 = s2
    Messages = {m1, m2, m3}
    Sessions = {s1}
    SessionOf <- OneSession
    Sync = {m1, m2}
    Patient = {m1, m2, m3}
    Rejected = {m2}
    WithPii = {}
    Signs <- SpreadSigns
    Responses <- EveryAnswer
    MaxToolIterations = 2
    MaxHistoryMessages = 20
    Budget = 3
INVARIANTS
    PatientHistoryIsWhole
    EndsAreHeard
CHECK_DEADLOCK FALSE
