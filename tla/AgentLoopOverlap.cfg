\* Two messages of one session, sent while the other is in progress, with
\* fairness.
SPECIFICATION FairSpec
CONSTANTS
    m1 = m1
    m2 = m2
    m3 = m3
    m4 = m4
    s1 = s1
    s2 = s2
    Messages = {m1, m2}
    Sessions = {s1}
    SessionOf <- OneSession
    Sync = {m1}
    Patient = {}
    Rejected = {}
    WithPii = {}
    Signs <- NoSigns
    Responses <- OneGated
    MaxToolIterations = 2
    MaxHistoryMessages = 6
    Budget = 3
INVARIANTS
    RequestsAnswerEveryCall
    SessionKeepsAccounts
PROPERTIES
    EveryMessageEnds
CHECK_DEADLOCK FALSE
