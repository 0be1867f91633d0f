\* One subscription with three events and a retry each; three entries of audit; two
\* consumers of a stream of three entries.
SPECIFICATION FairSpec
CONSTANTS
    e1 = e1
    e2 = e2
    e3 = e3
    c1 = c1
    c2 = c2
    Events = {e1, e2, e3}
    Retries = 1
    MaxFailures = 2
    MaxEdits = 1
    MaxMishaps = 1
    Entries = {1, 2, 3}
    FlushAt = 2
    MaxFailedFlushes = 2
    Consumers = {c1, c2}
    MaxEntries = 3
    BatchSize = 2
INVARIANTS
    LogTellsHistory
    FailingIsDisabled
    DeletedStopsSoon
    AuditKeepsEvents
    QueueAccountsForEntries
PROPERTIES
    ServicesEnd
CHECK_DEADLOCK FALSE
