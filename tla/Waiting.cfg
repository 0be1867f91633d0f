\* One gated call and one that is not; two messages of a session with one round of up
\* to two tool calls each, a budget that a round exceeds, and one lost connection.
SPECIFICATION FairWaiting
CONSTANTS
    c1 = c1
    c2 = c2
    m1 = m1
    m2 = m2
    Calls = {c1, c2}
    Gated = {c1}
    Inputs = {m1, m2}
    TokensOf <- Weights
    TokenBudget = 5
    RecentCount = 3
    MaxRounds = 1
    MaxToolCalls = 2
    MaxLosses = 1
INVARIANTS
    RequestIsSound
    DoneIsSaved
PROPERTIES
    GateLetsGo
    CheckpointGrows
    RuntimeEnds
CHECK_DEADLOCK FALSE
