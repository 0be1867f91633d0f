\* Two gated calls: races between two handlers, administrators and the monitor.
SPECIFICATION Spec
CONSTANTS
    c1 = c1
    c2 = c2
    Calls <- GatedPair
    Gated <- GatedPair
INVARIANTS
    RunsOnlyApproved
    ToldIsTrue
PROPERTIES
    ResolutionIsFinal
    ImplementsGatedCall
CHECK_DEADLOCK FALSE
