SPECIFICATION FairSpec
CONSTANTS
    DryRunFallback = TRUE
    Backlog = 1
INVARIANT HaltLatchDisarms
PROPERTIES ImplementsInterlock HaltGetsThrough HaltShown
CHECK_DEADLOCK FALSE
