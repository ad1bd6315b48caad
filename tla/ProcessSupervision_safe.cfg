SPECIFICATION Spec
CONSTANTS
    run1 = run1
    run2 = run2
    destroy1 = destroy1
    destroy2 = destroy2
    None = None
    Runs <- BothRuns
    Configured <- OneConfigured
    Destroys <- BothDestroys
    Waiting <- OneWaits
    MaxRebinds = 2
CHECK_DEADLOCK FALSE
INVARIANTS TypeOK OneProcessPerRun NoGhostProcess TerminatedIsTrue FdsReleased
PROPERTIES ExitsAndRebindsNoticed WatchedAreWaitedFor
