SPECIFICATION Spec
CONSTANTS
    run1 = run1
    run2 = run2
    destroy1 = destroy1
    destroy2 = destroy2
    None = None
    Runs <- OneRun
    Configured <- OneConfigured
    Destroys <- OneDestroy
    Waiting <- OneWaits
    MaxRebinds = 1
CHECK_DEADLOCK FALSE
PROPERTY FreshPorts
