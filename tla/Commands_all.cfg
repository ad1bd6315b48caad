SPECIFICATION Spec
CONSTANTS
    first = first
    second = second
    third = third
    red = red
    uuid = uuid
    None = None
    Procs <- ThreeProcs
    Names <- TwoNames
    Casts <- SixCasts
    MaxSignals = 2

INVARIANTS TypeOK CreatedGoes
PROPERTIES DestroysOwn SignalsTakeEffect
CHECK_DEADLOCK FALSE
