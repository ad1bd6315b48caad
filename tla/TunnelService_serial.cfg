SPECIFICATION Spec
CONSTANTS
    Requests = {r1, r2, r3, r4}
    None = None
    red = red
    blue = blue
    slot1 = slot1
    Names <- TwoNames
    Slots <- OneSlot
    Slot <- TwoNameSlot
    Menu <- TwoNameMenu
    SetupsSerialised = TRUE
    DestroysSerialised = TRUE
    WaitsListed = TRUE
    EmitSuspends = FALSE
SYMMETRY Symmetry
INVARIANTS ListedIsHealthy NothingLeaks ShutGuard RebindOwnTunnel
CHECK_DEADLOCK FALSE
