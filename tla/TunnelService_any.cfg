SPECIFICATION Spec
CONSTANTS
    Requests = {r1, r2, r3}
    None = None
    red = red
    blue = blue
    slot1 = slot1
    Names <- TwoNames
    Slots <- OneSlot
    Slot <- TwoNameSlot
    Menu <- TwoNameMenu
    SetupsSerialised = FALSE
    DestroysSerialised = FALSE
    WaitsListed = FALSE
    EmitSuspends = TRUE
SYMMETRY Symmetry
INVARIANTS TypeOK ListedIsComplete SingleCloser HostIsOwned GuardLifted
CHECK_DEADLOCK FALSE
