SPECIFICATION Spec
CONSTANTS
    Requests = {r1, r2}
    None = None
    red = red
    blue = blue
    slot1 = slot1
    Names <- OneName
    Slots <- OneSlot
    Slot <- OneNameSlot
    Menu <- OneNameMenu
    SetupsSerialised = FALSE
    DestroysSerialised = TRUE
    WaitsListed = FALSE
    EmitSuspends = FALSE
SYMMETRY Symmetry
INVARIANT ListedIsHealthy
CHECK_DEADLOCK FALSE
