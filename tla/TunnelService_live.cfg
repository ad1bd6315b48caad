SPECIFICATION FairSpec
CONSTANTS
    Requests = {r1, r2, r3}
    None = None
    red = red
    blue = blue
    slot1 = slot1
    Names <- OneName
    Slots <- OneSlot
    Slot <- OneNameSlot
    Menu <- OneNameMenu
    SetupsSerialised = TRUE
    DestroysSerialised = TRUE
    WaitsListed = TRUE
    EmitSuspends = FALSE

PROPERTIES KeepsTunnelLife EveryAnswer StartReturns
CHECK_DEADLOCK FALSE
