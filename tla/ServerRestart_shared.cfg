SPECIFICATION RestartSpec
CONSTANTS
    t1 = t1
    t2 = t2
    t3 = t3
    red = red
    blue = blue
    slot1 = slot1
    slot2 = slot2
    ident = ident
    None = None
    Tunnels <- ThreeTunnels
    Names <- TwoNames
    NameOf <- ThreeNames
    Slots <- TwoSlots
    Slot <- NameSlot
    Idents <- OneIdent
    Ident <- NameIdent
    Config <- ThreeConfigs
    MayForget <- Forgetful

INVARIANTS TypeOK KillSwitchCovers NatStands NothingOutlivesLink NothingRemains
PROPERTIES NextTunnelHeals
CHECK_DEADLOCK FALSE
