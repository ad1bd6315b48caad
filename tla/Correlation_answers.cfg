SPECIFICATION Spec
CONSTANTS
    start1 = start1
    start2 = start2
    updated = updated
    rebound = rebound
    None = None
    Requests <- TwoStarts
    EventTypes <- AllEvents
    EventsOf <- DeclaredByStarts
    MayRaise <- OneMayRaise
    MaxEvents = 2
CHECK_DEADLOCK FALSE
INVARIANTS TypeOK AnswerIsOwn EventsComplete ResponseIsLast RoutingIsCurrent
PROPERTIES EveryRequestReturns
