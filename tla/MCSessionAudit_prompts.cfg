CONSTANTS
    a = a
    b = b
    e1 = e1
    e2 = e2
    NoId = NoId
    Missing = Missing
    Sessions = {a}
    Resumed = {}
    Connected = {a}
    Events = {e1, e2}
    SessionOf <- EventOfA
    TurnOf <- NoTurn
    MaxTroubles = 0
SPECIFICATION Spec
INVARIANT EveryEventHasItsRow
CHECK_DEADLOCK FALSE
