CONSTANTS
    a = a
    b = b
    e1 = e1
    e2 = e2
    NoId = NoId
    Missing = Missing
    Sessions = {a, b}
    Resumed = {b}
    Connected = {a}
    Events = {e1}
    SessionOf <- EventOfA
    TurnOf <- NoTurn
    MaxTroubles = 0
SPECIFICATION FairSpec
PROPERTY MissedStartIsClosed
CHECK_DEADLOCK FALSE
