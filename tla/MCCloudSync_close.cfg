CONSTANTS
    a = a
    e1 = e1
    e2 = e2
    NoId = NoId
    Missing = Missing
    Sessions = {a}
    Resumed = {}
    Connected = {a}
    Events = {e1}
    SessionOf <- EventOfA
    TurnOf <- NoTurn
    MaxTroubles = 0
    MaxAttempts = 2
    MaxFaults = 0
SPECIFICATION FairCloudSpec
PROPERTY ClosedRunsShowClosed
CHECK_DEADLOCK FALSE
