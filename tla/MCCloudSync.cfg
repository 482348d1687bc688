CONSTANTS
    a = a
    e1 = e1
    e2 = e2
    NoId = NoId
    Missing = Missing
    Sessions = {a}
    Resumed = {}
    Connected = {}
    Events = {e1}
    SessionOf <- EventOfA
    TurnOf <- NoTurn
    MaxTroubles = 1
    MaxAttempts = 2
    MaxFaults = 1
SPECIFICATION DrainedSpec
INVARIANTS CloudTypeOK 
PROPERTIES CompletedStays FreshClosesReachCloud EventsReachCloud OpenRunsComplete
CHECK_DEADLOCK FALSE
