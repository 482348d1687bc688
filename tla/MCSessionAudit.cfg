CONSTANTS
    a = a
    b = b
    e1 = e1
    e2 = e2
    NoId = NoId
    Missing = Missing
    Sessions = {a, b}
    Resumed = {}
    Connected = {a}
    Events = {e1, e2}
    SessionOf <- EventOfA
    TurnOf <- NoTurn
    MaxTroubles = 1
SPECIFICATION Spec
INVARIANTS TypeOK RunIdsAgree UnlinkedIsExplained EventsAccounted
PROPERTY ImplementsRunLifecycle
CHECK_DEADLOCK FALSE
