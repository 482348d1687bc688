CONSTANTS
    s1 = s1
    s2 = s2
    k1 = k1
    k2 = k2
    p1 = p1
    p2 = p2
    proj = proj
    other = other
    NoSwitch = NoSwitch
    NoRule = NoRule
    NoPath = NoPath
    Unresolved = Unresolved
    Switches = {s1, s2}
    Expiring = {s2}
    Hard = {s1}
    Duration <- Durations
    Matches = {s1, s2}
    Checks = {k1, k2}
    Policies = {p1, p2}
    ProjectOf <- TheProjects
    Rules <- TheRules
    Inputs <- TheInputs
    CacheMs = 1
    CacheTtl = 1
    Timeout = 1
    Threshold = 2
    HalfOpenMs = 1
    MaxTime = 3
    Scenarios <- TheScenarios
SYMMETRY Slots
SPECIFICATION HookSpec
INVARIANTS PausesBind ResumesBind RulesBind BreakerIsSound DecisionIsDue
CHECK_DEADLOCK FALSE
