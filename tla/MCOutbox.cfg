CONSTANTS
    j1 = j1
    j2 = j2
    w1 = w1
    w2 = w2
    NoJob = NoJob
    Jobs = {j1, j2}
    Malformed = {j2}
    Workers = {w1, w2}
    Serves <- ServesAll
    MaxAttempts = 3
    Delay <- Delay3
    Lease = 1
    Horizon = 1
    MaxFaults = 2
    MaxFailures = 2
SPECIFICATION FairSpec
INVARIANTS TypeOK NoWriteLost ClaimsAreNumbered DeadIsEarned
PROPERTIES JobsSettle ImplementsDurableWrite
