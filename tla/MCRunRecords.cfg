CONSTANTS
    r1 = r1
    r2 = r2
    s1 = s1
    s2 = s2
    d1 = d1
    d2 = d2
    d3 = d3
    e1 = e1
    e2 = e2
    k1 = k1
    k2 = k2
    h1 = h1
    v1 = v1
    Runs = {r1, r2}
    Saves = {s1, s2}
    Decides = {d1, d2, d3}
    Ends = {e1, e2}
    Cancels = {k1, k2}
    Events = {h1}
    Verdicts = {v1}
    DescOf <- Descriptions
    Scenarios <- MCScenarios
SPECIFICATION Spec
INVARIANTS SavedMeansAgent SameDecisionSameId EndSettlesRun ResetWipes
CHECK_DEADLOCK FALSE
