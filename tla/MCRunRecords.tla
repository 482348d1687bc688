----------------------------- MODULE MCRunRecords -----------------------------
(* Small instances of RunRecords: one or two runs, and a few actors at once.  *)
EXTENDS RunRecords

CONSTANTS r1, r2, s1, s2, d1, d2, d3, e1, e2, k1, k2, h1, v1

\* d1 and d2 are the same decision, told twice.
Descriptions == [d \in Decides |-> IF d = d3 THEN "other" ELSE "same"]

Scenario(who, n) == [live |-> who, faults |-> n]

MCScenarios == {
    Scenario({s1, s2, e1, e2}, 1),
    Scenario({d1, d2, e1, s1}, 1),
    Scenario({d1, d2, d3}, 1),
    Scenario({k1, k2, s1, e1}, 0),
    Scenario({"reset", h1, d1, v1}, 1),
    Scenario({"reset", s1, e1}, 0)}
=============================================================================
