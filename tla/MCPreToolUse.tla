----------------------------- MODULE MCPreToolUse -----------------------------
(* Two switches, two overlapping hooks, a project with a default and an own   *)
(* policy, and calls with and without a project.                              *)
EXTENDS PreToolUse, TLC

CONSTANTS s1, s2, k1, k2, p1, p2, proj, other

Slots == Permutations(Checks)
Durations == [s \in Switches |-> 2]
TheProjects == [p \in Policies |-> IF p = p1 THEN proj ELSE other]

DenyEnv == [policy |-> p1, priority |-> 10, events |-> {"pre"}, tools |-> {"Write"},
            paths |-> {"env"}, agent |-> "*", decision |-> "deny"]
Ask == [policy |-> p2, priority |-> 20, events |-> {"pre"}, tools |-> {"Write"},
        paths |-> {}, agent |-> "*", decision |-> "ask"]
TheRules == {DenyEnv, Ask}

WriteEnv == [project |-> proj, event |-> "pre", tool |-> "Write", path |-> "env"]
WriteAnywhere == [project |-> Unresolved, event |-> "pre", tool |-> "Write", path |-> "env"]
TheInputs == {WriteEnv, WriteAnywhere}

Scenario(rules, ins, c, g, r, f) ==
    [rules |-> rules, inputs |-> ins,
     bounds |-> [calls |-> c, gate |-> g, rules |-> r, faults |-> f]]
TheScenarios ==
    {Scenario({DenyEnv}, {WriteEnv}, 3, 2, 0, 0),
     Scenario({DenyEnv}, {WriteEnv}, 3, 0, 1, 1),
     Scenario({DenyEnv, Ask}, TheInputs, 2, 1, 1, 0),
     Scenario({}, {WriteEnv}, 4, 0, 0, 3)}
=============================================================================
