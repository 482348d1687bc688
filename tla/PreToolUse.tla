------------------------------ MODULE PreToolUse ------------------------------
(***************************************************************************)
(* The PreToolUse hook of the bridge (pre-tool-use.ts): the kill-switch     *)
(* check (KillSwitchGate), then, where no switch fits, the policy engine    *)
(* (PolicyClient), on one clock and with hooks of several tool calls under  *)
(* way at once.                                                             *)
(***************************************************************************)
EXTENDS KillSwitchGate, FiniteSets

CONSTANTS
    Hard,        \* the switches in hard mode
    Rules, Policies, ProjectOf, Inputs, Unresolved, NoPath, NoRule,
    CacheTtl, Timeout, Threshold, HalfOpenMs,
    Scenarios    \* the rules there are at first, the calls, and the bounds of a behaviour:
                 \* the hooks that arrive (calls), the pauses, resumes and failed
                 \* lookups (gate), the rule changes, the failed or slow loads (faults)

ASSUME HardAssumption == Hard \subseteq Switches
ASSUME ScenariosAssumption == \A s \in Scenarios : s.inputs \subseteq Inputs

VARIABLES
    present, active, changedAt, ruleCache, breaker, failedAt, eval,  \* PolicyClient
    inputs,     \* the tool calls of the behaviour
    budget      \* what is left of the bounds

P == INSTANCE PolicyClient WITH Evals <- Checks

ASSUME PolicyAssumption == IsFiniteSet(Rules) /\ P!PolicyBounds

policyVars == <<present, active, changedAt, ruleCache, breaker, failedAt, eval>>
hookVars == <<vars, policyVars, inputs, budget>>

HookInit ==
    /\ Init /\ P!PolicyInit
    /\ \E s \in Scenarios :
         present = s.rules /\ inputs = s.inputs /\ budget = s.bounds

Clock == Tick /\ P!PromptTimers /\ UNCHANGED <<policyVars, inputs, budget>>

Spend(b) ==
    /\ budget[b] > 0
    /\ budget' = [budget EXCEPT ![b] = @ - 1]
    /\ UNCHANGED inputs

SwitchChanges ==
    /\ Spend("gate")
    /\ \E s \in Switches : Pause(s) \/ Resume(s)
    /\ UNCHANGED policyVars

RulesChange == Spend("rules") /\ P!Operator /\ UNCHANGED vars

Unmatched == {"none", "unavailable"}

\* Where no switch fits, or the switches could not be looked up, the same
\* synchronous stretch of the handler asks the policy engine.
AsksPolicy(k) ==
    IF check'[k].pc \in Unmatched
    THEN \E in \in inputs : P!Evaluate(k, in)
    ELSE UNCHANGED policyVars

Pending(k) ==
    \/ check[k].pc \in {"fetch", "store"}
    \/ eval[k].pc \notin {"idle", "done"}

\* The hook arrives and the switches are looked at.
Arrive(k) ==
    /\ ~Pending(k) /\ Spend("calls")
    /\ Begin(k) /\ AsksPolicy(k)

Gate(k) ==
    /\ Fetch(k) \/ Store(k)
    /\ AsksPolicy(k)
    /\ IF check'[k].pc = "unavailable" THEN Spend("gate") ELSE UNCHANGED <<inputs, budget>>

Policy(k) ==
    /\ \/ /\ P!Resumes(k) \/ P!DbReads(k) \/ P!Loaded(k) \/ P!LateAnswer(k)
          /\ UNCHANGED <<inputs, budget>>
       \/ (P!DbFails(k) \/ P!TimesOut(k)) /\ Spend("faults")
    /\ UNCHANGED vars

HookNext ==
    \/ Clock \/ SwitchChanges \/ RulesChange
    \/ \E k \in Checks : Arrive(k) \/ Gate(k) \/ Policy(k)

HookSpec == HookInit /\ [][HookNext]_hookVars

\* The answers of the handler: a hard switch denies, a soft one allows and the
\* policy is not asked; otherwise the policy decides.
BySwitch(k) == check[k].pc = "matched"
ByPolicy(k) == check[k].pc \in Unmatched /\ eval[k].pc \in {"done", "late"}
Answered(k) == BySwitch(k) \/ ByPolicy(k)

\* Mutant of Decision: every switch denies.
DecisionHard(k) == IF BySwitch(k) THEN "deny" ELSE P!Permission(k)

Decision(k) ==
    IF BySwitch(k) THEN IF check[k].answer \in Hard THEN "deny" ELSE "allow"
    ELSE P!Permission(k)

-----------------------------------------------------------------------------
(* Properties.                                                              *)

HookTypeOK ==
    /\ TypeOK /\ P!PolicyTypeOK
    /\ inputs \subseteq Inputs /\ budget \in [{"calls", "gate", "rules", "faults"} -> Nat]

RulesBind == P!RulesBind
BreakerIsSound == P!BreakerIsSound

\* pre-tool-use.ts, "kill switches before the policy": a hard pause that has been
\* on for CacheMs denies the call and a soft one allows it, whatever the rules say
\* and however the policy engine does -- unless another switch came before it, or
\* the lookup of the switches failed.
PausesDecide ==
    \A k \in Checks, s \in (paused \ resumed) \cap Matches :
        /\ Answered(k) /\ check[k].pc # "unavailable"
        /\ pausedAt[s] + CacheMs <= check[k].at
        /\ ~ Expired(s, check[k].at)
        /\ \A r \in paused \ {s} : pausedAt[r] > pausedAt[s]
        => Decision(k) = (IF s \in Hard THEN "deny" ELSE "allow")

\* A deny rule that has been in force for the window denies every call it fits,
\* unless a switch, a rule before it or an outage of the engine allows it: an
\* outage of the switch lookup does not.
RulesStillDeny ==
    \A k \in Checks, r \in Rules :
        /\ Answered(k) /\ ~BySwitch(k) /\ r.decision = "deny" /\ P!InForce(r)
        /\ changedAt[r] + CacheTtl + Timeout <= check[k].at
        /\ P!Applies(r, eval[k].input)
        /\ \A s \in Rules : s.priority > r.priority \/ s = r
        => Decision(k) = "deny" \/ eval[k].cause # "rules"

\* The hook answers what switches and rules in force call for (pre-tool-use.ts): both
\* of the above.
DecisionIsDue == PausesDecide /\ RulesStillDeny

=============================================================================
