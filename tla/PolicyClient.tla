----------------------------- MODULE PolicyClient -----------------------------
(***************************************************************************)
(* The policy engine of the hooks bridge and of check_policy (policy.ts):   *)
(* the rules of a project are loaded behind a timeout and, inside it, a     *)
(* circuit breaker, kept for a TTL, and the first rule by priority that     *)
(* fits the tool call decides.  Whatever goes wrong, the call is allowed.   *)
(* The operator changes the rules meanwhile (policies.ts).                  *)
(***************************************************************************)
EXTENDS Integers, FiniteSets

CONSTANTS
    Rules,       \* records: policy, priority, events, tools, paths, agent, decision
    Policies,
    ProjectOf,   \* the project of a policy
    Inputs,      \* tool calls: project or Unresolved, event, tool, path or NoPath
    Unresolved,  \* the project of a call whose cwd names none
    NoPath,
    NoRule,
    Evals,       \* the slots of concurrent evaluations
    CacheTtl, Timeout, Threshold, HalfOpenMs,
    MaxTime      \* bound of the clock

\* What the modules that use this one assume of the constants.
PolicyBounds ==
    /\ {CacheTtl, Timeout, Threshold, HalfOpenMs} \subseteq Nat \ {0}
    /\ NoRule \notin Rules
    /\ \A r \in Rules : r.policy \in Policies /\ r.priority \in Int
    /\ Unresolved \notin {ProjectOf[p] : p \in Policies}
    /\ \A in \in Inputs : in.project \in {ProjectOf[p] : p \in Policies} \cup {Unresolved}

VARIABLES
    now,
    present,    \* the rows of policy_rules
    active,     \* the policies with is_active
    changedAt,  \* changedAt[r]: when r last came into or went out of force
    ruleCache,  \* ruleCache[p]: the rules kept for a project, and loadedAt
    breaker,
    failedAt,   \* when a load last failed; read by the properties only
    eval        \* eval[k]: the evaluation in slot k

policyVars == <<present, active, changedAt, ruleCache, breaker, failedAt, eval>>

Projects == {ProjectOf[p] : p \in Policies}
Scopes == Projects \cup {Unresolved}

Causes == {"rules", "refused", "failed", "timeout"}
Eval == [pc : {"idle", "waiting", "loading", "answering", "late", "done"},
         at : Nat,                    \* when it started
         input : Inputs,
         test : BOOLEAN,              \* it is the breaker's test call
         list : SUBSET Rules,
         answer : Rules \cup {NoRule},
         cause : Causes]

PolicyInit ==
    /\ present \in SUBSET Rules
    /\ active = Policies
    /\ changedAt = [r \in Rules |-> 0]
    /\ ruleCache = [p \in Scopes |-> [rules |-> {}, loadedAt |-> -CacheTtl]]
    /\ breaker = [state |-> "closed", count |-> 0, openedAt |-> 0]
    /\ failedAt = -HalfOpenMs
    /\ \E in \in Inputs :
         eval = [k \in Evals |-> [pc |-> "idle", at |-> 0, input |-> in,
                                  test |-> FALSE, list |-> {},
                                  answer |-> NoRule, cause |-> "rules"]]

-----------------------------------------------------------------------------
(* The operator.                                                            *)

InForce(r) == r \in present /\ r.policy \in active

Changed(R) == changedAt' = [r \in Rules |-> IF r \in R THEN now ELSE changedAt[r]]

\* The insert of addPolicyRule, into a policy it has found or created.
AddRule(r) ==
    /\ r \notin present /\ now > 0
    /\ changedAt[r] = 0         \* a rule added again has a new id
    /\ present' = present \cup {r}
    /\ Changed({r})
    /\ UNCHANGED <<active, ruleCache, breaker, failedAt, eval>>

\* deletePolicyRule; a rule that a recorded decision names stays (foreign key).
DeleteRule(r) ==
    /\ r \in present
    /\ present' = present \ {r}
    /\ Changed({r})
    /\ UNCHANGED <<active, ruleCache, breaker, failedAt, eval>>

\* setPolicyActive; asking for what is already so changes nothing.
SetPolicyActive(p, on) ==
    /\ (p \in active) # on
    /\ active' = IF on THEN active \cup {p} ELSE active \ {p}
    /\ Changed({r \in Rules : r.policy = p})
    /\ UNCHANGED <<present, ruleCache, breaker, failedAt, eval>>

-----------------------------------------------------------------------------
(* What the rules say of a call: evaluateRules.                             *)

\* loadRules: all active rules there are for a call without a project.
LoadRules(project) ==
    {r \in Rules : InForce(r) /\ project \in {Unresolved, ProjectOf[r.policy]}}

\* A rule with a path needs one; a rule for one kind of agent never applies.
Fits(r, in) ==
    /\ in.event \in r.events
    /\ in.tool \in r.tools
    /\ r.paths # {} => in.path # NoPath /\ in.path \in r.paths
    /\ r.agent = "*"

\* Mutant of Matching: the rules are taken as they come.
MatchingUnordered(L, in) == {r \in L : Fits(r, in)}

\* The first by priority; a tie goes either way.
Matching(L, in) ==
    LET fitting == {r \in L : Fits(r, in)} IN
    {r \in fitting : \A s \in fitting : r.priority <= s.priority}

\* compileRule: whatever is not a deny -- 'ask' too -- is an allow.
Permission(k) ==
    IF eval[k].answer # NoRule /\ eval[k].answer.decision = "deny"
    THEN "deny" ELSE "allow"

Answer(e, r) ==
    [e EXCEPT !.pc = "done", !.test = FALSE, !.list = {}, !.answer = r, !.cause = "rules"]

Answers(k, e, L) ==
    \/ \E r \in Matching(L, e.input) :
         eval' = [eval EXCEPT ![k] = Answer(e, r)]
    \/ /\ Matching(L, e.input) = {}
       /\ eval' = [eval EXCEPT ![k] = Answer(e, NoRule)]

\* FAIL_OPEN_RESULT: allow, 'policy_check_unavailable'.
FailsOpen(k, e, cause) ==
    eval' = [eval EXCEPT ![k] = [e EXCEPT !.pc = "done", !.test = FALSE,
                                          !.answer = NoRule, !.cause = cause]]

-----------------------------------------------------------------------------
(* The breaker (ConsecutiveBreaker in cockatiel's circuitBreaker).          *)

Success(k) ==
    breaker' = [breaker EXCEPT
                  !.count = 0,
                  !.state = IF eval[k].test /\ @ = "half" THEN "closed" ELSE @]

Failure(k) ==
    LET count == IF breaker.count < Threshold THEN breaker.count + 1 ELSE Threshold
        trips == breaker.state # "open" /\ (eval[k].test \/ count = Threshold)
    IN
    /\ breaker' = [state |-> IF trips THEN "open" ELSE breaker.state,
                   count |-> count,
                   openedAt |-> IF trips THEN now ELSE breaker.openedAt]
    /\ failedAt' = now

\* Mutant of CoolingDown: refused a moment too long.
CoolingDownAtEnd == now - breaker.openedAt <= HalfOpenMs

CoolingDown == now - breaker.openedAt < HalfOpenMs

\* policy.execute: refused while the breaker is open, its test call once it has
\* cooled down, after that call while there is one, a load otherwise.
Execute(k, e) ==
    \/ /\ breaker.state = "open" /\ CoolingDown
       /\ FailsOpen(k, e, "refused")
       /\ UNCHANGED breaker
    \/ /\ breaker.state = "open" /\ ~CoolingDown
       /\ breaker' = [breaker EXCEPT !.state = "half"]
       /\ eval' = [eval EXCEPT ![k] = [e EXCEPT !.pc = "loading", !.test = TRUE]]
    \/ /\ breaker.state = "half"
       /\ eval' = [eval EXCEPT ![k] = [e EXCEPT !.pc = "waiting"]]
       /\ UNCHANGED breaker
    \/ /\ breaker.state = "closed"
       /\ eval' = [eval EXCEPT ![k] = [e EXCEPT !.pc = "loading"]]
       /\ UNCHANGED breaker

-----------------------------------------------------------------------------
(* An evaluation.                                                           *)

\* Mutant of Fresh: the entry serves a moment too long.
FreshAtExpiry(p) == now - ruleCache[p].loadedAt <= CacheTtl

Fresh(p) == now - ruleCache[p].loadedAt < CacheTtl

Begin(in) == [pc |-> "idle", at |-> now, input |-> in, test |-> FALSE, list |-> {},
              answer |-> NoRule, cause |-> "rules"]

\* evaluate: getRules from the cache, or through policy.execute.
Evaluate(k, in) ==
    /\ eval[k].pc \in {"idle", "done"}
    /\ \/ /\ Fresh(in.project)
          /\ Answers(k, Begin(in), ruleCache[in.project].rules)
          /\ UNCHANGED breaker
       \/ ~Fresh(in.project) /\ Execute(k, Begin(in))
    /\ UNCHANGED <<present, active, changedAt, ruleCache, failedAt>>

\* The test call has settled.
Resumes(k) ==
    /\ eval[k].pc = "waiting" /\ breaker.state # "half"
    /\ Execute(k, eval[k])
    /\ UNCHANGED <<present, active, changedAt, ruleCache, failedAt>>

\* The database runs the query.
DbReads(k) ==
    /\ eval[k].pc = "loading"
    /\ eval' = [eval EXCEPT ![k].pc = "answering",
                            ![k].list = LoadRules(eval[k].input.project)]
    /\ UNCHANGED <<present, active, changedAt, ruleCache, breaker, failedAt>>

DbFails(k) ==
    /\ eval[k].pc = "loading"
    /\ Failure(k)
    /\ FailsOpen(k, eval[k], "failed")
    /\ UNCHANGED <<present, active, changedAt, ruleCache>>

\* The list arrives in time and is dated on its arrival.
Loaded(k) ==
    LET e == eval[k] IN
    /\ e.pc = "answering"
    /\ Success(k)
    /\ ruleCache' = [ruleCache EXCEPT ![e.input.project] =
                       [rules |-> e.list, loadedAt |-> now]]
    /\ Answers(k, e, e.list)
    /\ UNCHANGED <<present, active, changedAt, failedAt>>

\* Mutant of TimesOut: the fuse lets the load go and forgets the breaker's test.
TimesOutForgetsTest(k) ==
    LET e == eval[k] IN
    /\ e.pc \in {"waiting", "loading", "answering"}
    /\ now - e.at >= Timeout
    /\ eval' = [eval EXCEPT ![k].pc = "done",
                            ![k].answer = NoRule, ![k].cause = "timeout"]
    /\ UNCHANGED <<present, active, changedAt, ruleCache, breaker, failedAt>>

\* The fuse, outside the breaker: the caller is answered, the load goes on.
TimesOut(k) ==
    LET e == eval[k] IN
    /\ e.pc \in {"waiting", "loading", "answering"}
    /\ now - e.at >= Timeout
    /\ eval' = [eval EXCEPT ![k].pc = IF e.pc = "waiting" THEN "done" ELSE "late",
                            ![k].answer = NoRule, ![k].cause = "timeout"]
    /\ UNCHANGED <<present, active, changedAt, ruleCache, breaker, failedAt>>

\* Mutant of LateAnswer: the list of a load that timed out is kept.
LateAnswerCached(k) ==
    /\ eval[k].pc = "late"
    /\ \/ /\ Success(k)
          /\ ruleCache' = [ruleCache EXCEPT ![eval[k].input.project] =
                             [rules |-> eval[k].list, loadedAt |-> now]]
          /\ UNCHANGED failedAt
       \/ Failure(k) /\ UNCHANGED ruleCache
    /\ eval' = [eval EXCEPT ![k].pc = "done", ![k].test = FALSE, ![k].list = {}]
    /\ UNCHANGED <<present, active, changedAt>>

\* The load settles after the timeout: the breaker counts it, nothing keeps it.
LateAnswer(k) ==
    /\ eval[k].pc = "late"
    /\ \/ Success(k) /\ UNCHANGED failedAt
       \/ Failure(k)
    /\ eval' = [eval EXCEPT ![k].pc = "done", ![k].test = FALSE, ![k].list = {}]
    /\ UNCHANGED <<present, active, changedAt, ruleCache>>

\* Timers fire promptly: no call is pending past its timeout.
PromptTimers ==
    \A k \in Evals :
        eval[k].pc \in {"waiting", "loading", "answering"} => now - eval[k].at < Timeout

Operator ==
    \/ \E r \in Rules : AddRule(r) \/ DeleteRule(r)
    \/ \E p \in Policies, on \in BOOLEAN : SetPolicyActive(p, on)

-----------------------------------------------------------------------------
(* Properties.                                                              *)

PolicyTypeOK ==
    /\ present \subseteq Rules /\ active \subseteq Policies
    /\ changedAt \in [Rules -> Nat]
    /\ ruleCache \in [Scopes -> [rules : SUBSET Rules, loadedAt : Int]]
    /\ breaker \in [state : {"closed", "open", "half"}, count : 0..Threshold,
                    openedAt : Nat]
    /\ failedAt \in Int
    /\ eval \in [Evals -> Eval]

Applies(r, in) == in.project \in {Unresolved, ProjectOf[r.policy]} /\ Fits(r, in)

\* policy.ts, the 60 s cache behind the 100 ms timeout: an evaluation that starts
\* CacheTtl + Timeout after a rule came into force goes by that rule or by one
\* that comes before it, and no evaluation goes by a rule that went out of force
\* so long ago -- however slow the loads are and in whatever order they end --
\* unless the engine says it is unavailable.
RulesBind ==
    \A k \in Evals, r \in Rules :
        LET e == eval[k] IN
        /\ e.pc = "done" /\ e.cause = "rules"
        /\ changedAt[r] + CacheTtl + Timeout <= e.at
        => /\ InForce(r) /\ Applies(r, e.input)
                => e.answer # NoRule /\ e.answer.priority <= r.priority
           /\ ~InForce(r) => e.answer # r

\* The breaker refuses a call only within HalfOpenMs of a failed load: refusals do
\* not prolong an outage, and a late success or a straggler does not reopen it.
RefusedOnlyAfterFailure ==
    \A k \in Evals :
        eval[k].cause = "refused" => failedAt + HalfOpenMs > eval[k].at

\* While the breaker is half open its test call is still under way, be it past its
\* timeout: somebody is left to close or to open it.
HalfOpenHasTest ==
    breaker.state = "half" =>
        \E k \in Evals :
            eval[k].test /\ eval[k].pc \in {"loading", "answering", "late"}

\* The circuit breaker opens for failures only and always recovers (policy.ts, the
\* threshold and halfOpenAfter): both of the above.
BreakerIsSound == RefusedOnlyAfterFailure /\ HalfOpenHasTest

=============================================================================
