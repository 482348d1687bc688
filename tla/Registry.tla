-------------------------------- MODULE Registry -------------------------------
(***************************************************************************)
(* Which project a directory belongs to and the policy it starts with: the  *)
(* bridge's resolver with its two caches, ensureProject, get_run_id's own   *)
(* insert, contextos init with ensureDefaultPolicy, and the operator who    *)
(* renames, deletes, adds rules.  Every statement is a step of its own, for *)
(* the callers are several processes on one database.                       *)
(***************************************************************************)
EXTENDS Naturals, FiniteSets

CONSTANTS
    Cwds, Slugs, \* working directories; slugs
    Basename,    \* the slug deriveSlugFromCwd makes of a directory, or "none"
    Baseline,    \* DEFAULT_RULES by their identity: [prio, tool, glob]
    Custom,      \* rules of an operator
    Callers,
    MaxCalls, MaxIds, MaxMoves   \* bounds: calls, rows made, edits by the operator

VARIABLES
    projects,    \* projects: [id, slug, cwd]
    policies,    \* the __default__ policies: [id, project]
    rules,       \* policy_rules: [policy, spec]
    sidecar,     \* the slug .contextos.json names, from the directory upwards
    slugOf, idOf, backfilled,   \* the bridge's slugCache, idCache, backfilledSlugs
    call,        \* the calls under way
    used,        \* how many ids, calls and edits there were
    answers,     \* history: the slugs and ids callers were given
    lost,        \* history: the slugs and ids a rename or a deletion parted
    seeded,      \* history: the projects init said it had seeded
    removed      \* history: what the operator has removed: [project, spec]

vars == <<projects, policies, rules, sidecar, slugOf, idOf, backfilled, call, used,
          answers, lost, seeded, removed>>

NoSpec == [prio |-> 0, tool |-> "none", glob |-> "none"]
Idle == [do |-> "none", at |-> "idle", cwd |-> "none", slug |-> "none", derived |-> FALSE,
         keep |-> 0, id |-> 0, policy |-> 0, rules |-> {}, spec |-> NoSpec]
Unset == "unset"            \* no entry in slugCache, in idCache
Unasked == MaxIds + 1
Bearers(s) == {p \in projects : p.slug = s}
IdOf(s) == IF Bearers(s) = {} THEN 0 ELSE (CHOOSE p \in Bearers(s) : TRUE).id
Exists(id) == \E p \in projects : p.id = id
Defaults(id) == {q \in policies : q.project = id}
SpecsOf(policy) == {r.spec : r \in {x \in rules : x.policy = policy}}

Init(on) ==
    /\ projects \in {{}} \cup IF on THEN {{[id |-> 1, slug |-> s, cwd |-> "none"]} : s \in Slugs}
                              ELSE {}
    /\ policies = {} /\ rules = {}
    /\ sidecar \in {[c \in Cwds |-> s] : s \in {"none"} \cup IF on THEN Slugs ELSE {}}
    /\ slugOf = [c \in Cwds |-> Unset] /\ idOf = [s \in Slugs |-> Unasked] /\ backfilled = {}
    /\ call = [c \in Callers |-> Idle]
    /\ used = [ids |-> 1, calls |-> IF on THEN 0 ELSE MaxCalls, moves |-> IF on THEN 0 ELSE MaxMoves]
    /\ answers = {} /\ lost = {} /\ seeded = {} /\ removed = {}

Bridge == <<slugOf, idOf, backfilled>>
Policy == <<policies, rules>>
History == <<answers, lost, seeded, removed>>

At(c, pc) == call[c].at = pc
Goes(c, x) == call' = [call EXCEPT ![c] = x]
Ends(c) == Goes(c, Idle)
Answers(c, s, id) == answers' = answers \cup {[slug |-> s, id |-> id]} /\ Ends(c)

Starts(c, x) ==
    /\ call[c] = Idle /\ used.calls < MaxCalls /\ used' = [used EXCEPT !.calls = @ + 1]
    /\ Goes(c, x)
    /\ UNCHANGED <<projects, Policy, sidecar, Bridge, History>>

-----------------------------------------------------------------------------
(* The bridge: resolveAndEnsure.                                            *)

\* The cache, else .contextos.json of the directory or one above; what was not found
\* is cached too.  Without a slug the directory's name is one, or nobody's.
ResolveSlug(c) ==
    /\ At(c, "slug")
    /\ LET s == IF slugOf[call[c].cwd] # Unset THEN slugOf[call[c].cwd] ELSE sidecar[call[c].cwd]
           named == Basename[call[c].cwd]
       IN /\ slugOf' = [slugOf EXCEPT ![call[c].cwd] = s]
          /\ IF s # "none" THEN Goes(c, [call[c] EXCEPT !.slug = s, !.at = "id"])
             ELSE IF named = "none" THEN Ends(c)
             ELSE Goes(c, [call[c] EXCEPT !.slug = named, !.derived = TRUE, !.at = "select"])
    /\ UNCHANGED <<projects, Policy, sidecar, idOf, backfilled, used, History>>

\* resolveProjectId: the cache, or a select whose row is cached after it.
ResolveId(c) ==
    /\ At(c, "id")
    /\ Goes(c, IF idOf[call[c].slug] # Unasked
               THEN [call[c] EXCEPT !.keep = idOf[call[c].slug], !.at = "known"]
               ELSE [call[c] EXCEPT !.keep = IdOf(call[c].slug), !.at = "cache"])
    /\ UNCHANGED <<projects, Policy, sidecar, Bridge, used, History>>

CacheId(c) ==
    /\ At(c, "cache")
    /\ idOf' = [idOf EXCEPT ![call[c].slug] = call[c].keep]
    /\ Goes(c, [call[c] EXCEPT !.at = "known"])
    /\ UNCHANGED <<projects, Policy, sidecar, slugOf, backfilled, used, History>>

\* A known project is answered, after one ensureProject per slug that fills in its cwd.
Known(c) ==
    /\ At(c, "known")
    /\ IF call[c].keep # 0 /\ call[c].slug \in backfilled
       THEN Answers(c, call[c].slug, call[c].keep) /\ UNCHANGED backfilled
       ELSE /\ backfilled' = backfilled \cup IF call[c].keep # 0 THEN {call[c].slug} ELSE {}
            /\ Goes(c, [call[c] EXCEPT !.at = "select"])
            /\ UNCHANGED answers
    /\ UNCHANGED <<projects, Policy, sidecar, slugOf, idOf, used, lost, seeded, removed>>

\* A minute passes.
Expire ==
    /\ \/ \E d \in Cwds : slugOf' = [slugOf EXCEPT ![d] = Unset] /\ UNCHANGED idOf
       \/ \E s \in Slugs : idOf' = [idOf EXCEPT ![s] = Unasked] /\ UNCHANGED slugOf
    /\ UNCHANGED <<projects, Policy, sidecar, backfilled, call, used, History>>

-----------------------------------------------------------------------------
(* ensureProject, and get_run_id's resolveProjectId and autoCreateProject,  *)
(* which know no directory.                                                 *)

Filled(p, cwd) == IF p.cwd = "none" THEN [p EXCEPT !.cwd = cwd] ELSE p

Select(c) ==
    /\ At(c, "select")
    /\ LET s == call[c].slug IN
       IF Bearers(s) # {}
       THEN /\ Goes(c, [call[c] EXCEPT !.id = IdOf(s), !.at = "have"])
            /\ projects' = {IF p.slug = s THEN Filled(p, call[c].cwd) ELSE p : p \in projects}
            /\ UNCHANGED used
       ELSE /\ used.ids < MaxIds /\ used' = [used EXCEPT !.ids = @ + 1]
            /\ Goes(c, [call[c] EXCEPT !.id = used.ids + 1, !.at = "insert"])
            /\ UNCHANGED projects
    /\ UNCHANGED <<Policy, sidecar, Bridge, History>>

\* ON CONFLICT (slug) DO NOTHING.
Insert(c) ==
    /\ At(c, "insert")
    /\ projects' = IF Bearers(call[c].slug) # {} THEN projects
                   ELSE projects \cup {[id |-> call[c].id, slug |-> call[c].slug, cwd |-> call[c].cwd]}
    /\ Goes(c, [call[c] EXCEPT !.at = "settle"])
    /\ UNCHANGED <<Policy, sidecar, Bridge, used, History>>

\* Mutant of Settled: the id that was to be inserted.
SettledMine(c) == call[c].id

\* The row there is now, whoever has inserted it.
Settled(c) == IF Bearers(call[c].slug) = {} THEN call[c].id ELSE IdOf(call[c].slug)

Settle(c) ==
    /\ At(c, "settle")
    /\ Goes(c, [call[c] EXCEPT !.id = Settled(c), !.at = "have"])
    /\ UNCHANGED <<projects, Policy, sidecar, Bridge, used, History>>

\* The resolver answers the id it knew, or caches the new one; init goes on.
Have(c) ==
    /\ At(c, "have")
    /\ \/ /\ call[c].do = "resolve" /\ call[c].keep # 0
          /\ Answers(c, call[c].slug, call[c].keep) /\ UNCHANGED <<slugOf, idOf>>
       \/ /\ call[c].do = "resolve" /\ call[c].keep = 0
          /\ idOf' = [idOf EXCEPT ![call[c].slug] = call[c].id]
          /\ slugOf' = IF call[c].derived THEN [slugOf EXCEPT ![call[c].cwd] = call[c].slug]
                       ELSE slugOf
          /\ Answers(c, call[c].slug, call[c].id)
       \/ /\ call[c].do = "get_run_id"
          /\ Answers(c, call[c].slug, call[c].id) /\ UNCHANGED <<slugOf, idOf>>
       \/ /\ call[c].do = "init"
          /\ Goes(c, [call[c] EXCEPT !.at = "policy"]) /\ UNCHANGED <<slugOf, idOf, answers>>
    /\ UNCHANGED <<projects, Policy, sidecar, backfilled, used, lost, seeded, removed>>

-----------------------------------------------------------------------------
(* ensureDefaultPolicy, addPolicyRule.                                      *)

\* add: the project is looked up by its slug.
LookUp(c) ==
    /\ At(c, "lookup")
    /\ IF Bearers(call[c].slug) = {} THEN Ends(c)
       ELSE Goes(c, [call[c] EXCEPT !.id = IdOf(call[c].slug), !.at = "policy"])
    /\ UNCHANGED <<projects, Policy, sidecar, Bridge, used, History>>

\* LIMIT 1: no index keeps a project from having two default policies.
FindPolicy(c) ==
    /\ At(c, "policy")
    /\ IF Defaults(call[c].id) = {} THEN Goes(c, [call[c] EXCEPT !.at = "new"])
       ELSE \E q \in Defaults(call[c].id) : Goes(c, [call[c] EXCEPT !.policy = q.id, !.at = "rules"])
    /\ UNCHANGED <<projects, Policy, sidecar, Bridge, used, History>>

\* The foreign key throws when the project is gone.
NewPolicy(c) ==
    /\ At(c, "new")
    /\ IF ~Exists(call[c].id) THEN Ends(c) /\ UNCHANGED <<policies, used>>
       ELSE /\ used.ids < MaxIds /\ used' = [used EXCEPT !.ids = @ + 1]
            /\ policies' = policies \cup {[id |-> used.ids + 1, project |-> call[c].id]}
            /\ Goes(c, [call[c] EXCEPT !.policy = used.ids + 1, !.at = "fill"])
    /\ UNCHANGED <<projects, rules, sidecar, Bridge, History>>

ReadRules(c) ==
    /\ At(c, "rules")
    /\ Goes(c, [call[c] EXCEPT !.rules = SpecsOf(call[c].policy), !.at = "fill"])
    /\ UNCHANGED <<projects, Policy, sidecar, Bridge, used, History>>

\* Mutant of SameRule: a rule for the tool and the path is enough.
SameTarget(a, b) == a.tool = b.tool /\ a.glob = b.glob

\* ruleIdentity.
SameRule(a, b) == a = b

Missing(c) == {s \in Baseline : ~\E r \in call[c].rules : SameRule(r, s)}
Wanted(c) == IF call[c].do = "init" THEN Missing(c) ELSE {call[c].spec}

\* One insert of all rows: it throws when the policy is gone or the unique index has a
\* row already; a NULL glob is never the same as another.
Fits(c) ==
    /\ \E q \in policies : q.id = call[c].policy
    /\ \A s \in Wanted(c) : s.glob # "null" => s \notin SpecsOf(call[c].policy)

\* init goes on to write .contextos.json (Setup).
FillRules(c) ==
    /\ At(c, "fill") /\ Ends(c)
    /\ LET done == Wanted(c) = {} \/ Fits(c) IN
       /\ rules' = IF done THEN rules \cup {[policy |-> call[c].policy, spec |-> s] : s \in Wanted(c)}
                   ELSE rules
       /\ seeded' = IF done /\ call[c].do = "init" THEN seeded \cup {call[c].id} ELSE seeded
       /\ sidecar' = IF done /\ call[c].do = "init" THEN [sidecar EXCEPT ![call[c].cwd] = call[c].slug]
                     ELSE sidecar
    /\ UNCHANGED <<projects, policies, Bridge, used, answers, lost, removed>>

-----------------------------------------------------------------------------
(* The operator: rename, delete, a rule removed; a process that dies.       *)

Moves == used.moves < MaxMoves /\ used' = [used EXCEPT !.moves = @ + 1]
Parts(p) == lost' = lost \cup {[slug |-> p.slug, id |-> p.id]}

\* renameProject: the row alone; .contextos.json and the caches keep the old slug.
Rename ==
    /\ Moves
    /\ \E p \in projects, s \in Slugs :
        /\ Bearers(s) = {}
        /\ projects' = (projects \ {p}) \cup {[p EXCEPT !.slug = s]}
        /\ Parts(p)
    /\ UNCHANGED <<Policy, sidecar, Bridge, call, answers, seeded, removed>>

\* deleteProject: rules, then policies, then the row; the last two throw when a row
\* refers to them again.
DeleteRules(c) ==
    /\ At(c, "drop rules")
    /\ rules' = {r \in rules : \A q \in Defaults(call[c].id) : q.id # r.policy}
    /\ removed' = removed \cup [project : {call[c].id}, spec : Baseline]
    /\ Goes(c, [call[c] EXCEPT !.rules = {q.id : q \in Defaults(call[c].id)}, !.at = "drop policies"])
    /\ UNCHANGED <<projects, policies, sidecar, Bridge, used, answers, lost, seeded>>

DeletePolicies(c) ==
    /\ At(c, "drop policies")
    /\ IF \E r \in rules : r.policy \in call[c].rules THEN Ends(c) /\ UNCHANGED policies
       ELSE /\ policies' = {q \in policies : q.id \notin call[c].rules}
            /\ Goes(c, [call[c] EXCEPT !.at = "drop row"])
    /\ UNCHANGED <<projects, rules, sidecar, Bridge, used, History>>

DeleteRow(c) ==
    /\ At(c, "drop row") /\ Ends(c)
    /\ IF Defaults(call[c].id) # {} THEN UNCHANGED <<projects, lost>>
       ELSE /\ projects' = {p \in projects : p.id # call[c].id}
            /\ lost' = lost \cup {[slug |-> p.slug, id |-> p.id] : p \in projects \ projects'}
    /\ UNCHANGED <<Policy, sidecar, Bridge, used, answers, seeded, removed>>

\* deletePolicyRule.
RemoveRule ==
    /\ Moves
    /\ \E r \in rules, q \in policies :
        /\ q.id = r.policy
        /\ rules' = rules \ {r}
        /\ removed' = removed \cup {[project |-> q.project, spec |-> r.spec]}
    /\ UNCHANGED <<projects, policies, sidecar, Bridge, call, answers, lost, seeded>>

\* The bridge dies with its calls and caches, or a command between two statements.
Dies(c) ==
    /\ call[c] # Idle /\ Moves
    /\ IF call[c].do = "resolve"
       THEN /\ call' = [d \in Callers |-> IF call[d].do = "resolve" THEN Idle ELSE call[d]]
            /\ slugOf' = [d \in Cwds |-> Unset] /\ idOf' = [s \in Slugs |-> Unasked]
            /\ backfilled' = {}
       ELSE Ends(c) /\ UNCHANGED Bridge
    /\ UNCHANGED <<projects, Policy, sidecar, History>>

Next ==
    \/ \E c \in Callers, d \in Cwds :
        Starts(c, [Idle EXCEPT !.do = "resolve", !.cwd = d, !.at = "slug"])
    \/ \E c \in Callers, s \in Slugs :
        \/ Starts(c, [Idle EXCEPT !.do = "get_run_id", !.slug = s, !.at = "select"])
        \/ \E d \in Cwds : Starts(c, [Idle EXCEPT !.do = "init", !.cwd = d, !.slug = s, !.at = "select"])
        \/ \E r \in Custom : Starts(c, [Idle EXCEPT !.do = "add", !.slug = s, !.spec = r, !.at = "lookup"])
    \/ \E c \in Callers, p \in projects :
        Starts(c, [Idle EXCEPT !.do = "delete", !.id = p.id, !.at = "drop rules"])
    \/ \E c \in Callers :
        \/ ResolveSlug(c) \/ ResolveId(c) \/ CacheId(c) \/ Known(c)
        \/ Select(c) \/ Insert(c) \/ Settle(c) \/ Have(c)
        \/ LookUp(c) \/ FindPolicy(c) \/ NewPolicy(c) \/ ReadRules(c) \/ FillRules(c)
        \/ DeleteRules(c) \/ DeletePolicies(c) \/ DeleteRow(c) \/ Dies(c)
    \/ Expire \/ Rename \/ RemoveRule

-----------------------------------------------------------------------------
(* Properties.                                                              *)

\* resolve-project-slug.ts, "events always land with a real projects FK"; get_run_id,
\* "auto-create raced with a concurrent insert; using the winner": two processes that
\* ask for a slug at the same time are given the one row there is, never the id of a
\* row that was not inserted -- unless a rename or a deletion took the slug from a row.
AnswersAreRows ==
    \A a \in answers : \/ \E p \in projects : p.id = a.id /\ p.slug = a.slug
                       \/ \E l \in lost : l.slug = a.slug

\* ensure-default-policy.ts, "only fills gaps": when init has said a project is seeded,
\* each rule of the baseline is in a policy of it, whatever process died in the middle
\* of seeding before and whatever rules the operator had, until the operator removes it.
SeededIsComplete ==
    \A id \in seeded, s \in Baseline :
        \/ \E q \in Defaults(id) : s \in SpecsOf(q.id)
        \/ [project |-> id, spec |-> s] \in removed

\* What the registry of projects and policies says is what it holds: both of the above.
RegistryIsSound == AnswersAreRows /\ SeededIsComplete

=============================================================================
