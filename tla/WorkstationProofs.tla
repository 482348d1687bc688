--------------------------- MODULE WorkstationProofs ---------------------------
(***************************************************************************)
(* Proofs about the parts of a developer's machine: the registry of         *)
(* projects and policies, the daemons and the file they have open, the      *)
(* migrators and the lock of their files, the reminder, what sessions are   *)
(* told; for any callers, slugs, rules, units, PIDs, rows, processes,       *)
(* blocks, events, runs and decisions.  MachineFilesProofs has the others.  *)
(* The parts share no variable, and each has its own inductive invariant.   *)
(***************************************************************************)
EXTENDS Workstation, SequenceTheorems, FiniteSetTheorems, WellFoundedInduction, TLAPS

-----------------------------------------------------------------------------
(* Registry: what is kept of a slug, a policy and a call.                   *)

\* The slug has been some row's; its id is the row's, if the slug was taken from none.
Borne(s) == (\E p \in projects : p.slug = s) \/ \E l \in lost : l.slug = s
Good(s, i) == (\E p \in projects : p.id = i /\ p.slug = s) \/ \E l \in lost : l.slug = s

AnySpec == Baseline \cup Custom \cup {R!NoSpec}
Gathered == SUBSET (AnySpec \cup Nat)     \* what a call holds: rules, or ids of policies
Places == {"idle", "slug", "id", "cache", "known", "select", "insert", "settle", "have", "lookup",
           "policy", "new", "rules", "fill", "drop rules", "drop policies", "drop row"}
Calls == [do : {"none", "resolve", "get_run_id", "init", "add", "delete"}, at : Places,
          cwd : Cwds \cup {"none"}, slug : Slugs \cup {"none"}, derived : BOOLEAN,
          keep : Nat, id : Nat, policy : Nat, rules : Gathered, spec : AnySpec]

RegistryTypes ==
    /\ projects \in SUBSET [id : Nat, slug : Slugs, cwd : Cwds \cup {"none"}]
    /\ policies \in SUBSET [id : Nat, project : Nat]
    /\ rules \in SUBSET [policy : Nat, spec : AnySpec]
    /\ sidecar \in [Cwds -> Slugs \cup {"none"}]
    /\ slugOf \in [Cwds -> Slugs \cup {"none", "unset"}]
    /\ idOf \in [Slugs -> Nat]
    /\ used \in [ids : Nat, calls : Nat, moves : Nat]
    /\ call \in [Callers -> Calls]

\* What a call has learned stays true while it waits.
CallOK(x) ==
    /\ x.at = "slug" => x.cwd \in Cwds /\ x.keep = 0
    /\ x.at \in {"id", "cache", "known", "select", "insert", "settle", "have"} => x.slug \in Slugs
    /\ x.keep # 0 => Good(x.slug, x.keep)
    /\ x.at = "settle" => Borne(x.slug)
    /\ x.at = "have" => Good(x.slug, x.id)
    /\ x.at \in {"drop rules", "drop policies", "drop row"} => x.do = "delete"
    /\ x.policy <= used.ids
    /\ x.at \in {"rules", "fill"} => \A q \in policies : q.id = x.policy => q.project = x.id
    /\ x.do = "init" /\ x.at # "fill" => x.rules = {}
    /\ x.do = "init" /\ x.at = "fill" =>
         \A s \in x.rules \cap Baseline : \/ [policy |-> x.policy, spec |-> s] \in rules
                                          \/ [project |-> x.id, spec |-> s] \in removed

Tables ==
    /\ \A q \in policies : q.id <= used.ids
    /\ \A q, r \in policies : q.id = r.id => q = r
    /\ \A r \in rules : \E q \in policies : q.id = r.policy

RegistryInv ==
    /\ RegistryTypes
    /\ Tables
    /\ \A c \in Callers : CallOK(call[c])
    /\ \A s \in Slugs : idOf[s] \notin {0, R!Unasked} => Good(s, idOf[s])
    /\ R!AnswersAreRows
    /\ R!SeededIsComplete

LEMMA InitRegistryInv ==
    ASSUME NEW on \in BOOLEAN, R!Init(on) PROVE RegistryInv
<1>1. R!Idle \in Calls /\ CallOK(R!Idle)
  <2>1. used.ids = 1
    BY DEF R!Init
  <2>2. R!NoSpec \in AnySpec
    BY DEF AnySpec
  <2>3. {} \in Gathered
    BY DEF Gathered
  <2>5. R!Idle \in Calls
    BY <2>2, <2>3 DEF R!Idle, Calls, Places
  <2>4. CallOK(R!Idle)
    BY <2>1 DEF R!Idle, CallOK
  <2> QED
    BY <2>4, <2>5
<1>2. projects \in SUBSET [id : Nat, slug : Slugs, cwd : Cwds \cup {"none"}]
  BY DEF R!Init
<1>3. sidecar \in [Cwds -> Slugs \cup {"none"}] /\ slugOf \in [Cwds -> Slugs \cup {"none", "unset"}]
  BY DEF R!Init, R!Unset
<1>4. used \in [ids : Nat, calls : Nat, moves : Nat]
  BY RegistryAssumption DEF R!Init
<1>5. idOf \in [Slugs -> Nat] /\ call \in [Callers -> Calls]
  BY <1>1, RegistryAssumption DEF R!Init, R!Unasked
<1>6. RegistryTypes
  BY <1>2, <1>3, <1>4, <1>5 DEF R!Init, RegistryTypes
<1>7. \A c \in Callers : call[c] = R!Idle
  BY DEF R!Init
<1> QED
  BY <1>1, <1>6, <1>7
  DEF R!Init, RegistryInv, Tables, R!AnswersAreRows, R!SeededIsComplete

\* Statements that leave the tables alone.
Waits ==
    \/ \E c \in Callers, x \in Calls : CallOK(x) /\ R!Starts(c, x)
    \/ \E c \in Callers :
        \/ R!ResolveSlug(c) \/ R!ResolveId(c) \/ R!CacheId(c) \/ R!Known(c)
        \/ R!Settle(c) \/ R!Have(c) \/ R!LookUp(c) \/ R!FindPolicy(c) \/ R!ReadRules(c) \/ R!Dies(c)
    \/ R!Expire

LEMMA WaitsKeepTables ==
    ASSUME RegistryTypes, Waits
    PROVE  /\ UNCHANGED <<projects, policies, rules, lost, removed, seeded>>
           /\ used' \in [ids : Nat, calls : Nat, moves : Nat] /\ used'.ids = used.ids
<1>1. used \in [ids : Nat, calls : Nat, moves : Nat]
  BY DEF RegistryTypes
<1>2. UNCHANGED <<projects, policies, rules, lost, removed, seeded>>
  BY DEF Waits, R!Starts, R!ResolveSlug, R!ResolveId, R!CacheId, R!Known, R!Settle, R!Have, R!Dies,
         R!LookUp, R!FindPolicy, R!ReadRules, R!Expire, R!Policy, R!History
<1>3. \/ UNCHANGED used
      \/ used' = [used EXCEPT !.calls = @ + 1]
      \/ used' = [used EXCEPT !.moves = @ + 1]
  BY DEF Waits, R!Starts, R!ResolveSlug, R!ResolveId, R!CacheId, R!Known, R!Settle, R!Have, R!Dies,
         R!LookUp, R!FindPolicy, R!ReadRules, R!Expire, R!Moves
<1> QED
  BY <1>1, <1>2, <1>3

Writes(c) ==
    \/ R!Select(c) \/ R!Insert(c) \/ R!NewPolicy(c) \/ R!FillRules(c)
    \/ R!DeleteRules(c) \/ R!DeletePolicies(c) \/ R!DeleteRow(c)

LEMMA RegistrySteps ==
    ASSUME RegistryTypes, R!Next
    PROVE  Waits \/ (\E c \in Callers : Writes(c)) \/ R!Rename \/ R!RemoveRule
<1> DEFINE Fresh == {x \in Calls : /\ x.keep = 0 /\ x.policy = 0 /\ x.rules = {}
                                   /\ x.at \in {"slug", "select", "lookup", "drop rules"}
                                   /\ x.at = "slug" => x.cwd \in Cwds
                                   /\ x.at = "select" => x.slug \in Slugs
                                   /\ x.at = "drop rules" => x.do = "delete"}
<1>0. R!NoSpec \in AnySpec /\ Custom \subseteq AnySpec /\ {} \in Gathered /\ used.ids \in Nat
  BY DEF AnySpec, Gathered, RegistryTypes
<1>1. ASSUME NEW d \in Cwds PROVE [R!Idle EXCEPT !.do = "resolve", !.cwd = d, !.at = "slug"] \in Fresh
  BY <1>0 DEF R!Idle, Calls, Places
<1>2. ASSUME NEW s \in Slugs
      PROVE  [R!Idle EXCEPT !.do = "get_run_id", !.slug = s, !.at = "select"] \in Fresh
  BY <1>0 DEF R!Idle, Calls, Places
<1>3. ASSUME NEW s \in Slugs, NEW d \in Cwds
      PROVE  [R!Idle EXCEPT !.do = "init", !.cwd = d, !.slug = s, !.at = "select"] \in Fresh
  BY <1>0 DEF R!Idle, Calls, Places
<1>4. ASSUME NEW s \in Slugs, NEW r \in Custom
      PROVE  [R!Idle EXCEPT !.do = "add", !.slug = s, !.spec = r, !.at = "lookup"] \in Fresh
  BY <1>0 DEF R!Idle, Calls, Places
<1>5. ASSUME NEW p \in projects
      PROVE  [R!Idle EXCEPT !.do = "delete", !.id = p.id, !.at = "drop rules"] \in Fresh
  <2>1. p.id \in Nat
    BY DEF RegistryTypes
  <2> QED
    BY <1>0, <2>1 DEF R!Idle, Calls, Places
<1>6. ASSUME NEW x \in Fresh PROVE x \in Calls /\ CallOK(x)
  <2>1. /\ x \in Calls /\ x.keep = 0 /\ x.policy = 0 /\ x.rules = {}
        /\ x.at \in {"slug", "select", "lookup", "drop rules"}
        /\ x.at = "slug" => x.cwd \in Cwds
        /\ x.at = "select" => x.slug \in Slugs
        /\ x.at = "drop rules" => x.do = "delete"
    OBVIOUS
  <2> HIDE DEF Fresh
  <2>2. x.policy <= used.ids
    <3>1. used.ids \in Nat
      BY <1>0
    <3>2. x.policy = 0
      BY <2>1
    <3> QED
      BY <3>1, <3>2
  <2>3. x.do = "init" /\ x.at # "fill" => x.rules = {}
    BY <2>1
  <2>4. x.at \notin {"rules", "fill", "id", "cache", "known", "insert", "settle", "have", 
                    "drop policies", "drop row"}
    BY <2>1
  <2> QED
    BY <2>1, <2>2, <2>3, <2>4 DEF CallOK
<1> HIDE DEF Fresh
<1>7. ASSUME NEW c \in Callers, NEW x \in Fresh, R!Starts(c, x) PROVE Waits
  BY <1>6, <1>7 DEF Waits
<1>8. ASSUME NEW c \in Callers, NEW d \in Cwds,
             R!Starts(c, [R!Idle EXCEPT !.do = "resolve", !.cwd = d, !.at = "slug"])
      PROVE  Waits
  BY <1>1, <1>7, <1>8
<1>9. ASSUME NEW c \in Callers, NEW s \in Slugs,
             \/ R!Starts(c, [R!Idle EXCEPT !.do = "get_run_id", !.slug = s, !.at = "select"])
             \/ \E d \in Cwds : R!Starts(c, [R!Idle EXCEPT !.do = "init", !.cwd = d, !.slug = s, !.at = "select"])
             \/ \E r \in Custom : R!Starts(c, [R!Idle EXCEPT !.do = "add", !.slug = s, !.spec = r, !.at = "lookup"])
      PROVE  Waits
  BY <1>2, <1>3, <1>4, <1>7, <1>9
<1>10. ASSUME NEW c \in Callers, NEW p \in projects,
              R!Starts(c, [R!Idle EXCEPT !.do = "delete", !.id = p.id, !.at = "drop rules"])
       PROVE  Waits
  BY <1>5, <1>7, <1>10
<1>11. ASSUME NEW c \in Callers,
              \/ R!ResolveSlug(c) \/ R!ResolveId(c) \/ R!CacheId(c) \/ R!Known(c)
              \/ R!Select(c) \/ R!Insert(c) \/ R!Settle(c) \/ R!Have(c)
              \/ R!LookUp(c) \/ R!FindPolicy(c) \/ R!NewPolicy(c) \/ R!ReadRules(c) \/ R!FillRules(c)
              \/ R!DeleteRules(c) \/ R!DeletePolicies(c) \/ R!DeleteRow(c) \/ R!Dies(c)
       PROVE  Waits \/ Writes(c)
  BY <1>11 DEF Waits, Writes
<1> QED
  BY <1>8, <1>9, <1>10, <1>11 DEF R!Next, Waits

\* The tables change so that nothing a call knows becomes wrong: a slug leaves a row, a
\* rule its policy, only into the histories.
WorldMoves ==
    /\ \A s : Borne(s) => Borne(s)'
    /\ \A s, i : Good(s, i) => Good(s, i)'
    /\ used.ids <= used'.ids /\ removed \subseteq removed'
    /\ \A q \in policies' : q \in policies \/ q.id > used.ids
    /\ \A q \in policies, r \in rules' : r.policy = q.id => q \in policies'
    /\ \A q \in policies, r \in rules : r.policy = q.id =>
         r \in rules' \/ r.spec \notin Baseline \/ [project |-> q.project, spec |-> r.spec] \in removed'

TableTypes ==
    /\ projects \in SUBSET [id : Nat, slug : Slugs, cwd : Cwds \cup {"none"}]
    /\ policies \in SUBSET [id : Nat, project : Nat]
    /\ rules \in SUBSET [policy : Nat, spec : AnySpec]
    /\ used \in [ids : Nat, calls : Nat, moves : Nat]

LEMMA WorldTurns ==
    ASSUME RegistryInv, R!Next PROVE WorldMoves /\ TableTypes' /\ Tables'
<1>0. RegistryTypes /\ Tables /\ used.ids \in Nat /\ used \in [ids : Nat, calls : Nat, moves : Nat]
  BY DEF RegistryInv, RegistryTypes
<1>a. TableTypes
  BY <1>0 DEF RegistryTypes, TableTypes
<1>1. CASE Waits
  BY <1>0, <1>1, <1>a, WaitsKeepTables DEF WorldMoves, Good, Borne, Tables, TableTypes
<1>2. ASSUME NEW c \in Callers, Writes(c) PROVE WorldMoves /\ TableTypes' /\ Tables'
  <2>0. /\ call[c] \in Calls /\ call[c].slug \in Slugs \cup {"none"}
        /\ call[c].cwd \in Cwds \cup {"none"} /\ call[c].id \in Nat
        /\ call[c].policy \in Nat /\ call[c].spec \in AnySpec /\ CallOK(call[c])
    BY <1>0 DEF RegistryTypes, RegistryInv, Calls
  <2>1. CASE R!Select(c)
    <3>1. /\ UNCHANGED <<policies, rules, lost, removed>>
          /\ used'.ids >= used.ids /\ used' \in [ids : Nat, calls : Nat, moves : Nat]
      BY <1>0, <2>1 DEF R!Select, R!Policy, R!History
    <3>2. \A p \in projects : \E q \in projects' : q.id = p.id /\ q.slug = p.slug
      <4>1. \A p \in projects : /\ R!Filled(p, call[c].cwd).id = p.id
                               /\ R!Filled(p, call[c].cwd).slug = p.slug
        BY <1>a DEF R!Filled, TableTypes
      <4>2. \/ UNCHANGED projects
            \/ projects' = {IF p.slug = call[c].slug THEN R!Filled(p, call[c].cwd) ELSE p : p \in projects}
        BY <2>1 DEF R!Select
      <4>3. \A p \in projects : p \in projects' \/ R!Filled(p, call[c].cwd) \in projects'
        BY <4>2
      <4> QED
        BY <4>1, <4>3
    <3>3. projects' \in SUBSET [id : Nat, slug : Slugs, cwd : Cwds \cup {"none"}]
      BY <1>a, <2>0, <2>1 DEF R!Select, R!Filled, TableTypes
    <3> QED
      BY <1>0, <1>a, <3>1, <3>2, <3>3 DEF WorldMoves, Good, Borne, Tables, TableTypes
  <2>2. CASE R!Insert(c)
    <3>1. UNCHANGED <<policies, rules, lost, removed, used>> /\ projects \subseteq projects'
      BY <2>2 DEF R!Insert, R!Policy, R!History
    <3>2. call[c].slug \in Slugs
      BY <2>0, <2>2 DEF R!Insert, R!At, CallOK
    <3>3. projects' \in SUBSET [id : Nat, slug : Slugs, cwd : Cwds \cup {"none"}]
      BY <1>a, <2>0, <2>2, <3>2 DEF R!Insert, TableTypes
    <3> QED
      BY <1>0, <1>a, <3>1, <3>3 DEF WorldMoves, Good, Borne, Tables, TableTypes
  <2>3. CASE R!NewPolicy(c)
    <3>1. UNCHANGED <<projects, rules, lost, removed>>
      BY <2>3 DEF R!NewPolicy, R!History
    <3>2. \/ UNCHANGED <<policies, used>>
          \/ /\ used' = [used EXCEPT !.ids = @ + 1]
             /\ policies' = policies \cup {[id |-> used.ids + 1, project |-> call[c].id]}
      BY <2>3 DEF R!NewPolicy
    <3>3. /\ used' \in [ids : Nat, calls : Nat, moves : Nat] /\ used.ids <= used'.ids
          /\ \A q \in policies' : \/ q \in policies
                                  \/ q.id = used.ids + 1 /\ q = [id |-> used.ids + 1, project |-> call[c].id]
          /\ \A q \in policies' : q \in policies \/ used'.ids = used.ids + 1
          /\ policies \subseteq policies' /\ policies' \in SUBSET [id : Nat, project : Nat]
      BY <1>0, <1>a, <2>0, <3>2 DEF TableTypes
    <3>4. Tables'
      BY <1>0, <1>a, <3>1, <3>3 DEF Tables, TableTypes
    <3> QED
      BY <1>0, <1>a, <3>1, <3>3, <3>4 DEF WorldMoves, Good, Borne, TableTypes
  <2>4. CASE R!FillRules(c)
    <3>1. UNCHANGED <<projects, policies, lost, removed, used>>
      BY <2>4 DEF R!FillRules
    <3>2. R!Wanted(c) \subseteq AnySpec
      BY <2>0 DEF R!Wanted, R!Missing, AnySpec
    <3>3. \/ UNCHANGED rules
          \/ /\ \E q \in policies : q.id = call[c].policy
             /\ rules' = rules \cup {[policy |-> call[c].policy, spec |-> s] : s \in R!Wanted(c)}
      BY <2>4 DEF R!FillRules, R!Fits
    <3>4. /\ rules \subseteq rules' /\ rules' \in SUBSET [policy : Nat, spec : AnySpec]
          /\ \A r \in rules' : \E q \in policies : q.id = r.policy
      BY <1>0, <1>a, <2>0, <3>2, <3>3 DEF Tables, TableTypes
    <3> QED
      BY <1>0, <1>a, <3>1, <3>4 DEF WorldMoves, Good, Borne, Tables, TableTypes
  <2>5. CASE R!DeleteRules(c)
    <3>1. UNCHANGED <<projects, policies, lost, used>>
      BY <2>5 DEF R!DeleteRules
    <3>2. rules' \subseteq rules /\ removed \subseteq removed'
      BY <2>5 DEF R!DeleteRules
    <3>3. ASSUME NEW q \in policies, NEW r \in rules, r.policy = q.id, r \notin rules',
                 r.spec \in Baseline
          PROVE  [project |-> q.project, spec |-> r.spec] \in removed'
      <4>1. PICK p \in policies : p.project = call[c].id /\ p.id = r.policy
        BY <2>5, <3>3 DEF R!DeleteRules, R!Defaults
      <4>2. q.project = call[c].id
        BY <1>0, <3>3, <4>1 DEF Tables
      <4> QED
        BY <2>5, <3>3, <4>2 DEF R!DeleteRules
    <3> QED
      BY <1>0, <1>a, <3>1, <3>2, <3>3 DEF WorldMoves, Good, Borne, Tables, TableTypes
  <2>6. CASE R!DeletePolicies(c)
    <3>1. UNCHANGED <<projects, rules, lost, removed, used>> /\ policies' \subseteq policies
      BY <2>6 DEF R!DeletePolicies, R!History
    <3>2. \A q \in policies, r \in rules : r.policy = q.id => q \in policies'
      BY <2>6 DEF R!DeletePolicies
    <3> QED
      BY <1>0, <1>a, <3>1, <3>2 DEF WorldMoves, Good, Borne, Tables, TableTypes
  <2>7. CASE R!DeleteRow(c)
    <3>1. UNCHANGED <<policies, rules, removed, used>> /\ projects' \subseteq projects
          /\ lost \subseteq lost'
      BY <2>7 DEF R!DeleteRow, R!Policy
    <3>2. ASSUME NEW p \in projects, p \notin projects' PROVE \E l \in lost' : l.slug = p.slug
      <4>1. [slug |-> p.slug, id |-> p.id] \in lost'
        BY <2>7, <3>2 DEF R!DeleteRow
      <4> QED
        BY <4>1
    <3> QED
      BY <1>0, <1>a, <3>1, <3>2 DEF WorldMoves, Good, Borne, Tables, TableTypes
  <2> QED
    BY <1>2, <2>1, <2>2, <2>3, <2>4, <2>5, <2>6, <2>7 DEF Writes
<1>3. CASE R!Rename
  <2>1. PICK p \in projects, s \in Slugs :
          /\ projects' = (projects \ {p}) \cup {[p EXCEPT !.slug = s]} /\ R!Parts(p)
    BY <1>3 DEF R!Rename
  <2>2. UNCHANGED <<policies, rules, removed>> /\ used' = [used EXCEPT !.moves = @ + 1]
    BY <1>3 DEF R!Rename, R!Policy, R!Moves
  <2>3. used' \in [ids : Nat, calls : Nat, moves : Nat] /\ used'.ids = used.ids
    BY <1>0, <2>2
  <2>4. lost \subseteq lost' /\ \A x \in projects \ projects' : \E l \in lost' : l.slug = x.slug
    BY <2>1 DEF R!Parts
  <2>5. projects' \in SUBSET [id : Nat, slug : Slugs, cwd : Cwds \cup {"none"}]
    BY <1>a, <2>1 DEF TableTypes
  <2> QED
    BY <1>0, <1>a, <2>2, <2>3, <2>4, <2>5 DEF WorldMoves, Good, Borne, Tables, TableTypes
<1>4. CASE R!RemoveRule
  <2>1. PICK x \in rules, p \in policies :
          /\ p.id = x.policy /\ rules' = rules \ {x}
          /\ removed' = removed \cup {[project |-> p.project, spec |-> x.spec]}
    BY <1>4 DEF R!RemoveRule
  <2>2. UNCHANGED <<projects, policies, lost>> /\ used' = [used EXCEPT !.moves = @ + 1]
    BY <1>4 DEF R!RemoveRule, R!Policy, R!Moves
  <2>3. used' \in [ids : Nat, calls : Nat, moves : Nat] /\ used'.ids = used.ids
    BY <1>0, <2>2
  <2>4. \A q \in policies : x.policy = q.id => q = p
    BY <1>0, <2>1 DEF Tables
  <2> QED
    BY <1>0, <1>a, <2>1, <2>2, <2>3, <2>4 DEF WorldMoves, Good, Borne, Tables, TableTypes
<1> QED
  BY <1>0, <1>1, <1>2, <1>3, <1>4, RegistrySteps

LEMMA CallStays ==
    ASSUME RegistryInv, WorldMoves, used'.ids \in Nat, NEW x \in Calls, CallOK(x) PROVE CallOK(x)'
<1>0. /\ used.ids \in Nat /\ x.policy \in Nat /\ Tables
  BY DEF RegistryInv, RegistryTypes, Calls
<1>a. used.ids <= used'.ids /\ \A q \in policies' : q \in policies \/ q.id > used.ids
  BY DEF WorldMoves
<1>b. x.policy <= used.ids
  BY DEF CallOK
<1>1. x.policy <= used'.ids
  BY <1>0, <1>a, <1>b
<1>2. x.at \in {"rules", "fill"} => \A q \in policies' : q.id = x.policy => q.project = x.id
  <2> SUFFICES ASSUME x.at \in {"rules", "fill"}, NEW q \in policies', q.id = x.policy
               PROVE  q.project = x.id
    OBVIOUS
  <2>1. q \in policies
    BY <1>0, <1>a, <1>b
  <2> QED
    BY <2>1 DEF CallOK
<1>3. ASSUME x.do = "init", x.at = "fill", NEW s \in x.rules \cap Baseline
      PROVE  [policy |-> x.policy, spec |-> s] \in rules' \/ [project |-> x.id, spec |-> s] \in removed'
  <2>1. CASE [project |-> x.id, spec |-> s] \in removed
    BY <2>1 DEF WorldMoves
  <2>2. CASE [policy |-> x.policy, spec |-> s] \in rules
    <3>1. PICK q \in policies : q.id = x.policy
      BY <1>0, <2>2 DEF Tables
    <3>2. q.project = x.id
      BY <1>3, <3>1 DEF CallOK
    <3> DEFINE r == [policy |-> x.policy, spec |-> s]
    <3>3. r \in rules /\ r.policy = q.id /\ r.spec = s
      BY <2>2, <3>1
    <3> HIDE DEF r
    <3>4. r \in rules' \/ s \notin Baseline \/ [project |-> q.project, spec |-> s] \in removed'
      BY <3>3 DEF WorldMoves
    <3> QED
      BY <3>2, <3>4 DEF r
  <2> QED
    BY <1>3, <2>1, <2>2 DEF CallOK
<1>4. /\ x.keep # 0 => Good(x.slug, x.keep)'
      /\ x.at = "settle" => Borne(x.slug)'
      /\ x.at = "have" => Good(x.slug, x.id)'
  BY DEF CallOK, WorldMoves
<1> QED
  BY <1>1, <1>2, <1>3, <1>4 DEF CallOK

\* One call goes on, the others wait.
CallsOK == call \in [Callers -> Calls] /\ \A c \in Callers : CallOK(call[c])

LEMMA CallGoes ==
    ASSUME RegistryInv, WorldMoves, used'.ids \in Nat, NEW c \in Callers, NEW y \in Calls,
           CallOK(y)', call' = [call EXCEPT ![c] = y]
    PROVE  CallsOK'
<1>1. ASSUME NEW d \in Callers PROVE CallOK(call[d])'
  <2>1. PICK x \in Calls : x = call[d] /\ CallOK(x)
    BY DEF RegistryInv, RegistryTypes
  <2>2. CallOK(x)'
    BY <2>1, CallStays
  <2>3. call'[d] = IF d = c THEN y ELSE x
    BY <2>1 DEF RegistryInv, RegistryTypes
  <2> QED
    BY <2>2, <2>3
<1>2. call' \in [Callers -> Calls]
  BY DEF RegistryInv, RegistryTypes
<1> QED
  BY <1>1, <1>2 DEF CallsOK

\* What the resolver takes for the id of a slug is a row's.
LEMMA IdOfIsGood ==
    ASSUME TableTypes, NEW s, R!Bearers(s) # {} PROVE Good(s, R!IdOf(s)) /\ R!IdOf(s) \in Nat
<1>1. PICK p \in R!Bearers(s) : R!IdOf(s) = p.id
  BY DEF R!IdOf
<1> QED
  BY <1>1 DEF R!Bearers, Good, TableTypes

\* The caller goes on with what it has learned, as the tables were.
LEMMA CallLearns ==
    ASSUME RegistryInv, WorldMoves, used'.ids \in Nat, NEW c \in Callers, NEW y \in Calls,
           CallOK(y), call' = [call EXCEPT ![c] = y]
    PROVE  CallsOK'
BY CallStays, CallGoes

LEMMA IdleIsOK == RegistryTypes => R!Idle \in Calls /\ CallOK(R!Idle)
<1> SUFFICES ASSUME RegistryTypes PROVE R!Idle \in Calls /\ CallOK(R!Idle)
  OBVIOUS
<1>1. R!NoSpec \in AnySpec /\ {} \in Gathered
  BY DEF AnySpec, Gathered
<1>2. used.ids \in Nat
  BY DEF RegistryTypes
<1> QED
  BY <1>1, <1>2 DEF R!Idle, Calls, Places, CallOK

LEMMA ResolverCalls ==
    ASSUME RegistryInv, WorldMoves, used'.ids \in Nat, NEW c \in Callers,
           R!ResolveSlug(c) \/ R!ResolveId(c) \/ R!CacheId(c) \/ R!Known(c)
    PROVE  CallsOK'
<1>0. /\ RegistryTypes /\ TableTypes
      /\ R!Idle \in Calls /\ CallOK(R!Idle)
  BY IdleIsOK DEF RegistryInv, RegistryTypes, TableTypes
<1>a. PICK x \in Calls : x = call[c] /\ CallOK(x)
  BY DEF RegistryInv, RegistryTypes
<1>b. /\ x.slug \in Slugs \cup {"none"} /\ x.cwd \in Cwds \cup {"none"}
      /\ \A s \in Slugs : idOf[s] \in Nat /\ (idOf[s] \notin {0, R!Unasked} => Good(s, idOf[s]))
  BY DEF RegistryInv, RegistryTypes, Calls
<1>1. CASE R!ResolveSlug(c)
  <2>1. x.at = "slug" /\ x.cwd \in Cwds /\ x.keep = 0
    BY <1>a, <1>1 DEF R!ResolveSlug, R!At, CallOK
  <2>2. PICK s \in Slugs \cup {"none"}, n \in Slugs \cup {"none"} :
          IF s # "none" THEN call' = [call EXCEPT ![c] = [x EXCEPT !.slug = s, !.at = "id"]]
          ELSE IF n = "none" THEN call' = [call EXCEPT ![c] = R!Idle]
          ELSE call' = [call EXCEPT ![c] = [x EXCEPT !.slug = n, !.derived = TRUE, !.at = "select"]]
    <3>1. /\ sidecar[x.cwd] \in Slugs \cup {"none"} /\ Basename[x.cwd] \in Slugs \cup {"none"}
          /\ slugOf[x.cwd] # R!Unset => slugOf[x.cwd] \in Slugs \cup {"none"}
      BY <1>0, <2>1, RegistryAssumption DEF RegistryTypes, R!Unset
    <3> QED
      BY <1>a, <1>1, <3>1 DEF R!ResolveSlug, R!Goes, R!Ends
  <2>3. ASSUME NEW t \in Slugs PROVE /\ [x EXCEPT !.slug = t, !.at = "id"] \in Calls
                                    /\ CallOK([x EXCEPT !.slug = t, !.at = "id"])
    BY <1>a, <2>1 DEF Calls, Places, CallOK
  <2>4. ASSUME NEW t \in Slugs
        PROVE  /\ [x EXCEPT !.slug = t, !.derived = TRUE, !.at = "select"] \in Calls
               /\ CallOK([x EXCEPT !.slug = t, !.derived = TRUE, !.at = "select"])
    BY <1>a, <2>1 DEF Calls, Places, CallOK
  <2> QED
    BY <1>0, <2>2, <2>3, <2>4, CallLearns
<1>2. CASE R!ResolveId(c)
  <2>1. x.at = "id" /\ x.slug \in Slugs
    BY <1>a, <1>2 DEF R!ResolveId, R!At, CallOK
  <2>2. PICK i \in Nat : /\ i # 0 => Good(x.slug, i)
                        /\ \/ call' = [call EXCEPT ![c] = [x EXCEPT !.keep = i, !.at = "known"]]
                           \/ call' = [call EXCEPT ![c] = [x EXCEPT !.keep = i, !.at = "cache"]]
    <3>1. R!IdOf(x.slug) \in Nat /\ (R!IdOf(x.slug) # 0 => Good(x.slug, R!IdOf(x.slug)))
      BY <1>0, IdOfIsGood DEF R!IdOf
    <3> QED
      BY <1>a, <1>b, <1>2, <2>1, <3>1 DEF R!ResolveId, R!Goes
  <2>3. /\ [x EXCEPT !.keep = i, !.at = "known"] \in Calls
        /\ CallOK([x EXCEPT !.keep = i, !.at = "known"])
    BY <1>a, <2>1, <2>2 DEF Calls, Places, CallOK
  <2>4. /\ [x EXCEPT !.keep = i, !.at = "cache"] \in Calls
        /\ CallOK([x EXCEPT !.keep = i, !.at = "cache"])
    BY <1>a, <2>1, <2>2 DEF Calls, Places, CallOK
  <2> QED
    BY <2>2, <2>3, <2>4, CallLearns
<1>3. CASE R!CacheId(c)
  <2>1. x.at = "cache" /\ call' = [call EXCEPT ![c] = [x EXCEPT !.at = "known"]]
    BY <1>a, <1>3 DEF R!CacheId, R!At, R!Goes
  <2>2. [x EXCEPT !.at = "known"] \in Calls /\ CallOK([x EXCEPT !.at = "known"])
    BY <1>a, <2>1 DEF Calls, Places, CallOK
  <2> QED
    BY <2>1, <2>2, CallLearns
<1>4. CASE R!Known(c)
  <2>1. /\ x.at = "known"
        /\ \/ call' = [call EXCEPT ![c] = [x EXCEPT !.at = "select"]]
           \/ call' = [call EXCEPT ![c] = R!Idle]
    BY <1>a, <1>4 DEF R!Known, R!At, R!Goes, R!Answers, R!Ends
  <2>2. [x EXCEPT !.at = "select"] \in Calls /\ CallOK([x EXCEPT !.at = "select"])
    BY <1>a, <2>1 DEF Calls, Places, CallOK
  <2> QED
    BY <1>0, <2>1, <2>2, CallLearns
<1> QED
  BY <1>1, <1>2, <1>3, <1>4

LEMMA EnsureCalls ==
    ASSUME RegistryInv, WorldMoves, used'.ids \in Nat, NEW c \in Callers,
           R!Select(c) \/ R!Insert(c) \/ R!Settle(c) \/ R!Have(c)
    PROVE  CallsOK'
<1>0. /\ RegistryTypes /\ TableTypes /\ Tables
      /\ R!Idle \in Calls /\ CallOK(R!Idle)
  BY IdleIsOK DEF RegistryInv, RegistryTypes, TableTypes
<1>a. PICK x \in Calls : x = call[c] /\ CallOK(x)
  BY DEF RegistryInv, RegistryTypes
<1>1. CASE R!Select(c)
  <2>1. x.at = "select" /\ x.slug \in Slugs
    BY <1>a, <1>1 DEF R!Select, R!At, CallOK
  <2>2. CASE R!Bearers(x.slug) # {}
    <3> DEFINE i == R!IdOf(x.slug)
               y == [x EXCEPT !.id = i, !.at = "have"]
    <3>1. call' = [call EXCEPT ![c] = y]
      BY <1>a, <1>1, <2>2 DEF R!Select, R!Goes
    <3>2. i \in Nat /\ Good(x.slug, i)
      BY <1>0, <2>2, IdOfIsGood
    <3> HIDE DEF i
    <3>3. y \in Calls /\ CallOK(y)
      BY <1>a, <2>1, <3>2 DEF Calls, Places, CallOK
    <3> QED
      BY <3>1, <3>3, CallLearns
  <2>3. CASE R!Bearers(x.slug) = {}
    <3> DEFINE i == used.ids + 1
               y == [x EXCEPT !.id = i, !.at = "insert"]
    <3>1. call' = [call EXCEPT ![c] = y]
      BY <1>a, <1>1, <2>3 DEF R!Select, R!Goes
    <3>2. i \in Nat
      BY <1>0 DEF RegistryTypes
    <3> HIDE DEF i
    <3>3. y \in Calls /\ CallOK(y)
      BY <1>a, <2>1, <3>2 DEF Calls, Places, CallOK
    <3> QED
      BY <3>1, <3>3, CallLearns
  <2> QED
    BY <2>2, <2>3
<1>2. CASE R!Insert(c)
  <2>1. x.at = "insert" /\ call' = [call EXCEPT ![c] = [x EXCEPT !.at = "settle"]]
    BY <1>a, <1>2 DEF R!Insert, R!At, R!Goes
  <2>2. Borne(x.slug)'
    <3>1. CASE R!Bearers(x.slug) # {}
      BY <1>a, <1>2, <3>1 DEF R!Insert, R!Bearers, Borne
    <3>2. CASE R!Bearers(x.slug) = {}
      <4>1. [id |-> x.id, slug |-> x.slug, cwd |-> x.cwd] \in projects'
        BY <1>a, <1>2, <3>2 DEF R!Insert
      <4> QED
        BY <4>1 DEF Borne
    <3> QED
      BY <3>1, <3>2
  <2>3. CallOK(x)'
    BY <1>a, CallStays
  <2>4. [x EXCEPT !.at = "settle"] \in Calls
    BY <1>a DEF Calls, Places
  <2>5. CallOK([x EXCEPT !.at = "settle"])'
    BY <1>a, <2>1, <2>2, <2>3 DEF Calls, CallOK
  <2> QED
    BY <2>1, <2>4, <2>5, CallGoes
<1>3. CASE R!Settle(c)
  <2> DEFINE i == R!Settled(c)
             y == [x EXCEPT !.id = i, !.at = "have"]
  <2>1. x.at = "settle" /\ x.slug \in Slugs /\ call' = [call EXCEPT ![c] = y]
    BY <1>a, <1>3 DEF R!Settle, R!At, R!Goes, CallOK
  <2>2. i \in Nat /\ Good(x.slug, i)
    <3>1. CASE R!Bearers(x.slug) # {}
      BY <1>0, <1>a, <3>1, IdOfIsGood DEF R!Settled
    <3>2. CASE R!Bearers(x.slug) = {}
      <4>1. i = x.id /\ x.id \in Nat
        BY <1>a, <3>2 DEF R!Settled, Calls
      <4>2. \E l \in lost : l.slug = x.slug
        BY <1>a, <2>1, <3>2 DEF CallOK, Borne, R!Bearers
      <4> QED
        BY <4>1, <4>2 DEF Good
    <3> QED
      BY <3>1, <3>2
  <2> HIDE DEF i
  <2>3. y \in Calls /\ CallOK(y)
    BY <1>a, <2>1, <2>2 DEF Calls, Places, CallOK
  <2> QED
    BY <2>1, <2>3, CallLearns
<1>4. CASE R!Have(c)
  <2>1. /\ x.at = "have"
        /\ \/ call' = [call EXCEPT ![c] = R!Idle]
           \/ call' = [call EXCEPT ![c] = [x EXCEPT !.at = "policy"]]
    BY <1>a, <1>4 DEF R!Have, R!At, R!Goes, R!Answers, R!Ends
  <2>2. [x EXCEPT !.at = "policy"] \in Calls /\ CallOK([x EXCEPT !.at = "policy"])
    BY <1>a, <2>1 DEF Calls, Places, CallOK
  <2> QED
    BY <1>0, <2>1, <2>2, CallLearns
<1> QED
  BY <1>1, <1>2, <1>3, <1>4

LEMMA PolicyCalls ==
    ASSUME RegistryInv, WorldMoves, used'.ids \in Nat, NEW c \in Callers,
           R!LookUp(c) \/ R!FindPolicy(c) \/ R!NewPolicy(c) \/ R!ReadRules(c) \/ R!FillRules(c)
    PROVE  CallsOK'
<1>0. /\ RegistryTypes /\ TableTypes /\ Tables
      /\ R!Idle \in Calls /\ CallOK(R!Idle)
  BY IdleIsOK DEF RegistryInv, RegistryTypes, TableTypes
<1>a. PICK x \in Calls : x = call[c] /\ CallOK(x)
  BY DEF RegistryInv, RegistryTypes
<1>1. CASE R!LookUp(c)
  <2> DEFINE i == R!IdOf(x.slug)
             y == [x EXCEPT !.id = i, !.at = "policy"]
  <2>1. /\ x.at = "lookup" /\ i \in Nat
        /\ call' = [call EXCEPT ![c] = R!Idle] \/ call' = [call EXCEPT ![c] = y]
    <3>1. R!IdOf(x.slug) \in Nat
      BY <1>0, IdOfIsGood DEF R!IdOf
    <3> QED
      BY <1>a, <1>1, <3>1 DEF R!LookUp, R!At, R!Goes, R!Ends
  <2> HIDE DEF i
  <2>2. y \in Calls /\ CallOK(y)
    BY <1>a, <2>1 DEF Calls, Places, CallOK
  <2> QED
    BY <1>0, <2>1, <2>2, CallLearns
<1>2. CASE R!FindPolicy(c)
  <2>1. x.at = "policy"
    BY <1>a, <1>2 DEF R!FindPolicy, R!At
  <2>2. CASE call' = [call EXCEPT ![c] = [x EXCEPT !.at = "new"]]
    <3>1. [x EXCEPT !.at = "new"] \in Calls /\ CallOK([x EXCEPT !.at = "new"])
      BY <1>a, <2>1 DEF Calls, Places, CallOK
    <3> QED
      BY <2>2, <3>1, CallLearns
  <2>3. ASSUME NEW q \in R!Defaults(x.id),
               call' = [call EXCEPT ![c] = [x EXCEPT !.policy = q.id, !.at = "rules"]]
        PROVE  CallsOK'
    <3> DEFINE y == [x EXCEPT !.policy = q.id, !.at = "rules"]
    <3>1. q \in policies /\ q.project = x.id /\ q.id \in Nat /\ q.id <= used.ids
      BY <1>0 DEF R!Defaults, TableTypes, Tables
    <3>2. \A r \in policies : r.id = q.id => r.project = x.id
      BY <1>0, <3>1 DEF Tables
    <3>3. y \in Calls /\ CallOK(y)
      BY <1>a, <2>1, <3>1, <3>2 DEF Calls, Places, CallOK
    <3> QED
      BY <2>3, <3>3, CallLearns
  <2> QED
    BY <1>a, <1>2, <2>2, <2>3 DEF R!FindPolicy, R!Goes
<1>3. CASE R!NewPolicy(c)
  <2>1. x.at = "new"
    BY <1>a, <1>3 DEF R!NewPolicy, R!At
  <2>2. CASE call' = [call EXCEPT ![c] = R!Idle]
    BY <1>0, <2>2, CallLearns
  <2>3. CASE call' # [call EXCEPT ![c] = R!Idle]
    <3>0. PICK n \in Nat : n = used.ids + 1
      BY <1>0 DEF TableTypes
    <3> DEFINE y == [x EXCEPT !.policy = n, !.at = "fill"]
    <3>1. /\ used' = [used EXCEPT !.ids = n]
          /\ policies' = policies \cup {[id |-> n, project |-> x.id]}
          /\ call' = [call EXCEPT ![c] = y]
      BY <1>a, <1>3, <2>3, <3>0 DEF R!NewPolicy, R!Goes, R!Ends
    <3>2. used.ids \in Nat /\ used'.ids = n /\ n > used.ids
      BY <1>0, <3>0, <3>1 DEF TableTypes
    <3>3. \A q \in policies' : q.id = n => q.project = x.id
      BY <1>0, <3>1, <3>2 DEF Tables, TableTypes
    <3>4. CallOK(x)' /\ (x.do = "init" => x.rules = {})
      BY <1>a, <2>1, CallStays DEF CallOK
    <3>5. y \in Calls
      BY <1>a DEF Calls, Places
    <3>6. CallOK(y)'
      BY <1>a, <2>1, <3>2, <3>3, <3>4 DEF Calls, CallOK
    <3> QED
      BY <3>1, <3>5, <3>6, CallGoes
  <2> QED
    BY <2>2, <2>3
<1>4. CASE R!ReadRules(c)
  <2> DEFINE S == R!SpecsOf(x.policy)
             y == [x EXCEPT !.rules = S, !.at = "fill"]
  <2>1. x.at = "rules" /\ call' = [call EXCEPT ![c] = y]
    BY <1>a, <1>4 DEF R!ReadRules, R!At, R!Goes
  <2>2. \A s \in S : s \in AnySpec /\ [policy |-> x.policy, spec |-> s] \in rules
    BY <1>0 DEF R!SpecsOf, TableTypes
  <2> HIDE DEF S
  <2>3. S \in Gathered
    BY <2>2 DEF Gathered
  <2>4. y \in Calls /\ CallOK(y)
    BY <1>a, <2>1, <2>2, <2>3 DEF Calls, Places, CallOK
  <2> QED
    BY <2>1, <2>4, CallLearns
<1>5. CASE R!FillRules(c)
  <2>1. call' = [call EXCEPT ![c] = R!Idle]
    BY <1>5 DEF R!FillRules, R!Ends, R!Goes
  <2> QED
    BY <1>0, <2>1, CallLearns
<1> QED
  BY <1>1, <1>2, <1>3, <1>4, <1>5

LEMMA DeleteCalls ==
    ASSUME RegistryInv, WorldMoves, used'.ids \in Nat, NEW c \in Callers,
           R!DeleteRules(c) \/ R!DeletePolicies(c) \/ R!DeleteRow(c)
    PROVE  CallsOK'
<1>0. /\ RegistryTypes /\ TableTypes /\ Tables
      /\ R!Idle \in Calls /\ CallOK(R!Idle)
  BY IdleIsOK DEF RegistryInv, RegistryTypes, TableTypes
<1>a. PICK x \in Calls : x = call[c] /\ CallOK(x)
  BY DEF RegistryInv, RegistryTypes
<1>1. CASE R!DeleteRules(c)
  <2> DEFINE S == {q.id : q \in R!Defaults(x.id)}
             y == [x EXCEPT !.rules = S, !.at = "drop policies"]
  <2>1. x.at = "drop rules" /\ x.do = "delete" /\ call' = [call EXCEPT ![c] = y]
    BY <1>a, <1>1 DEF R!DeleteRules, R!At, R!Goes, CallOK
  <2>2. S \in Gathered
    BY <1>0 DEF R!Defaults, TableTypes, Gathered
  <2> HIDE DEF S
  <2>3. y \in Calls /\ CallOK(y)
    BY <1>a, <2>1, <2>2 DEF Calls, Places, CallOK
  <2> QED
    BY <2>1, <2>3, CallLearns
<1>2. CASE R!DeletePolicies(c)
  <2>1. /\ x.at = "drop policies" /\ x.do = "delete"
        /\ \/ call' = [call EXCEPT ![c] = R!Idle]
           \/ call' = [call EXCEPT ![c] = [x EXCEPT !.at = "drop row"]]
    BY <1>a, <1>2 DEF R!DeletePolicies, R!At, R!Goes, R!Ends, CallOK
  <2>2. [x EXCEPT !.at = "drop row"] \in Calls /\ CallOK([x EXCEPT !.at = "drop row"])
    BY <1>a, <2>1 DEF Calls, Places, CallOK
  <2> QED
    BY <1>0, <2>1, <2>2, CallLearns
<1>3. CASE R!DeleteRow(c)
  <2>1. call' = [call EXCEPT ![c] = R!Idle]
    BY <1>3 DEF R!DeleteRow, R!Ends, R!Goes
  <2> QED
    BY <1>0, <2>1, CallLearns
<1> QED
  BY <1>1, <1>2, <1>3

\* A call that does not move keeps what it knows.
LEMMA CallsStay ==
    ASSUME RegistryInv, WorldMoves, used'.ids \in Nat, UNCHANGED call PROVE CallsOK'
<1>1. ASSUME NEW c \in Callers PROVE CallOK(call[c])'
  <2>1. PICK x \in Calls : x = call[c] /\ CallOK(x)
    BY DEF RegistryInv, RegistryTypes
  <2>2. CallOK(x)'
    BY <2>1, CallStays
  <2> QED
    BY <2>1, <2>2
<1> QED
  BY <1>1 DEF CallsOK, RegistryInv, RegistryTypes

\* The callers as a whole.
LEMMA RegistryCalls ==
    ASSUME RegistryInv, WorldMoves, used'.ids \in Nat, R!Next PROVE CallsOK'
<1>0. RegistryTypes /\ R!Idle \in Calls /\ CallOK(R!Idle)
  BY IdleIsOK DEF RegistryInv
<1>1. CASE UNCHANGED call
  BY <1>1, CallsStay
<1>2. ASSUME NEW c \in Callers, NEW x \in Calls, CallOK(x), R!Starts(c, x) PROVE CallsOK'
  BY <1>2, CallLearns DEF R!Starts, R!Goes
<1>3. ASSUME NEW c \in Callers, R!Dies(c) PROVE CallsOK'
  <2>1. CASE call[c].do # "resolve"
    BY <1>0, <1>3, <2>1, CallLearns DEF R!Dies, R!Ends, R!Goes
  <2>2. CASE call[c].do = "resolve"
    <3>1. call' = [d \in Callers |-> IF call[d].do = "resolve" THEN R!Idle ELSE call[d]]
      BY <1>3, <2>2 DEF R!Dies
    <3>2. call' \in [Callers -> Calls]
      BY <1>0, <3>1 DEF RegistryTypes
    <3>3. CallOK(R!Idle)'
      BY <1>0, CallStays
    <3>4. ASSUME NEW d \in Callers PROVE CallOK(call[d])'
      <4>1. PICK x \in Calls : x = call[d] /\ CallOK(x)
        BY DEF RegistryInv, RegistryTypes
      <4>2. CallOK(x)'
        BY <4>1, CallStays
      <4>3. call'[d] = x \/ call'[d] = R!Idle
        BY <3>1, <4>1
      <4> QED
        BY <3>3, <4>2, <4>3
    <3> QED
      BY <3>2, <3>4 DEF CallsOK
  <2> QED
    BY <2>1, <2>2
<1>4. ASSUME NEW c \in Callers, Writes(c) PROVE CallsOK'
  BY <1>4, EnsureCalls, PolicyCalls, DeleteCalls DEF Writes
<1>5. CASE R!Expire \/ R!Rename \/ R!RemoveRule
  BY <1>1, <1>5 DEF R!Expire, R!Rename, R!RemoveRule
<1> QED
  BY <1>0, <1>2, <1>3, <1>4, <1>5, RegistrySteps, ResolverCalls, EnsureCalls, PolicyCalls
  DEF Waits

-----------------------------------------------------------------------------
(* Registry: the bridge's caches, the answers, what is seeded.              *)

CachesOK ==
    /\ sidecar \in [Cwds -> Slugs \cup {"none"}]
    /\ slugOf \in [Cwds -> Slugs \cup {"none", "unset"}]
    /\ idOf \in [Slugs -> Nat]
    /\ \A s \in Slugs : idOf[s] \notin {0, R!Unasked} => Good(s, idOf[s])

LEMMA CachesStay ==
    ASSUME RegistryInv, WorldMoves, UNCHANGED <<sidecar, slugOf, idOf>> PROVE CachesOK'
BY DEF RegistryInv, RegistryTypes, WorldMoves, CachesOK, R!Unasked

LEMMA CacheLearns ==
    ASSUME RegistryInv, WorldMoves, NEW s \in Slugs, NEW i \in Nat,
           i \notin {0, R!Unasked} => Good(s, i), idOf' = [idOf EXCEPT ![s] = i]
    PROVE  idOf' \in [Slugs -> Nat]
           /\ \A t \in Slugs : idOf'[t] \notin {0, R!Unasked} => Good(t, idOf[t])'
<1>1. idOf \in [Slugs -> Nat] /\ \A t \in Slugs : idOf[t] \notin {0, R!Unasked} => Good(t, idOf[t])
  BY DEF RegistryInv, RegistryTypes
<1>2. i \notin {0, R!Unasked} => Good(s, i)'
  BY DEF WorldMoves
<1>3. ASSUME NEW t \in Slugs, idOf'[t] \notin {0, R!Unasked} PROVE Good(t, idOf[t])'
  <2>1. CASE t = s
    BY <1>1, <1>2, <1>3, <2>1 DEF Good
  <2>2. CASE t # s
    <3>1. PICK j \in Nat : j = idOf[t]
      BY <1>1
    <3>2. idOf'[t] = j
      BY <1>1, <2>2, <3>1
    <3>3. Good(t, j)'
      BY <1>1, <1>3, <3>1, <3>2 DEF WorldMoves
    <3> QED
      BY <3>2, <3>3 DEF Good
  <2> QED
    BY <2>1, <2>2
<1> QED
  BY <1>1, <1>3

LEMMA RegistryCaches ==
    ASSUME RegistryInv, WorldMoves, R!Next PROVE CachesOK'
<1>0. /\ RegistryTypes /\ R!Unasked \in Nat
      /\ \A s \in Slugs : idOf[s] \notin {0, R!Unasked} => Good(s, idOf[s])
      /\ sidecar \in [Cwds -> Slugs \cup {"none"}] /\ idOf \in [Slugs -> Nat]
      /\ slugOf \in [Cwds -> Slugs \cup {"none", "unset"}]
  BY RegistryAssumption DEF RegistryInv, RegistryTypes, R!Unasked
<1>a. ASSUME NEW c \in Callers
      PROVE  \E x \in Calls : x = call[c] /\ CallOK(x)
  BY <1>a DEF RegistryInv, RegistryTypes
<1>1. ASSUME NEW c \in Callers, R!ResolveSlug(c) PROVE CachesOK'
  <2>1. PICK x \in Calls : x = call[c] /\ CallOK(x)
    BY <1>a
  <2>2. x.cwd \in Cwds /\ UNCHANGED <<sidecar, idOf>>
    BY <1>1, <2>1 DEF R!ResolveSlug, R!At, CallOK
  <2>3. slugOf' \in [Cwds -> Slugs \cup {"none", "unset"}]
    <3>1. \E t \in Slugs \cup {"none", "unset"} : slugOf' = [slugOf EXCEPT ![x.cwd] = t]
      BY <1>0, <1>1, <2>1, <2>2 DEF R!ResolveSlug
    <3> QED
      BY <1>0, <3>1
  <2>4. \A s \in Slugs : idOf[s] \notin {0, R!Unasked} => Good(s, idOf[s])'
    BY <1>0, <2>2 DEF WorldMoves, Good
  <2> QED
    BY <1>0, <2>2, <2>3, <2>4 DEF CachesOK, R!Unasked
<1>2. ASSUME NEW c \in Callers, R!CacheId(c) PROVE CachesOK'
  <2>1. PICK x \in Calls : x = call[c] /\ CallOK(x)
    BY <1>a
  <2>2. /\ x.slug \in Slugs /\ x.keep \in Nat /\ (x.keep # 0 => Good(x.slug, x.keep))
        /\ idOf' = [idOf EXCEPT ![x.slug] = x.keep] /\ UNCHANGED <<sidecar, slugOf>>
    BY <1>2, <2>1 DEF R!CacheId, R!At, CallOK, Calls
  <2> QED
    BY <1>0, <2>2, CacheLearns DEF CachesOK, R!Unasked
<1>3. ASSUME NEW c \in Callers, R!Have(c) PROVE CachesOK'
  <2>1. PICK x \in Calls : x = call[c] /\ CallOK(x)
    BY <1>a
  <2>2. /\ x.slug \in Slugs /\ x.id \in Nat /\ Good(x.slug, x.id) /\ UNCHANGED sidecar
        /\ x.cwd \in Cwds \cup {"none"}
    BY <1>3, <2>1 DEF R!Have, R!At, CallOK, Calls
  <2>3. CASE idOf' = [idOf EXCEPT ![x.slug] = x.id]
    <3>1. UNCHANGED slugOf \/ slugOf' = [slugOf EXCEPT ![x.cwd] = x.slug]
      BY <1>3, <2>1 DEF R!Have
    <3>2. slugOf' \in [Cwds -> Slugs \cup {"none", "unset"}]
      BY <1>0, <2>2, <3>1
    <3> QED
      BY <1>0, <2>2, <2>3, <3>2, CacheLearns DEF CachesOK, R!Unasked
  <2>4. CASE UNCHANGED <<slugOf, idOf>>
    BY <2>2, <2>4, CachesStay
  <2> QED
    BY <1>3, <2>1, <2>3, <2>4 DEF R!Have
<1>4. CASE R!Expire
  <2>1. /\ UNCHANGED sidecar
        /\ \/ \E d \in Cwds : slugOf' = [slugOf EXCEPT ![d] = "unset"] /\ UNCHANGED idOf
           \/ \E s \in Slugs : idOf' = [idOf EXCEPT ![s] = R!Unasked] /\ UNCHANGED slugOf
    BY <1>4 DEF R!Expire, R!Unset
  <2>2. ASSUME NEW s \in Slugs, idOf' = [idOf EXCEPT ![s] = R!Unasked], UNCHANGED slugOf
        PROVE  CachesOK'
    BY <1>0, <2>1, <2>2, CacheLearns DEF CachesOK, R!Unasked
  <2>3. ASSUME NEW d \in Cwds, slugOf' = [slugOf EXCEPT ![d] = "unset"], UNCHANGED idOf
        PROVE  CachesOK'
    <3>1. slugOf' \in [Cwds -> Slugs \cup {"none", "unset"}]
      BY <1>0, <2>3
    <3>2. \A s \in Slugs : idOf[s] \notin {0, R!Unasked} => Good(s, idOf[s])'
      BY <1>0, <2>3 DEF WorldMoves, Good
    <3> QED
      BY <1>0, <2>1, <2>3, <3>1, <3>2 DEF CachesOK, R!Unasked
  <2> QED
    BY <2>1, <2>2, <2>3
<1>5. ASSUME NEW c \in Callers, R!Dies(c) PROVE CachesOK'
  <2>1. UNCHANGED sidecar
    BY <1>5 DEF R!Dies
  <2>2. CASE UNCHANGED <<slugOf, idOf>>
    BY <2>1, <2>2, CachesStay
  <2>3. CASE slugOf' = [d \in Cwds |-> "unset"] /\ idOf' = [s \in Slugs |-> R!Unasked]
    BY <1>0, <2>1, <2>3 DEF CachesOK, R!Unasked
  <2> QED
    BY <1>5, <2>2, <2>3 DEF R!Dies, R!Bridge, R!Unset
<1>6. ASSUME NEW c \in Callers, R!FillRules(c) PROVE CachesOK'
  <2>1. PICK x \in Calls : x = call[c] /\ x.slug \in Slugs \cup {"none"}
    BY <1>a DEF Calls
  <2>2. UNCHANGED <<slugOf, idOf>>
        /\ (UNCHANGED sidecar \/ sidecar' = [sidecar EXCEPT ![x.cwd] = x.slug])
    BY <1>6, <2>1 DEF R!FillRules, R!Bridge
  <2>3. sidecar' \in [Cwds -> Slugs \cup {"none"}]
    BY <1>0, <2>1, <2>2
  <2>4. \A s \in Slugs : idOf[s] \notin {0, R!Unasked} => Good(s, idOf[s])'
    BY <1>0, <2>2 DEF WorldMoves, Good
  <2> QED
    BY <1>0, <2>2, <2>3, <2>4 DEF CachesOK, R!Unasked
<1>7. ASSUME NEW c \in Callers,
             \/ R!ResolveId(c) \/ R!Known(c) \/ R!Select(c) \/ R!Insert(c) \/ R!Settle(c)
             \/ R!LookUp(c) \/ R!FindPolicy(c) \/ R!NewPolicy(c) \/ R!ReadRules(c)
             \/ R!DeleteRules(c) \/ R!DeletePolicies(c) \/ R!DeleteRow(c)
             \/ \E x \in Calls : R!Starts(c, x)
      PROVE  CachesOK'
  <2>1. UNCHANGED <<sidecar, slugOf, idOf>>
    BY <1>7 DEF R!ResolveId, R!Known, R!Select, R!Insert, R!Settle, R!LookUp, R!FindPolicy, R!Bridge,
                R!NewPolicy, R!ReadRules, R!DeleteRules, R!DeletePolicies, R!DeleteRow, R!Starts
  <2> QED
    BY <2>1, CachesStay
<1>8. CASE R!Rename \/ R!RemoveRule
  BY <1>8, CachesStay DEF R!Rename, R!RemoveRule, R!Bridge
<1> QED
  BY <1>0, <1>1, <1>2, <1>3, <1>4, <1>5, <1>6, <1>7, <1>8, RegistrySteps DEF Waits, Writes

LEMMA RegistryAnswers ==
    ASSUME RegistryInv, WorldMoves, R!Next PROVE R!AnswersAreRows'
<1>0. RegistryTypes /\ \A a \in answers : Good(a.slug, a.id)
  BY DEF RegistryInv, R!AnswersAreRows, Good
<1>1. CASE \A a \in answers' : a \in answers \/ Good(a.slug, a.id)
  <2>1. ASSUME NEW a \in answers' PROVE Good(a.slug, a.id)'
    <3>1. PICK s, i : s = a.slug /\ i = a.id
      OBVIOUS
    <3>2. Good(s, i)'
      BY <1>0, <1>1, <3>1 DEF WorldMoves
    <3> QED
      BY <3>1, <3>2
  <2> QED
    BY <2>1 DEF Good, R!AnswersAreRows
<1>2. ASSUME NEW c \in Callers, R!Known(c) PROVE \A a \in answers' : a \in answers \/ Good(a.slug, a.id)
  <2>1. call[c].keep # 0 => Good(call[c].slug, call[c].keep)
    BY DEF RegistryInv, CallOK
  <2>2. \/ UNCHANGED answers
        \/ /\ call[c].keep # 0
           /\ answers' = answers \cup {[slug |-> call[c].slug, id |-> call[c].keep]}
    BY <1>2 DEF R!Known, R!Answers
  <2> QED
    BY <2>1, <2>2
<1>3. ASSUME NEW c \in Callers, R!Have(c) PROVE \A a \in answers' : a \in answers \/ Good(a.slug, a.id)
  <2>1. Good(call[c].slug, call[c].id) /\ (call[c].keep # 0 => Good(call[c].slug, call[c].keep))
    BY <1>3 DEF R!Have, R!At, RegistryInv, CallOK
  <2> QED
    BY <1>3, <2>1 DEF R!Have, R!Answers
<1>4. ASSUME NEW c \in Callers, ~R!Known(c), ~R!Have(c),
             (\E x \in Calls : R!Starts(c, x)) \/ R!ResolveSlug(c) \/ R!ResolveId(c) \/ R!CacheId(c)
             \/ R!Settle(c) \/ R!LookUp(c) \/ R!FindPolicy(c) \/ R!ReadRules(c) \/ R!Dies(c) \/ Writes(c)
      PROVE  UNCHANGED answers
  BY <1>4 DEF Writes, R!ResolveSlug, R!ResolveId, R!CacheId, R!Select, R!Insert, R!Settle, R!LookUp,
              R!FindPolicy, R!NewPolicy, R!ReadRules, R!FillRules, R!DeleteRules, R!DeletePolicies,
              R!DeleteRow, R!Dies, R!Starts, R!History
<1>5. CASE R!Expire \/ R!Rename \/ R!RemoveRule
  BY <1>1, <1>5 DEF R!Expire, R!Rename, R!RemoveRule, R!History
<1> QED
  BY <1>0, <1>1, <1>2, <1>3, <1>4, <1>5, RegistrySteps DEF Waits

\* A rule of the baseline is in a policy of the project, or was removed from it.
Seeded(id, s) ==
    \/ \E q \in policies, r \in rules : q.project = id /\ r.policy = q.id /\ r.spec = s
    \/ [project |-> id, spec |-> s] \in removed

LEMMA SeedStays ==
    ASSUME WorldMoves, NEW id, NEW s \in Baseline, Seeded(id, s) PROVE Seeded(id, s)'
<1>1. CASE [project |-> id, spec |-> s] \in removed
  BY <1>1 DEF WorldMoves, Seeded
<1>2. ASSUME NEW q \in policies, NEW r \in rules, q.project = id, r.policy = q.id, r.spec = s
      PROVE  Seeded(id, s)'
  BY <1>2 DEF WorldMoves, Seeded
<1> QED
  BY <1>1, <1>2 DEF Seeded

LEMMA RegistrySeeds ==
    ASSUME RegistryInv, WorldMoves, R!Next PROVE R!SeededIsComplete'
<1>0. RegistryTypes /\ Tables /\ \A id \in seeded, s \in Baseline : Seeded(id, s)
  BY DEF RegistryInv, R!SeededIsComplete, R!Defaults, R!SpecsOf, Seeded
<1>1. SUFFICES ASSUME NEW id \in seeded', NEW s \in Baseline PROVE Seeded(id, s)'
  <2>1. SUFFICES ASSUME NEW id \in seeded', NEW s \in Baseline
                 PROVE  \/ \E q \in R!Defaults(id)' : s \in R!SpecsOf(q.id)'
                        \/ [project |-> id, spec |-> s] \in removed'
    BY DEF R!SeededIsComplete
  <2>2. Seeded(id, s)'
    OBVIOUS
  <2> QED
    BY <2>2 DEF R!Defaults, R!SpecsOf, Seeded
<1>2. CASE id \in seeded
  BY <1>0, <1>2, SeedStays
<1>3. ASSUME NEW c \in Callers, R!FillRules(c), id \notin seeded PROVE Seeded(id, s)'
  <2>1. PICK x \in Calls : x = call[c] /\ CallOK(x)
    BY DEF RegistryInv, RegistryTypes
  <2>2. /\ x.at = "fill" /\ x.do = "init" /\ id = x.id
        /\ \A q \in policies : q.id = x.policy => q.project = id
        /\ \A t \in x.rules \cap Baseline : \/ [policy |-> x.policy, spec |-> t] \in rules
                                            \/ [project |-> id, spec |-> t] \in removed
    BY <1>1, <1>3, <2>1 DEF R!FillRules, R!At, CallOK
  <2>3. /\ R!Wanted(c) = {} \/ R!Fits(c)
        /\ rules' = rules \cup {[policy |-> x.policy, spec |-> t] : t \in R!Wanted(c)}
        /\ UNCHANGED <<policies, removed>>
    BY <1>1, <1>3, <2>1 DEF R!FillRules
  <2>4. CASE s \in R!Wanted(c)
    <3>1. PICK q \in policies : q.id = x.policy
      BY <2>1, <2>3, <2>4 DEF R!Fits
    <3>2. [policy |-> x.policy, spec |-> s] \in rules'
      BY <2>3, <2>4
    <3> QED
      BY <2>2, <2>3, <3>1, <3>2 DEF Seeded
  <2>5. CASE s \notin R!Wanted(c)
    <3>1. s \in x.rules
      BY <2>1, <2>2, <2>5 DEF R!Wanted, R!Missing, R!SameRule
    <3>2. CASE [policy |-> x.policy, spec |-> s] \in rules
      <4>1. PICK q \in policies : q.id = x.policy
        BY <1>0, <3>2 DEF Tables
      <4> QED
        BY <2>2, <2>3, <3>2, <4>1 DEF Seeded
    <3>3. CASE [project |-> id, spec |-> s] \in removed
      BY <2>3, <3>3 DEF Seeded
    <3> QED
      BY <2>2, <3>1, <3>2, <3>3
  <2> QED
    BY <2>4, <2>5
<1>4. ASSUME NEW c \in Callers, Writes(c) PROVE R!FillRules(c) \/ UNCHANGED seeded
  BY <1>4 DEF Writes, R!Select, R!Insert, R!NewPolicy, R!FillRules, R!DeleteRules, R!DeletePolicies,
              R!DeleteRow, R!History
<1>5. CASE R!Rename \/ R!RemoveRule
  BY <1>2, <1>5 DEF R!Rename, R!RemoveRule
<1>6. CASE Waits
  BY <1>0, <1>2, <1>6, WaitsKeepTables
<1> QED
  BY <1>0, <1>2, <1>3, <1>4, <1>5, <1>6, RegistrySteps

LEMMA NextRegistryInv ==
    ASSUME RegistryInv, [R!Next]_registryVars PROVE RegistryInv'
<1>1. CASE R!Next
  <2>1. WorldMoves /\ TableTypes' /\ Tables'
    BY <1>1, WorldTurns
  <2>2. used'.ids \in Nat
    BY <2>1 DEF TableTypes
  <2>3. CallsOK' /\ CachesOK' /\ R!AnswersAreRows' /\ R!SeededIsComplete'
    BY <1>1, <2>1, <2>2, RegistryCalls, RegistryCaches, RegistryAnswers, RegistrySeeds
  <2> QED
    BY <2>1, <2>3 DEF RegistryInv, RegistryTypes, TableTypes, CallsOK, CachesOK
<1>2. CASE UNCHANGED registryVars
  <2>1. RegistryTypes' /\ Tables'
    BY <1>2 DEF registryVars, RegistryInv, RegistryTypes, Tables
  <2>2. WorldMoves
    BY <1>2 DEF registryVars, RegistryInv, RegistryTypes, WorldMoves, Borne, Good
  <2>3. CallsOK'
    <3>1. used'.ids \in Nat /\ UNCHANGED call
      BY <1>2 DEF registryVars, RegistryInv, RegistryTypes
    <3> QED
      BY <2>2, <3>1, CallsStay
  <2>4. CachesOK'
    BY <1>2, <2>2, CachesStay DEF registryVars
  <2>5. R!AnswersAreRows'
    BY <1>2 DEF registryVars, RegistryInv, R!AnswersAreRows
  <2>6. R!SeededIsComplete'
    BY <1>2 DEF registryVars, RegistryInv, R!SeededIsComplete, R!Defaults, R!SpecsOf
  <2> QED
    BY <2>1, <2>3, <2>4, <2>5, <2>6 DEF RegistryInv, CachesOK, CallsOK
<1> QED
  BY <1>1, <1>2

\* Whatever callers resolve, create, seed, rename and delete, each answer is the one row
\* of its slug and each seeded project has the whole baseline (ensure-project.ts,
\* ensure-default-policy.ts), however many processes share the database.
THEOREM RegistryHolds == WorkSpec => []RegistryIsSound
<1>1. WorkInit => RegistryInv
  BY InitRegistryInv DEF WorkInit
<1>2. RegistryInv /\ [WorkNext]_workVars => RegistryInv'
  <2>1. [WorkNext]_workVars => [R!Next]_registryVars
    BY DEF WorkNext, Among, workVars
  <2> QED
    BY <2>1, NextRegistryInv
<1>3. RegistryInv => RegistryIsSound
  BY DEF RegistryInv, RegistryIsSound, R!RegistryIsSound
<1> QED
  BY <1>1, <1>2, <1>3, PTL DEF WorkSpec

-----------------------------------------------------------------------------
(* Services: processes and commands.                                        *)

UnitProcs == [unit : Units \cup {"none"}, file : Nat,
              st : {"none", "booting", "up", "draining", "gone"}]
Commands == [do : {"none", "start", "stop", "backup", "restore"}, unit : Units \cup {"none"},
             at : {"none", "check", "spawn", "pid", "health", "kill", "unlink", "vacuum", "guard",
                   "copy", "replace", "sidecars"},
             pid : Nat, copy : SUBSET Txns, auto : BOOLEAN, risky : BOOLEAN]
Files == [main : SUBSET Txns, wal : SUBSET Txns, of : Nat, ino : Nat, torn : BOOLEAN]

ServicesTypes ==
    /\ manager \in {"fallback", "supervisor"}
    /\ proc \in [Pids -> UnitProcs]
    /\ pidfile \in [Units -> Nat]
    /\ cmd \in Commands
    /\ db \in Files
    /\ copies \subseteq SUBSET Txns /\ acked \subseteq Txns
    /\ excused \in BOOLEAN

\* A process that is not on its way out, whose start did not die.
Reachable(p) == V!Alive(p) /\ proc[p].st # "draining" /\ p \notin orphans

\* Who stop reaches, and what start and stop know between two steps.
ProcessesInv ==
    /\ \A p \in Pids : V!Alive(p) => proc[p].unit \in Units
    /\ manager = "fallback" =>
         \A p \in Pids : Reachable(p) =>
            pidfile[proc[p].unit] = p \/ (V!At("start", "pid") /\ cmd.pid = p)
    /\ manager = "supervisor" =>
         \A p, q \in Pids : Reachable(p) /\ Reachable(q) /\ proc[p].unit = proc[q].unit => p = q
    /\ manager = "supervisor" => cmd.at # "pid" /\ orphans = {}
    /\ cmd.do \in {"start", "stop"} => cmd.unit \in Units
    /\ V!At("start", "spawn") /\ manager = "fallback" => pidfile[cmd.unit] = 0
    /\ V!At("start", "pid") => /\ pidfile[cmd.unit] = 0
                               /\ cmd.pid \in Pids /\ proc[cmd.pid].unit = cmd.unit
    /\ V!At("stop", "unlink") /\ manager = "fallback" =>
         \A p \in Pids : Reachable(p) => p # pidfile[cmd.unit]

Restoring == cmd.do = "restore" /\ cmd.at \in {"copy", "replace", "sidecars"}
NobodyAlive == \A p \in Pids : ~V!Alive(p)

\* What restore may assume after its guard: only processes it cannot see are there, and
\* none if nothing excuses it.
RestoreInv ==
    /\ Restoring => \A p \in Pids : V!Alive(p) => p \in V!Unseen
    /\ V!At("restore", "replace") /\ ~cmd.risky => db.main \in copies /\ NobodyAlive
    /\ V!At("restore", "sidecars") =>
         /\ db.main = cmd.copy
         /\ \A p \in Pids : proc[p].st = "draining" => proc[p].file # db.ino
         /\ ~excused => db.wal = {} /\ NobodyAlive

FilesInv ==
    /\ \A p \in Pids : proc[p].file <= db.ino
    /\ \A p \in Pids : proc[p].st \in {"up", "draining"} => proc[p].file = db.ino \/ excused
    /\ excused \/ V!At("restore", "sidecars") \/ db.of = db.ino
    /\ db.torn => excused
    /\ excused \/ acked \subseteq V!Visible(db) \cup UNION copies
    /\ serviceTold.say = "restored" => V!Visible(db) = serviceTold.copy

ServicesInv == ServicesTypes /\ ProcessesInv /\ RestoreInv /\ FilesInv

LEMMA LeastIsThere ==
    ASSUME NEW S \in SUBSET Nat, S # {} PROVE \E m \in S : \A n \in S : m <= n
<1>1. IsWellFoundedOn(OpToRel(<, Nat), Nat)
  BY NatLessThanWellFounded
<1>2. \E m \in S : \A n \in S : ~(<<n, m>> \in OpToRel(<, Nat))
  BY <1>1, WFMin
<1>3. \A m, n \in Nat : n < m => <<n, m>> \in OpToRel(<, Nat)
  BY DEF OpToRel
<1>4. PICK m \in S : \A n \in S : ~(<<n, m>> \in OpToRel(<, Nat))
  BY <1>2
<1>5. ASSUME NEW n \in S PROVE m <= n
  <2>1. m \in Nat /\ n \in Nat /\ ~(n < m)
    BY <1>3, <1>4
  <2> QED
    BY <2>1
<1> QED
  BY <1>5

LEMMA FreshIsFree ==
    ASSUME V!Fresh # {} PROVE V!Min(V!Fresh) \in Pids /\ proc[V!Min(V!Fresh)] = V!Nobody
<1>1. V!Fresh \in SUBSET Nat
  BY ServicesAssumption DEF V!Fresh
<1>2. V!Min(V!Fresh) \in V!Fresh
  BY <1>1, LeastIsThere DEF V!Min
<1> QED
  BY <1>2 DEF V!Fresh

\* What opening, checkpointing and sweeping do to the file.
LEMMA FileSteps ==
    ASSUME NEW d \in Files
    PROVE  /\ V!NoLog(d) \in Files /\ V!NoLog(d) = [d EXCEPT !.wal = {}, !.of = d.ino]
           /\ V!Opened(d) \in Files /\ V!Checkpointed(d) \in Files
           /\ V!Opened(d).main = d.main /\ V!Opened(d).wal = d.wal /\ V!Opened(d).of = d.ino
           /\ V!Opened(d).ino = d.ino
           /\ V!Opened(d).torn <=> d.torn \/ (d.wal # {} /\ d.of # d.ino)
           /\ V!Checkpointed(d).main = d.main \cup d.wal /\ V!Checkpointed(d).wal = {}
           /\ V!Checkpointed(d).of = d.ino /\ V!Checkpointed(d).ino = d.ino
           /\ (V!Checkpointed(d).torn <=> d.torn)
<1>1. V!NoLog(d) \in Files /\ V!NoLog(d) = [d EXCEPT !.wal = {}, !.of = d.ino]
  BY DEF V!NoLog, Files
<1>2. /\ V!Checkpointed(d) \in Files
      /\ V!Checkpointed(d).main = d.main \cup d.wal /\ V!Checkpointed(d).wal = {}
      /\ V!Checkpointed(d).of = d.ino /\ V!Checkpointed(d).ino = d.ino
      /\ (V!Checkpointed(d).torn <=> d.torn)
  BY DEF V!NoLog, V!Checkpointed, V!Visible, Files
<1>3. PICK b \in BOOLEAN : b <=> d.torn \/ (d.wal # {} /\ d.of # d.ino)
  <2> DEFINE e == d.torn \/ (d.wal # {} /\ d.of # d.ino)
  <2>1. e \in BOOLEAN
    BY Zenon
  <2> QED
    BY <2>1
<1>4. V!Opened(d) = [d EXCEPT !.torn = b, !.of = d.ino]
  BY <1>3 DEF V!Opened, Files
<1> QED
  BY <1>1, <1>2, <1>3, <1>4 DEF Files

LEMMA InitServicesInv ==
    ASSUME NEW on \in BOOLEAN, V!Init(on) PROVE ServicesInv
<1>1. manager \in {"fallback", "supervisor"}
  BY DEF V!Init
<1>2. \A p \in Pids : proc[p] \in UnitProcs /\ proc[p].st \in {"none", "up"}
                      /\ (V!Alive(p) => p = 1 /\ proc[p].unit \in Units /\ proc[p].file = 1)
                      /\ proc[p].file <= 1
  BY DEF V!Init, UnitProcs, V!Nobody, V!Alive
<1>3. proc \in [Pids -> UnitProcs]
  <2>1. \E f : proc = [p \in Pids |-> f[p]]
    BY DEF V!Init
  <2> QED
    BY <1>2, <2>1
<1>4. /\ cmd = V!NoCmd /\ cmd \in Commands /\ cmd.do = "none" /\ cmd.at = "none"
      /\ serviceTold.say = "nothing"
  BY DEF V!Init, V!NoCmd, V!NoTale, Commands
<1>5. /\ db \in Files /\ db.ino = 1 /\ db.of = 1 /\ ~db.torn
      /\ acked = {} /\ copies = {{}} /\ orphans = {} /\ excused = FALSE
  BY DEF V!Init, Files
<1>6. /\ pidfile \in [Units -> Nat]
      /\ \A u \in Units : pidfile[u] = IF manager = "fallback" /\ proc[1].unit = u THEN 1 ELSE 0
  BY DEF V!Init
<1>7. ServicesTypes
  BY <1>1, <1>3, <1>4, <1>5, <1>6 DEF ServicesTypes
<1>8. ProcessesInv
  BY <1>2, <1>4, <1>5, <1>6 DEF ProcessesInv, Reachable, V!At
<1>9. RestoreInv
  BY <1>4 DEF RestoreInv, Restoring, V!At
<1>10. FilesInv
  BY <1>2, <1>4, <1>5 DEF FilesInv, V!Alive
<1> QED
  BY <1>7, <1>8, <1>9, <1>10 DEF ServicesInv

\* How a command begins.
Beginnings == {c \in Commands : /\ c.at \in {"check", "kill", "vacuum", "guard"}
                                /\ c.do \in {"start", "stop"} => c.unit \in Units
                                /\ c.do # "none"}

LEMMA ServicesSteps ==
    ASSUME ServicesTypes, V!Next
    PROVE  \/ \E c \in Beginnings : V!Begin(c)
           \/ V!StartChecks \/ V!StartSpawns \/ V!StartWritesPid \/ V!StartAsks
           \/ V!StopSignals \/ V!StopUnlinks \/ V!Backup \/ V!Killed
           \/ V!RestoreGuards \/ V!RestoreCopies \/ V!RestoreReplaces \/ V!RestoreSweeps
           \/ \E p \in Pids : V!Boots(p) \/ V!Commits(p) \/ V!Exits(p) \/ V!Dies(p)
<1>1. ASSUME NEW u \in Units
      PROVE  /\ [V!NoCmd EXCEPT !.do = "start", !.unit = u, !.at = "check"] \in Beginnings
             /\ [V!NoCmd EXCEPT !.do = "stop", !.unit = u, !.at = "kill"] \in Beginnings
  BY DEF V!NoCmd, Commands, Beginnings
<1>2. [V!NoCmd EXCEPT !.do = "backup", !.at = "vacuum"] \in Beginnings
  BY DEF V!NoCmd, Commands, Beginnings
<1>3. ASSUME NEW c \in copies, NEW auto \in BOOLEAN
      PROVE  [V!NoCmd EXCEPT !.do = "restore", !.at = "guard", !.copy = c, !.auto = auto] \in Beginnings
  <2>1. c \in SUBSET Txns
    BY DEF ServicesTypes
  <2> QED
    BY <2>1 DEF V!NoCmd, Commands, Beginnings
<1> HIDE DEF Beginnings
<1> QED
  BY <1>1, <1>2, <1>3 DEF V!Next

\* The command goes on; what it knows it keeps.
LEMMA CommandGoes ==
    ASSUME ServicesTypes, NEW pc, V!Goes(pc)
    PROVE  /\ cmd'.do = cmd.do /\ cmd'.unit = cmd.unit /\ cmd'.pid = cmd.pid /\ cmd'.copy = cmd.copy
           /\ cmd'.auto = cmd.auto /\ cmd'.risky = cmd.risky /\ cmd'.at = pc
           /\ serviceTold'.say = "nothing"
BY DEF ServicesTypes, Commands, V!Goes, V!NoTale

LEMMA CommandEnds ==
    ASSUME NEW what, V!Ends(what)
    PROVE  /\ cmd' \in Commands /\ cmd'.do = "none" /\ cmd'.at = "none"
           /\ serviceTold'.say = what /\ serviceTold'.copy = cmd.copy
BY DEF V!Ends, V!NoCmd, V!Tale, Commands

LEMMA ServicesTypesStay ==
    ASSUME ServicesInv, V!Next PROVE ServicesTypes'
<1>0. /\ ServicesTypes /\ cmd \in Commands /\ db \in Files
      /\ manager \in {"fallback", "supervisor"}
      /\ proc \in [Pids -> UnitProcs] /\ pidfile \in [Units -> Nat]
      /\ copies \subseteq SUBSET Txns /\ acked \subseteq Txns /\ excused \in BOOLEAN
  BY DEF ServicesInv, ServicesTypes
<1>a. ASSUME NEW pc \in {"spawn", "health", "unlink", "copy", "sidecars"}, V!Goes(pc)
      PROVE  cmd' \in Commands
  BY <1>0, <1>a DEF V!Goes, Commands
<1>b. ASSUME NEW what, V!Ends(what) PROVE cmd' \in Commands
  BY <1>b, CommandEnds
<1>c. /\ V!NoLog(db) \in Files /\ V!Opened(db) \in Files /\ V!Checkpointed(db) \in Files
      /\ V!Checkpointed(V!Opened(db)) \in Files
  BY <1>0, FileSteps
<1>1. ASSUME NEW c \in Beginnings, V!Begin(c) PROVE ServicesTypes'
  BY <1>0, <1>1 DEF V!Begin, ServicesTypes, Beginnings
<1>2. CASE V!StartChecks
  <2>1. cmd' \in Commands
    BY <1>2, <1>a DEF V!StartChecks
  <2>2. pidfile' \in [Units -> Nat]
    BY <1>0, <1>2 DEF V!StartChecks
  <2> QED
    BY <1>0, <1>2, <2>1, <2>2 DEF V!StartChecks, V!Keeps, V!Data, ServicesTypes
<1>3. CASE V!StartSpawns
  <2>1. CASE V!Spawns(cmd.unit)
    <3>1. PICK n \in Pids : /\ proc' = [proc EXCEPT ![n] = V!Booting(cmd.unit)]
                            /\ cmd' = [cmd EXCEPT !.at = IF manager = "fallback" THEN "pid" ELSE "health",
                                                  !.pid = n]
      BY <1>3, <2>1, FreshIsFree DEF V!StartSpawns
    <3>2. n \in Nat /\ V!Booting(cmd.unit) \in UnitProcs
      BY <1>0, ServicesAssumption DEF V!Booting, UnitProcs, Commands
    <3>3. proc' \in [Pids -> UnitProcs]
      BY <1>0, <3>1, <3>2
    <3>4. cmd' \in Commands
      BY <1>0, <3>1, <3>2 DEF Commands
    <3> QED
      BY <1>0, <1>3, <3>3, <3>4 DEF V!StartSpawns, V!Keeps, V!Data, ServicesTypes
  <2>2. CASE ~V!Spawns(cmd.unit)
    <3>1. cmd' \in Commands
      BY <1>3, <1>a, <2>2 DEF V!StartSpawns
    <3> QED
      BY <1>0, <1>3, <2>2, <3>1 DEF V!StartSpawns, V!Keeps, V!Data, ServicesTypes
  <2> QED
    BY <2>1, <2>2
<1>4. CASE V!StartWritesPid
  <2>1. cmd' \in Commands
    BY <1>4, <1>a DEF V!StartWritesPid
  <2>2. pidfile' \in [Units -> Nat]
    BY <1>0, <1>4 DEF V!StartWritesPid, Commands
  <2> QED
    BY <1>0, <1>4, <2>1, <2>2 DEF V!StartWritesPid, V!Keeps, V!Data, ServicesTypes
<1>5. CASE V!StartAsks
  <2>1. cmd' \in Commands
    BY <1>5, <1>b DEF V!StartAsks
  <2> QED
    BY <1>0, <1>5, <2>1 DEF V!StartAsks, V!Keeps, V!Data, ServicesTypes
<1>6. CASE V!StopSignals
  <2>1. cmd' \in Commands
    BY <1>6, <1>a DEF V!StopSignals
  <2>2. proc' = proc \/ \E p : V!Alive(p) /\ proc' = V!Signalled(p)
    <3> DEFINE ps == IF manager = "supervisor" THEN V!Of(cmd.unit)
                     ELSE {p \in {pidfile[cmd.unit]} : V!Alive(p)}
    <3>1. proc' = IF ps = {} THEN proc ELSE V!Signalled(CHOOSE p \in ps : TRUE)
      BY <1>6 DEF V!StopSignals
    <3>2. \A p \in ps : V!Alive(p)
      BY DEF V!Of
    <3> HIDE DEF ps
    <3>3. ps # {} => (CHOOSE p \in ps : TRUE) \in ps
      OBVIOUS
    <3> QED
      BY <3>1, <3>2, <3>3
  <2>3. proc' \in [Pids -> UnitProcs]
    BY <1>0, <2>2 DEF V!Signalled, V!Alive, UnitProcs
  <2> QED
    BY <1>0, <1>6, <2>1, <2>3 DEF V!StopSignals, V!Keeps, V!Data, ServicesTypes
<1>7. CASE V!StopUnlinks
  <2>1. cmd' \in Commands
    BY <1>7, <1>b DEF V!StopUnlinks
  <2>2. pidfile' \in [Units -> Nat]
    BY <1>0, <1>7 DEF V!StopUnlinks
  <2> QED
    BY <1>0, <1>7, <2>1, <2>2 DEF V!StopUnlinks, V!Keeps, V!Data, ServicesTypes
<1>8. CASE V!Backup
  <2>1. cmd' \in Commands
    BY <1>8, <1>b DEF V!Backup
  <2>2. db' \in Files
    BY <1>8, <1>c DEF V!Backup
  <2>3. copies' \subseteq SUBSET Txns
    BY <1>0, <1>8 DEF V!Backup, V!Visible, Files
  <2> QED
    BY <1>0, <1>8, <2>1, <2>2, <2>3 DEF V!Backup, V!Keeps, ServicesTypes
<1>9. CASE V!Killed
  <2>1. cmd' \in Commands
    BY <1>9 DEF V!Killed, V!NoCmd, Commands
  <2>2. excused' \in BOOLEAN
    BY <1>9 DEF V!Killed
  <2> QED
    BY <1>0, <1>9, <2>1, <2>2 DEF V!Killed, ServicesTypes
<1>10. CASE V!RestoreGuards
  <2>1. cmd' \in Commands
    BY <1>10, <1>a, <1>b DEF V!RestoreGuards
  <2> QED
    BY <1>0, <1>10, <2>1 DEF V!RestoreGuards, V!Keeps, V!Data, ServicesTypes
<1>11. CASE V!RestoreCopies
  <2>1. V!Risky \in BOOLEAN
    BY DEF V!Risky
  <2>2. cmd' \in Commands
    BY <1>0, <1>11, <2>1 DEF V!RestoreCopies, Commands
  <2>3. copies' \subseteq SUBSET Txns
    BY <1>0, <1>11 DEF V!RestoreCopies, Files
  <2> QED
    BY <1>0, <1>11, <2>2, <2>3 DEF V!RestoreCopies, V!Keeps, ServicesTypes
<1>12. CASE V!RestoreReplaces
  <2>1. cmd' \in Commands
    BY <1>12, <1>a DEF V!RestoreReplaces
  <2>2. db' \in Files
    <3>1. db.ino + 1 \in Nat /\ cmd.copy \in SUBSET Txns
      BY <1>0 DEF Files, Commands
    <3>2. db' = [db EXCEPT !.main = cmd.copy, !.ino = db.ino + 1]
      BY <1>0, <1>12 DEF V!RestoreReplaces, Files
    <3> QED
      BY <1>0, <3>1, <3>2 DEF Files
  <2>3. excused' \in BOOLEAN
    BY <1>12, Zenon DEF V!RestoreReplaces
  <2> QED
    BY <1>0, <1>12, <2>1, <2>2, <2>3 DEF V!RestoreReplaces, V!Keeps, ServicesTypes
<1>13. CASE V!RestoreSweeps
  <2>1. cmd' \in Commands
    BY <1>13, <1>b DEF V!RestoreSweeps
  <2>2. db' \in Files
    BY <1>13, <1>c DEF V!RestoreSweeps
  <2> QED
    BY <1>0, <1>13, <2>1, <2>2 DEF V!RestoreSweeps, V!Keeps, ServicesTypes
<1>14. ASSUME NEW p \in Pids, V!Boots(p) \/ V!Exits(p) \/ V!Dies(p) PROVE ServicesTypes'
  <2>1. proc[p] \in UnitProcs /\ db.ino \in Nat
    BY <1>0 DEF Files
  <2>2. \E x \in UnitProcs : proc' = [proc EXCEPT ![p] = x]
    BY <1>14, <2>1 DEF V!Boots, V!Exits, V!Dies, V!Process, V!Booting, UnitProcs
  <2>3. proc' \in [Pids -> UnitProcs]
    BY <1>0, <2>2
  <2>4. db' \in Files
    BY <1>0, <1>14, <1>c DEF V!Boots, V!Exits, V!Dies
  <2> QED
    BY <1>0, <1>14, <2>3, <2>4 DEF V!Boots, V!Exits, V!Dies, V!Life, ServicesTypes
<1>15. ASSUME NEW p \in Pids, V!Commits(p) PROVE ServicesTypes'
  <2>1. acked' \subseteq Txns /\ db' \in Files
    BY <1>0, <1>15 DEF V!Commits, Files
  <2> QED
    BY <1>0, <1>15, <2>1 DEF V!Commits, ServicesTypes
<1> QED
  BY <1>0, <1>1, <1>2, <1>3, <1>4, <1>5, <1>6, <1>7, <1>8, <1>9, <1>10, <1>11, <1>12, <1>13, <1>14,
     <1>15, ServicesSteps

\* No process that is there becomes harder to reach; the command goes on or away.
LEMMA NobodyIsOutOfReach ==
    ASSUME ServicesInv, UNCHANGED <<manager, pidfile>>,
           \A p \in Pids : /\ proc'[p].unit = proc[p].unit
                           /\ V!Alive(p)' => V!Alive(p) /\ (Reachable(p)' => Reachable(p)),
           manager = "supervisor" => orphans' = {},
           \/ UNCHANGED cmd
           \/ /\ cmd'.at \notin {"spawn", "pid"}
              /\ V!At("start", "pid") => \A p \in Pids : cmd.pid = p => ~Reachable(p)'
              /\ cmd'.do \in {"start", "stop"} => cmd'.unit \in Units
              /\ V!At("stop", "unlink")' /\ manager = "fallback" =>
                   \A p \in Pids : Reachable(p)' => p # pidfile[cmd'.unit]
    PROVE  ProcessesInv'
<1>0. ProcessesInv
  BY DEF ServicesInv
<1>1. /\ \A p \in Pids : V!Alive(p)' => proc'[p].unit \in Units
      /\ manager' = "supervisor" =>
           \A p, q \in Pids : Reachable(p)' /\ Reachable(q)' /\ proc'[p].unit = proc'[q].unit => p = q
  BY <1>0 DEF ProcessesInv, Reachable
<1>2. manager' = "fallback" =>
         \A p \in Pids : Reachable(p)' =>
            pidfile'[proc'[p].unit] = p \/ (V!At("start", "pid")' /\ cmd'.pid = p)
  <2> SUFFICES ASSUME manager' = "fallback", NEW p \in Pids, Reachable(p)'
               PROVE  pidfile'[proc'[p].unit] = p \/ (V!At("start", "pid")' /\ cmd'.pid = p)
    OBVIOUS
  <2>1. pidfile[proc[p].unit] = p \/ (V!At("start", "pid") /\ cmd.pid = p)
    BY <1>0 DEF ProcessesInv, Reachable
  <2> QED
    BY <2>1 DEF V!At
<1>3. CASE UNCHANGED cmd
  BY <1>0, <1>1, <1>2, <1>3 DEF ProcessesInv, V!At, Reachable
<1>4. CASE cmd' # cmd
  BY <1>0, <1>1, <1>2, <1>4 DEF ProcessesInv, V!At
<1> QED
  BY <1>3, <1>4

LEMMA StartReaches ==
    ASSUME ServicesInv, V!StartChecks \/ V!StartSpawns \/ V!StartWritesPid \/ V!StopUnlinks
    PROVE  ProcessesInv'
<1>0. /\ ServicesTypes /\ ProcessesInv /\ 0 \notin Pids
      /\ cmd.unit \in Units /\ pidfile \in [Units -> Nat] /\ proc \in [Pids -> UnitProcs]
      /\ manager \in {"fallback", "supervisor"} /\ manager' = manager
  BY ServicesAssumption
  DEF ServicesInv, ServicesTypes, ProcessesInv, V!StartChecks, V!StartSpawns, V!StartWritesPid,
      V!StopUnlinks, V!At, V!Keeps
<1>a. /\ \A p \in Pids : V!Alive(p) => proc[p].unit \in Units
      /\ manager = "fallback" =>
           \A p \in Pids : Reachable(p) =>
              pidfile[proc[p].unit] = p \/ (V!At("start", "pid") /\ cmd.pid = p)
      /\ manager = "supervisor" =>
           \A p, q \in Pids : Reachable(p) /\ Reachable(q) /\ proc[p].unit = proc[q].unit => p = q
      /\ manager = "supervisor" => cmd.at # "pid" /\ orphans = {}
  BY <1>0 DEF ProcessesInv
<1>1. CASE V!StartChecks
  <2>1. /\ UNCHANGED <<proc, orphans>> /\ cmd'.do = "start" /\ cmd'.unit = cmd.unit
        /\ cmd'.at \in {"spawn", "health"} /\ ~V!At("start", "pid")
        /\ \/ UNCHANGED pidfile /\ (manager = "fallback" => cmd'.at = "health")
           \/ /\ pidfile' = [pidfile EXCEPT ![cmd.unit] = 0]
              /\ ~V!Alive(pidfile[cmd.unit])
    BY <1>0, <1>1, CommandGoes DEF V!StartChecks, V!At
  <2>2. \A p \in Pids : (Reachable(p)' <=> Reachable(p)) /\ (V!Alive(p)' <=> V!Alive(p))
    BY <2>1 DEF Reachable, V!Alive
  <2>3. \A p \in Pids : Reachable(p) => pidfile'[proc[p].unit] = pidfile[proc[p].unit]
                                       \/ pidfile[proc[p].unit] # p
    BY <1>0, <1>a, <2>1 DEF Reachable
  <2>4. manager = "fallback" => \A p \in Pids : Reachable(p) => pidfile'[proc[p].unit] = p
    BY <1>a, <2>1, <2>3
  <2>5. V!At("start", "spawn")' /\ manager = "fallback" => pidfile'[cmd'.unit] = 0
    BY <1>0, <2>1 DEF V!At
  <2> QED
    BY <1>0, <1>a, <2>1, <2>2, <2>4, <2>5 DEF ProcessesInv, V!At
<1>2. CASE V!StartWritesPid
  <2>1. /\ UNCHANGED <<proc, orphans>> /\ cmd'.do = "start" /\ cmd'.unit = cmd.unit
        /\ cmd'.at = "health" /\ V!At("start", "pid")
        /\ pidfile' = [pidfile EXCEPT ![cmd.unit] = cmd.pid]
    BY <1>0, <1>2, CommandGoes DEF V!StartWritesPid, V!At
  <2>2. \A p \in Pids : (Reachable(p)' <=> Reachable(p)) /\ (V!Alive(p)' <=> V!Alive(p))
    BY <2>1 DEF Reachable, V!Alive
  <2>3. pidfile[cmd.unit] = 0 /\ proc[cmd.pid].unit = cmd.unit
    BY <1>0, <2>1 DEF ProcessesInv
  <2>4. manager = "fallback" => \A p \in Pids : Reachable(p) => pidfile'[proc[p].unit] = p
    <3> SUFFICES ASSUME manager = "fallback", NEW p \in Pids, Reachable(p)
                 PROVE  pidfile'[proc[p].unit] = p
      OBVIOUS
    <3>1. proc[p].unit \in Units
      BY <1>a DEF Reachable
    <3>2. CASE proc[p].unit = cmd.unit
      BY <1>0, <1>a, <2>1, <2>3, <3>2
    <3>3. CASE proc[p].unit # cmd.unit
      BY <1>0, <1>a, <2>1, <2>3, <3>1, <3>3
    <3> QED
      BY <3>2, <3>3
  <2> QED
    BY <1>0, <1>a, <2>1, <2>2, <2>4 DEF ProcessesInv, V!At
<1>3. CASE V!StopUnlinks
  <2>1. /\ UNCHANGED <<proc, orphans>> /\ cmd'.do = "none" /\ cmd'.at = "none"
        /\ V!At("stop", "unlink") /\ pidfile' = [pidfile EXCEPT ![cmd.unit] = 0]
    BY <1>3, CommandEnds DEF V!StopUnlinks
  <2>2. \A p \in Pids : (Reachable(p)' <=> Reachable(p)) /\ (V!Alive(p)' <=> V!Alive(p))
    BY <2>1 DEF Reachable, V!Alive
  <2>3. manager = "fallback" => \A p \in Pids : Reachable(p) => pidfile'[proc[p].unit] = p
    <3> SUFFICES ASSUME manager = "fallback", NEW p \in Pids, Reachable(p)
                 PROVE  pidfile'[proc[p].unit] = p
      OBVIOUS
    <3>1. proc[p].unit \in Units /\ pidfile[proc[p].unit] = p
      BY <1>a, <2>1 DEF Reachable, V!At
    <3>2. p # pidfile[cmd.unit]
      BY <1>0, <2>1 DEF ProcessesInv
    <3> QED
      BY <1>0, <2>1, <3>1, <3>2
  <2> QED
    BY <1>0, <1>a, <2>1, <2>2, <2>3 DEF ProcessesInv, V!At
<1>4. CASE V!StartSpawns /\ ~V!Spawns(cmd.unit)
  <2>1. V!Goes("health") /\ UNCHANGED <<proc, pidfile, orphans>> /\ V!At("start", "spawn")
    BY <1>4 DEF V!StartSpawns
  <2>2. /\ cmd'.do = "start" /\ cmd'.unit = cmd.unit /\ cmd'.at = "health"
    BY <1>0, <2>1, CommandGoes DEF V!At
  <2>3. \A p \in Pids : (Reachable(p)' <=> Reachable(p)) /\ (V!Alive(p)' <=> V!Alive(p))
    BY <2>1 DEF Reachable, V!Alive
  <2> QED
    BY <1>0, <1>a, <2>1, <2>2, <2>3 DEF ProcessesInv, V!At
<1>5. CASE V!StartSpawns /\ V!Spawns(cmd.unit)
  <2>1. PICK n \in Pids :
          /\ proc[n] = V!Nobody /\ proc' = [proc EXCEPT ![n] = V!Booting(cmd.unit)]
          /\ cmd' = [cmd EXCEPT !.at = IF manager = "fallback" THEN "pid" ELSE "health", !.pid = n]
          /\ UNCHANGED <<pidfile, orphans>> /\ V!At("start", "spawn")
    BY <1>5, FreshIsFree DEF V!StartSpawns
  <2>2. /\ cmd'.do = "start" /\ cmd'.unit = cmd.unit /\ cmd'.pid = n
        /\ cmd'.at = IF manager = "fallback" THEN "pid" ELSE "health"
    BY <1>0, <2>1 DEF ServicesTypes, Commands, V!At
  <2>3. /\ proc'[n].unit = cmd.unit /\ proc'[n].st = "booting"
        /\ \A p \in Pids \ {n} : proc'[p] = proc[p]
        /\ ~V!Alive(n)
    BY <1>0, <2>1 DEF V!Booting, V!Nobody, V!Alive
  <2>4. \A p \in Pids \ {n} : (Reachable(p)' <=> Reachable(p)) /\ (V!Alive(p)' <=> V!Alive(p))
    BY <2>1, <2>3 DEF Reachable, V!Alive
  <2>5. manager = "supervisor" => \A p \in Pids : Reachable(p) => proc[p].unit # cmd.unit
    BY <1>5 DEF V!Spawns, V!Of, Reachable
  <2>6. manager = "supervisor" =>
           \A p, q \in Pids : Reachable(p)' /\ Reachable(q)' /\ proc'[p].unit = proc'[q].unit => p = q
    BY <1>a, <2>3, <2>4, <2>5
  <2>7. manager = "fallback" => pidfile[cmd.unit] = 0
    BY <1>0, <2>1 DEF ProcessesInv
  <2>8. manager = "fallback" =>
           \A p \in Pids : Reachable(p)' =>
              pidfile'[proc'[p].unit] = p \/ (V!At("start", "pid")' /\ cmd'.pid = p)
    BY <1>a, <2>1, <2>2, <2>3, <2>4 DEF V!At
  <2>9. \A p \in Pids : V!Alive(p)' => proc'[p].unit \in Units
    BY <1>0, <1>a, <2>3, <2>4
  <2> QED
    BY <1>0, <1>a, <2>1, <2>2, <2>3, <2>6, <2>7, <2>8, <2>9 DEF ProcessesInv, V!At
<1> QED
  BY <1>1, <1>2, <1>3, <1>4, <1>5

LEMMA ProcessesInvStays ==
    ASSUME ServicesInv, V!Next PROVE ProcessesInv'
<1>0. /\ ServicesTypes /\ ProcessesInv /\ proc \in [Pids -> UnitProcs]
      /\ manager \in {"fallback", "supervisor"} /\ (manager = "supervisor" => orphans = {})
      /\ cmd \in Commands
  BY DEF ServicesInv, ServicesTypes, ProcessesInv
<1>1. ASSUME NEW c \in Beginnings, V!Begin(c) PROVE ProcessesInv'
  <2>1. /\ UNCHANGED <<manager, proc, pidfile, orphans>> /\ cmd' = c /\ ~V!At("start", "pid")
    BY <1>1 DEF V!Begin, V!NoCmd, V!At
  <2>2. /\ cmd'.at \notin {"spawn", "pid", "unlink"}
        /\ cmd'.do \in {"start", "stop"} => cmd'.unit \in Units
    BY <2>1 DEF Beginnings
  <2> QED
    BY <1>0, <2>1, <2>2, NobodyIsOutOfReach DEF Reachable, V!Alive, V!At
<1>2. CASE V!StartAsks \/ V!Backup \/ V!RestoreGuards \/ V!RestoreReplaces \/ V!RestoreSweeps
  <2>1. /\ UNCHANGED <<manager, proc, pidfile, orphans>> /\ cmd.at # "pid"
        /\ (\E pc \in {"copy", "sidecars"} : V!Goes(pc)) \/ \E what : V!Ends(what)
        /\ cmd.do \in {"start", "backup", "restore"}
    BY <1>2 DEF V!StartAsks, V!Backup, V!RestoreGuards, V!RestoreReplaces, V!RestoreSweeps, V!At,
                V!Keeps
  <2>2. /\ cmd'.at \notin {"spawn", "pid", "unlink"}
        /\ cmd'.do \in {"start", "stop"} => cmd'.do = cmd.do /\ cmd'.unit = cmd.unit
    BY <1>0, <2>1, CommandGoes, CommandEnds
  <2>3. cmd'.do \in {"start", "stop"} => cmd'.unit \in Units
    BY <1>0, <2>2 DEF ProcessesInv
  <2> QED
    BY <1>0, <2>1, <2>2, <2>3, NobodyIsOutOfReach DEF Reachable, V!Alive, V!At
<1>3. CASE V!RestoreCopies
  <2>1. /\ UNCHANGED <<manager, proc, pidfile, orphans>> /\ V!At("restore", "copy")
        /\ cmd' = [cmd EXCEPT !.at = "replace", !.risky = V!Risky]
    BY <1>3 DEF V!RestoreCopies, V!Keeps
  <2>2. cmd'.at = "replace" /\ cmd'.do = "restore"
    BY <1>0, <2>1 DEF Commands, V!At
  <2> QED
    BY <1>0, <2>1, <2>2, NobodyIsOutOfReach DEF Reachable, V!Alive, V!At
<1>4. CASE V!Killed
  <2>1. /\ UNCHANGED <<manager, proc, pidfile>> /\ cmd' = V!NoCmd
        /\ orphans' = orphans \cup IF V!At("start", "pid") THEN {cmd.pid} ELSE {}
    BY <1>4 DEF V!Killed
  <2>2. manager = "supervisor" => orphans' = {}
    BY <1>0, <2>1 DEF ProcessesInv, V!At
  <2>3. cmd'.at = "none" /\ cmd'.do = "none"
    BY <2>1 DEF V!NoCmd
  <2>4. V!At("start", "pid") => \A p \in Pids : cmd.pid = p => ~Reachable(p)'
    BY <2>1 DEF Reachable
  <2> QED
    BY <1>0, <2>1, <2>2, <2>3, <2>4, NobodyIsOutOfReach DEF Reachable, V!Alive, V!At
<1>5. CASE V!StopSignals
  <2> DEFINE ps == IF manager = "supervisor" THEN V!Of(cmd.unit)
                   ELSE {p \in {pidfile[cmd.unit]} : V!Alive(p)}
  <2>1. /\ UNCHANGED <<manager, pidfile, orphans>> /\ V!Goes("unlink") /\ V!At("stop", "kill")
        /\ proc' = IF ps = {} THEN proc ELSE V!Signalled(CHOOSE p \in ps : TRUE)
    BY <1>5 DEF V!StopSignals, V!Keeps
  <2>2. \A p \in ps : V!Alive(p)
    BY DEF V!Of
  <2>3. manager = "fallback" => ps = {p \in {pidfile[cmd.unit]} : V!Alive(p)}
    OBVIOUS
  <2> HIDE DEF ps
  <2>4. \/ ps = {} /\ UNCHANGED proc
        \/ \E p \in ps : proc' = V!Signalled(p) 
    BY <2>1
  <2>5. ASSUME NEW q \in Pids
        PROVE  /\ proc'[q].unit = proc[q].unit
               /\ V!Alive(q)' => V!Alive(q) /\ (Reachable(q)' => Reachable(q))
    BY <1>0, <2>1, <2>2, <2>4 DEF V!Signalled, UnitProcs, V!Alive, Reachable
  <2>6. ASSUME NEW q \in Pids, manager = "fallback", q = pidfile[cmd.unit] PROVE ~Reachable(q)'
    <3>1. CASE V!Alive(q)
      <4>1. ps = {q}
        BY <2>3, <2>6, <3>1
      <4>2. proc' = V!Signalled(q)
        BY <2>4, <4>1
      <4>3. proc'[q].st \in {"gone", "draining"}
        BY <1>0, <4>2 DEF V!Signalled, UnitProcs
      <4> QED
        BY <4>3 DEF Reachable, V!Alive
    <3>2. CASE ~V!Alive(q)
      BY <2>5, <3>2 DEF Reachable
    <3> QED
      BY <3>1, <3>2
  <2>7. cmd'.do = "stop" /\ cmd'.unit = cmd.unit /\ cmd'.at = "unlink"
    BY <1>0, <2>1, CommandGoes DEF V!At
  <2>8. cmd.unit \in Units
    BY <1>0, <2>1 DEF ProcessesInv, V!At
  <2> QED
    BY <1>0, <2>1, <2>5, <2>6, <2>7, <2>8, NobodyIsOutOfReach DEF V!At
<1>6. ASSUME NEW p \in Pids, V!Boots(p) \/ V!Exits(p) \/ V!Dies(p) PROVE ProcessesInv'
  <2>1. /\ UNCHANGED <<manager, pidfile, cmd, orphans>> /\ V!Alive(p)
        /\ \A q \in Pids \ {p} : proc'[q] = proc[q]
    BY <1>0, <1>6 DEF V!Boots, V!Exits, V!Dies, V!Life, V!Process, V!Alive
  <2>3. /\ proc'[p].unit = proc[p].unit /\ proc'[p].st # "draining"
        /\ proc'[p].st = "booting" => proc[p].st # "draining"
        /\ proc'[p].st = "up" => proc[p].st = "booting"
    <3>1. proc[p] \in UnitProcs
      BY <1>0
    <3>2. CASE V!Boots(p)
      BY <1>0, <3>1, <3>2 DEF V!Boots, V!Process, UnitProcs
    <3>3. CASE V!Exits(p)
      BY <1>0, <3>1, <3>3 DEF V!Exits, V!Process, UnitProcs
    <3>4. CASE V!Dies(p)
      BY <1>0, <3>1, <3>4 DEF V!Dies, V!Process, V!Booting, UnitProcs
    <3> QED
      BY <1>6, <3>2, <3>3, <3>4
  <2>2. ASSUME NEW q \in Pids
        PROVE  /\ proc'[q].unit = proc[q].unit
               /\ V!Alive(q)' => V!Alive(q) /\ (Reachable(q)' => Reachable(q))
    BY <2>1, <2>3 DEF V!Alive, Reachable
  <2> QED
    BY <1>0, <2>1, <2>2, NobodyIsOutOfReach
<1>7. ASSUME NEW p \in Pids, V!Commits(p) PROVE ProcessesInv'
  <2>1. UNCHANGED <<manager, proc, pidfile, orphans, cmd>>
    BY <1>7 DEF V!Commits
  <2> QED
    BY <1>0, <2>1, NobodyIsOutOfReach DEF Reachable, V!Alive
<1> QED
  BY <1>0, <1>1, <1>2, <1>3, <1>4, <1>5, <1>6, <1>7, StartReaches, ServicesSteps

LEMMA RestoreInvStays ==
    ASSUME ServicesInv, V!Next PROVE RestoreInv'
<1>0. /\ ServicesTypes /\ ProcessesInv /\ RestoreInv /\ proc \in [Pids -> UnitProcs]
      /\ manager \in {"fallback", "supervisor"} /\ cmd \in Commands /\ db \in Files
      /\ db.ino \in Nat /\ \A p \in Pids : proc[p] \in UnitProcs
  BY DEF ServicesInv, ServicesTypes, Files
<1>a. V!Unseen = {} /\ Restoring => NobodyAlive
  BY <1>0 DEF RestoreInv, NobodyAlive
<1>1. ASSUME ~(cmd'.do = "restore" /\ cmd'.at \in {"copy", "replace", "sidecars"}) PROVE RestoreInv'
  BY <1>1 DEF RestoreInv, Restoring, V!At
<1>2. ASSUME NEW c \in Beginnings, V!Begin(c) PROVE RestoreInv'
  BY <1>1, <1>2 DEF V!Begin, Beginnings
<1>3. CASE V!StartChecks \/ V!StartSpawns \/ V!StartWritesPid \/ V!StartAsks \/ V!StopSignals
           \/ V!StopUnlinks \/ V!Backup
  <2>1. cmd.do \in {"start", "stop", "backup"}
    BY <1>3 DEF V!StartChecks, V!StartSpawns, V!StartWritesPid, V!StartAsks, V!StopSignals,
                V!StopUnlinks, V!Backup, V!At
  <2>2. \/ \E pc : V!Goes(pc)
        \/ \E what : V!Ends(what)
        \/ V!StartSpawns /\ V!Spawns(cmd.unit)
    BY <1>3 DEF V!StartChecks, V!StartSpawns, V!StartWritesPid, V!StartAsks, V!StopSignals,
                V!StopUnlinks, V!Backup
  <2>3. CASE V!StartSpawns /\ V!Spawns(cmd.unit)
    <3>1. PICK pc, n : cmd' = [cmd EXCEPT !.at = pc, !.pid = n]
      BY <2>3 DEF V!StartSpawns
    <3>2. cmd'.do = cmd.do
      BY <1>0, <3>1 DEF Commands
    <3> QED
      BY <1>1, <2>1, <3>2
  <2>4. ASSUME NEW pc, V!Goes(pc) PROVE RestoreInv'
    BY <1>0, <1>1, <2>1, <2>4, CommandGoes
  <2>5. ASSUME NEW what, V!Ends(what) PROVE RestoreInv'
    BY <1>1, <2>5, CommandEnds
  <2> QED
    BY <2>2, <2>3, <2>4, <2>5
<1>4. CASE V!Killed
  BY <1>1, <1>4 DEF V!Killed, V!NoCmd
<1>5. CASE V!RestoreSweeps
  BY <1>1, <1>5, CommandEnds DEF V!RestoreSweeps
<1>6. CASE V!RestoreGuards
  <2>1. CASE V!Ends("refused")
    BY <1>1, <2>1, CommandEnds
  <2>2. CASE V!Offline /\ V!Goes("copy")
    <3>1. /\ UNCHANGED <<manager, proc, orphans>> /\ V!At("restore", "guard")
          /\ cmd'.at = "copy"
      BY <1>0, <1>6, <2>2, CommandGoes DEF V!RestoreGuards, V!Keeps
    <3>2. ASSUME NEW p \in Pids, V!Alive(p), p \notin V!Unseen PROVE FALSE
      <4>1. Reachable(p) /\ manager = "fallback"
        BY <1>0, <3>2 DEF V!Unseen, Reachable
      <4>2. proc[p].unit \in Units /\ pidfile[proc[p].unit] = p
        BY <1>0, <3>1, <3>2, <4>1 DEF ProcessesInv, V!At
      <4> QED
        BY <2>2, <3>2, <4>2 DEF V!Offline
    <3> QED
      BY <3>1, <3>2 DEF RestoreInv, V!At, V!Alive, V!Unseen
  <2> QED
    BY <1>6, <2>1, <2>2 DEF V!RestoreGuards
<1>7. CASE V!RestoreCopies
  <2>1. /\ UNCHANGED <<manager, proc, orphans, db>> /\ V!At("restore", "copy")
        /\ copies' = IF cmd.auto THEN copies \cup {db.main} ELSE copies
        /\ cmd' = [cmd EXCEPT !.at = "replace", !.risky = V!Risky]
    BY <1>7 DEF V!RestoreCopies, V!Keeps
  <2>2. cmd'.do = "restore" /\ cmd'.at = "replace" /\ (cmd'.risky <=> V!Risky)
    BY <1>0, <2>1 DEF V!At, Commands
  <2>3. ~V!Risky => cmd.auto /\ NobodyAlive
    BY <1>a, <2>1 DEF V!Risky, Restoring, V!At
  <2>4. ~cmd'.risky => db.main \in copies' /\ NobodyAlive
    BY <2>1, <2>2, <2>3
  <2>5. \A p \in Pids : V!Alive(p) => p \in V!Unseen
    BY <1>0, <2>1 DEF RestoreInv, Restoring, V!At
  <2> QED
    BY <2>1, <2>2, <2>4, <2>5 DEF RestoreInv, V!At, V!Alive, V!Unseen, NobodyAlive
<1>8. CASE V!RestoreReplaces
  <2>1. /\ UNCHANGED <<manager, proc, orphans>> /\ V!At("restore", "replace") /\ V!Goes("sidecars")
        /\ db' = [db EXCEPT !.main = cmd.copy, !.ino = @ + 1]
        /\ ~excused' => ~V!Risky
    BY <1>8 DEF V!RestoreReplaces, V!Keeps
  <2>2. cmd'.do = "restore" /\ cmd'.at = "sidecars" /\ cmd'.copy = cmd.copy
    BY <1>0, <2>1, CommandGoes DEF V!At
  <2>3. db'.main = cmd.copy /\ db'.wal = db.wal /\ db'.ino = db.ino + 1
    BY <1>0, <2>1 DEF Files
  <2>4. \A p \in Pids : proc[p].file <= db.ino /\ proc[p].file \in Nat
    BY <1>0 DEF ServicesInv, FilesInv, UnitProcs
  <2>5. \A p \in Pids : proc[p].file # db'.ino
    BY <1>0, <2>3, <2>4
  <2>6. ~V!Risky => db.wal = {} /\ NobodyAlive
    BY <1>a, <2>1 DEF V!Risky, Restoring, V!At
  <2>7. \A p \in Pids : V!Alive(p) => p \in V!Unseen
    BY <1>0, <2>1 DEF RestoreInv, Restoring, V!At
  <2> QED
    BY <2>1, <2>2, <2>3, <2>5, <2>6, <2>7 DEF RestoreInv, V!At, V!Alive, V!Unseen, NobodyAlive
<1>9. ASSUME NEW p \in Pids, V!Boots(p) \/ V!Exits(p) \/ V!Dies(p) \/ V!Commits(p) PROVE RestoreInv'
  <2>1. /\ UNCHANGED <<manager, cmd, orphans, excused>> /\ V!Alive(p)
        /\ V!Boots(p) \/ V!Exits(p) \/ V!Dies(p) => copies' = copies
        /\ \A q \in Pids \ {p} : proc'[q] = proc[q]
    BY <1>0, <1>9 DEF V!Boots, V!Exits, V!Dies, V!Commits, V!Life, V!Process, V!Alive
  <2>2. /\ proc'[p].st # "draining" \/ proc'[p] = proc[p]
        /\ V!Alive(p)' => manager = "supervisor" \/ proc[p].st # "draining" \/ proc'[p] = proc[p]
    <3>1. CASE V!Boots(p)
      BY <1>0, <3>1 DEF V!Boots, V!Process, UnitProcs
    <3>2. CASE V!Exits(p)
      BY <1>0, <3>2 DEF V!Exits, V!Process, UnitProcs, V!Alive
    <3>3. CASE V!Dies(p)
      BY <1>0, <3>3 DEF V!Dies, V!Process, V!Booting, UnitProcs, V!Alive
    <3>4. CASE V!Commits(p)
      BY <3>4 DEF V!Commits
    <3> QED
      BY <1>9, <3>1, <3>2, <3>3, <3>4
  <2>3. Restoring => \A q \in Pids : V!Alive(q)' => q \in V!Unseen'
    <3> SUFFICES ASSUME Restoring, NEW q \in Pids, V!Alive(q)' PROVE q \in V!Unseen'
      OBVIOUS
    <3>1. CASE q = p
      BY <1>0, <2>1, <2>2, <3>1 DEF RestoreInv, V!Unseen, V!Alive
    <3>2. CASE q # p
      BY <1>0, <2>1, <3>2 DEF RestoreInv, V!Unseen, V!Alive
    <3> QED
      BY <3>1, <3>2
  <2>4. ~(V!At("restore", "replace") /\ ~cmd.risky) /\ ~(V!At("restore", "sidecars") /\ ~excused)
    BY <1>0, <2>1 DEF RestoreInv, NobodyAlive
  <2>5. ASSUME V!At("restore", "sidecars")
        PROVE  /\ db'.main = cmd.copy /\ db'.ino = db.ino
               /\ \A q \in Pids : proc'[q].st = "draining" => proc'[q].file # db'.ino
    <3>1. db.main = cmd.copy /\ \A q \in Pids : proc[q].st = "draining" => proc[q].file # db.ino
      BY <1>0, <2>5 DEF RestoreInv
    <3>2. db'.main = db.main /\ db'.ino = db.ino
      <4>1. CASE V!Boots(p)
        BY <1>0, <4>1, FileSteps DEF V!Boots
      <4>2. CASE V!Exits(p)
        <5>1. proc[p].st = "draining"
          BY <4>2 DEF V!Exits
        <5>2. p \notin V!Readers(db.ino)
          BY <3>1, <5>1 DEF V!Readers
        <5> QED
          BY <4>2, <5>2 DEF V!Exits
      <4>3. CASE V!Dies(p)
        BY <4>3 DEF V!Dies
      <4>4. CASE V!Commits(p)
        BY <1>0, <4>4 DEF V!Commits, Files
      <4> QED
        BY <1>9, <4>1, <4>2, <4>3, <4>4
    <3> QED
      BY <2>1, <2>2, <3>1, <3>2
  <2> QED
    BY <2>1, <2>3, <2>4, <2>5 DEF RestoreInv, Restoring, V!At
<1> QED
  BY <1>0, <1>2, <1>3, <1>4, <1>5, <1>6, <1>7, <1>8, <1>9, ServicesSteps

\* The file and what was committed stay as they are.
LEMMA FilesStay ==
    ASSUME ServicesInv, UNCHANGED <<db, acked>>, copies \subseteq copies', excused => excused',
           V!At("restore", "sidecars") => V!At("restore", "sidecars")' \/ excused',
           \A p \in Pids : /\ proc'[p].file \in {0, proc[p].file}
                           /\ proc'[p].st \in {"up", "draining"} =>
                                proc[p].st \in {"up", "draining"} /\ proc'[p].file = proc[p].file,
           serviceTold'.say # "restored"
    PROVE  FilesInv'
<1>0. FilesInv /\ db.ino \in Nat
  BY DEF ServicesInv, ServicesTypes, Files
<1>1. \A p \in Pids : proc'[p].file <= db.ino
  BY <1>0 DEF FilesInv
<1>2. excused' \/ acked \subseteq V!Visible(db) \cup UNION copies'
  BY <1>0 DEF FilesInv
<1> QED
  BY <1>0, <1>1, <1>2 DEF FilesInv, V!Visible

LEMMA FilesInvStays ==
    ASSUME ServicesInv, V!Next PROVE FilesInv'
<1>0. /\ ServicesTypes /\ ProcessesInv /\ RestoreInv /\ FilesInv /\ proc \in [Pids -> UnitProcs]
      /\ cmd \in Commands /\ db \in Files /\ excused \in BOOLEAN
      /\ db.ino \in Nat /\ \A p \in Pids : proc[p] \in UnitProcs
  BY DEF ServicesInv, ServicesTypes, Files
<1>1. ASSUME NEW c \in Beginnings, V!Begin(c) PROVE FilesInv'
  BY <1>1, FilesStay DEF V!Begin, V!At, V!NoCmd, V!NoTale
<1>2. CASE V!StartChecks \/ V!StartWritesPid \/ V!StartAsks \/ V!StopUnlinks
  <2>1. /\ UNCHANGED <<proc, db, copies, acked, excused>> /\ ~V!At("restore", "sidecars")
        /\ (\E pc : V!Goes(pc)) \/ \E what \in {"healthy", "unhealthy", "started", "stopped"} : V!Ends(what)
    BY <1>2 DEF V!StartChecks, V!StartWritesPid, V!StartAsks, V!StopUnlinks, V!At, V!Data
  <2>2. serviceTold'.say # "restored"
    BY <1>0, <2>1, CommandGoes, CommandEnds
  <2> QED
    BY <2>1, <2>2, FilesStay
<1>3. CASE V!StartSpawns
  <2>1. UNCHANGED <<db, copies, acked, excused>> /\ ~V!At("restore", "sidecars")
        /\ serviceTold'.say # "restored"
    BY <1>3 DEF V!StartSpawns, V!Data, V!At, V!Goes, V!NoTale
  <2>2. UNCHANGED proc \/ \E n \in Pids : proc' = [proc EXCEPT ![n] = V!Booting(cmd.unit)]
    BY <1>3, FreshIsFree DEF V!StartSpawns
  <2>3. ASSUME NEW p \in Pids
        PROVE  /\ proc'[p].file \in {0, proc[p].file}
               /\ proc'[p].st \in {"up", "draining"} => proc'[p] = proc[p]
    BY <1>0, <2>2 DEF V!Booting
  <2> QED
    BY <2>1, <2>3, FilesStay
<1>4. CASE V!StopSignals
  <2>1. UNCHANGED <<db, copies, acked, excused>> /\ ~V!At("restore", "sidecars")
        /\ serviceTold'.say # "restored"
    BY <1>4 DEF V!StopSignals, V!Data, V!At, V!Goes, V!NoTale
  <2>2. UNCHANGED proc \/ \E n : V!Alive(n) /\ proc' = V!Signalled(n)
    <3> DEFINE ps == IF manager = "supervisor" THEN V!Of(cmd.unit)
                     ELSE {p \in {pidfile[cmd.unit]} : V!Alive(p)}
    <3>1. proc' = IF ps = {} THEN proc ELSE V!Signalled(CHOOSE p \in ps : TRUE)
      BY <1>4 DEF V!StopSignals
    <3>2. \A p \in ps : V!Alive(p)
      BY DEF V!Of
    <3> HIDE DEF ps
    <3>3. ps # {} => (CHOOSE p \in ps : TRUE) \in ps
      OBVIOUS
    <3> QED
      BY <3>1, <3>2, <3>3
  <2>3. ASSUME NEW p \in Pids
        PROVE  /\ proc'[p].file = proc[p].file
               /\ proc'[p].st \in {"up", "draining"} => proc[p].st \in {"up", "draining"}
    BY <1>0, <2>2 DEF V!Signalled, V!Alive, UnitProcs
  <2> QED
    BY <2>1, <2>3, FilesStay
<1>5. CASE V!Killed
  <2>1. /\ UNCHANGED <<proc, db, copies, acked>> /\ serviceTold'.say # "restored"
        /\ excused \/ V!At("restore", "sidecars") => excused'
    BY <1>5 DEF V!Killed, V!NoTale
  <2> QED
    BY <2>1, FilesStay
<1>6. CASE V!RestoreGuards
  <2>1. /\ UNCHANGED <<proc, db, copies, acked, excused>> /\ ~V!At("restore", "sidecars")
        /\ V!Goes("copy") \/ V!Ends("refused")
    BY <1>6 DEF V!RestoreGuards, V!At, V!Data
  <2>2. serviceTold'.say # "restored"
    BY <1>0, <2>1, CommandGoes, CommandEnds
  <2> QED
    BY <2>1, <2>2, FilesStay
<1>7. CASE V!RestoreCopies
  BY <1>7, FilesStay DEF V!RestoreCopies, V!At, V!NoTale
<1>8. CASE V!Backup
  <2>1. /\ UNCHANGED <<proc, acked, excused>> /\ ~V!At("restore", "sidecars")
        /\ V!Ends("saved") \/ V!Ends("failed")
        /\ copies \subseteq copies'
        /\ db' = V!Opened(db) \/ db' = V!Checkpointed(V!Opened(db))
    BY <1>8 DEF V!Backup, V!At
  <2>2. V!Opened(db) \in Files
    BY <1>0, FileSteps
  <2>3. /\ db'.ino = db.ino /\ db'.of = db.ino /\ V!Visible(db') = V!Visible(db)
        /\ db'.torn <=> db.torn \/ (db.wal # {} /\ db.of # db.ino)
    <3>1. PICK o \in Files : o = V!Opened(db)
      BY <2>2
    <3>2. /\ o.main = db.main /\ o.wal = db.wal /\ o.of = db.ino /\ o.ino = db.ino
          /\ o.torn <=> db.torn \/ (db.wal # {} /\ db.of # db.ino)
      BY <1>0, <3>1, FileSteps
    <3>3. CASE db' = o
      BY <3>2, <3>3 DEF V!Visible
    <3>4. CASE db' = V!Checkpointed(o)
      <4>1. /\ db'.main = o.main \cup o.wal /\ db'.wal = {} /\ db'.of = o.ino /\ db'.ino = o.ino
            /\ db'.torn <=> o.torn
        BY <3>1, <3>4, FileSteps
      <4>2. V!Visible(db') = V!Visible(db)
        BY <3>2, <4>1 DEF V!Visible
      <4> QED
        BY <3>2, <4>1, <4>2
    <3> QED
      BY <2>1, <3>1, <3>3, <3>4
  <2>4. db'.torn => excused
    BY <1>0, <2>1, <2>3 DEF FilesInv
  <2>5. serviceTold'.say # "restored"
    BY <2>1, CommandEnds
  <2>6. excused \/ acked \subseteq V!Visible(db) \cup UNION copies'
    BY <1>0, <2>1 DEF FilesInv
  <2>7. \A p \in Pids : proc[p].file <= db.ino
                       /\ (proc[p].st \in {"up", "draining"} => proc[p].file = db.ino \/ excused)
    BY <1>0 DEF FilesInv
  <2> QED
    BY <2>1, <2>3, <2>4, <2>5, <2>6, <2>7 DEF FilesInv, V!Visible
<1>9. CASE V!RestoreReplaces
  <2>1. /\ UNCHANGED <<proc, acked, copies>> /\ V!At("restore", "replace") /\ V!Goes("sidecars")
        /\ db' = [db EXCEPT !.main = cmd.copy, !.ino = @ + 1]
        /\ excused \/ cmd.risky \/ V!Risky <=> excused'
    BY <1>9 DEF V!RestoreReplaces
  <2>2. db'.main = cmd.copy /\ db'.wal = db.wal /\ db'.ino = db.ino + 1 /\ db'.torn = db.torn
    BY <1>0, <2>1 DEF Files
  <2>3. V!At("restore", "sidecars")' /\ serviceTold'.say # "restored"
    BY <1>0, <2>1, CommandGoes DEF V!At
  <2>4. ~excused' => ~cmd.risky /\ db.wal = {} /\ db.main \in copies /\ NobodyAlive /\ ~excused
    BY <1>0, <2>1 DEF V!Risky, RestoreInv
  <2>5. \A p \in Pids : proc[p].file <= db.ino + 1
    <3> SUFFICES ASSUME NEW p \in Pids PROVE proc[p].file <= db.ino + 1
      OBVIOUS
    <3>1. proc[p].file \in Nat /\ proc[p].file <= db.ino
      BY <1>0 DEF FilesInv, UnitProcs
    <3> QED
      BY <1>0, <3>1
  <2>6. excused' \/ acked \subseteq UNION copies
    BY <1>0, <2>4 DEF FilesInv, V!Visible
  <2>7. \A p \in Pids : proc[p].st \in {"up", "draining"} => excused'
    BY <2>4 DEF NobodyAlive, V!Alive
  <2>8. db'.torn => excused'
    BY <1>0, <2>1, <2>2 DEF FilesInv
  <2> QED
    BY <2>1, <2>2, <2>3, <2>5, <2>6, <2>7, <2>8 DEF FilesInv
<1>10. CASE V!RestoreSweeps
  <2>1. /\ UNCHANGED <<proc, acked, copies, excused>> /\ V!At("restore", "sidecars")
        /\ db' = V!NoLog(db) /\ V!Ends("restored")
    BY <1>10 DEF V!RestoreSweeps
  <2>2. /\ db'.main = db.main /\ db'.wal = {} /\ db'.of = db.ino /\ db'.ino = db.ino
        /\ db'.torn <=> db.torn
    <3>1. db' = [db EXCEPT !.wal = {}, !.of = db.ino]
      BY <1>0, <2>1, FileSteps
    <3> QED
      BY <1>0, <3>1 DEF Files
  <2>3. db.main = cmd.copy /\ (~excused => db.wal = {})
    BY <1>0, <2>1 DEF RestoreInv
  <2>4. V!Visible(db') = cmd.copy /\ serviceTold'.copy = cmd.copy
    BY <2>1, <2>2, <2>3, CommandEnds DEF V!Visible
  <2>5. excused \/ acked \subseteq V!Visible(db') \cup UNION copies
    BY <1>0, <2>2, <2>3 DEF FilesInv, V!Visible
  <2>6. \A p \in Pids : proc[p].file <= db.ino
                       /\ (proc[p].st \in {"up", "draining"} => proc[p].file = db.ino \/ excused)
    BY <1>0 DEF FilesInv
  <2>7. db'.torn => excused
    BY <1>0, <2>2 DEF FilesInv
  <2> QED
    BY <2>1, <2>2, <2>4, <2>5, <2>6, <2>7 DEF FilesInv, V!Visible
<1>11. ASSUME NEW p \in Pids, V!Dies(p) PROVE FilesInv'
  <2>1. /\ UNCHANGED <<db, acked, copies, excused, cmd>> /\ serviceTold'.say # "restored"
        /\ \A q \in Pids \ {p} : proc'[q] = proc[q]
    BY <1>0, <1>11 DEF V!Dies, V!Life, V!Process, V!NoTale
  <2>2. proc'[p].file = 0 /\ proc'[p].st \in {"booting", "gone"}
    BY <1>0, <1>11 DEF V!Dies, V!Process, V!Booting, UnitProcs
  <2>3. ASSUME NEW q \in Pids
        PROVE  /\ proc'[q].file \in {0, proc[q].file}
               /\ proc'[q].st \in {"up", "draining"} => proc'[q] = proc[q]
    BY <2>1, <2>2
  <2> QED
    BY <2>1, <2>3, FilesStay DEF V!At
<1>12. ASSUME NEW p \in Pids, V!Boots(p) PROVE FilesInv'
  <2>1. /\ UNCHANGED <<acked, copies, excused, cmd>> /\ serviceTold'.say # "restored"
        /\ \A q \in Pids \ {p} : proc'[q] = proc[q]
        /\ db' = V!Opened(db) /\ V!Alive(p)
    BY <1>0, <1>12 DEF V!Boots, V!Life, V!Process, V!NoTale, V!Alive
  <2>2. (proc'[p].st = "gone" /\ proc'[p].file = proc[p].file) \/ proc'[p].file = db.ino
    BY <1>0, <1>12 DEF V!Boots, V!Process, UnitProcs
  <2>3. /\ db'.ino = db.ino /\ db'.of = db.ino /\ V!Visible(db') = V!Visible(db)
        /\ db'.torn <=> db.torn \/ (db.wal # {} /\ db.of # db.ino)
    BY <1>0, <2>1, FileSteps DEF V!Visible
  <2>4. db'.torn => excused
    <3>1. V!At("restore", "sidecars") => excused
      BY <1>0, <2>1 DEF RestoreInv, NobodyAlive
    <3> QED
      BY <1>0, <2>3, <3>1 DEF FilesInv
  <2>5. \A q \in Pids : proc'[q].file <= db.ino
                       /\ (proc'[q].st \in {"up", "draining"} => proc'[q].file = db.ino \/ excused)
    BY <1>0, <2>1, <2>2 DEF FilesInv
  <2> QED
    BY <1>0, <2>1, <2>3, <2>4, <2>5 DEF FilesInv, V!Visible
<1>13. ASSUME NEW p \in Pids, V!Exits(p) PROVE FilesInv'
  <2>1. /\ UNCHANGED <<acked, copies, excused, cmd>> /\ serviceTold'.say # "restored"
        /\ \A q \in Pids \ {p} : proc'[q] = proc[q]
        /\ db' = V!Checkpointed(db) \/ db' = db
    BY <1>0, <1>13 DEF V!Exits, V!Life, V!Process, V!NoTale
  <2>2. proc'[p].file = 0 /\ proc'[p].st = "gone"
    BY <1>0, <1>13 DEF V!Exits, V!Process, UnitProcs
  <2>3. /\ db'.ino = db.ino /\ (db'.of = db.of \/ db'.of = db.ino) /\ V!Visible(db') = V!Visible(db)
        /\ db'.torn <=> db.torn
    <3>1. CASE db' = db
      BY <3>1 DEF V!Visible
    <3>2. CASE db' = V!Checkpointed(db)
      <4>1. /\ db'.main = db.main \cup db.wal /\ db'.wal = {} /\ db'.of = db.ino /\ db'.ino = db.ino
            /\ db'.torn <=> db.torn
        BY <1>0, <3>2, FileSteps
      <4> QED
        BY <4>1 DEF V!Visible
    <3> QED
      BY <2>1, <3>1, <3>2
  <2>4. \A q \in Pids : proc'[q].file <= db.ino
                       /\ (proc'[q].st \in {"up", "draining"} => proc'[q].file = db.ino \/ excused)
    BY <1>0, <2>1, <2>2 DEF FilesInv
  <2> QED
    BY <1>0, <2>1, <2>3, <2>4 DEF FilesInv, V!Visible, V!At
<1>14. ASSUME NEW p \in Pids, V!Commits(p) PROVE FilesInv'
  <2>1. PICK t \in Txns : /\ acked' = acked \cup {t}
                          /\ db' = IF proc[p].file = db.ino THEN [db EXCEPT !.wal = @ \cup {t}] ELSE db
    BY <1>14 DEF V!Commits
  <2>2. /\ UNCHANGED <<proc, copies, excused, cmd>> /\ serviceTold'.say # "restored"
        /\ proc[p].st \in {"up", "draining"}
    BY <1>14 DEF V!Commits, V!NoTale
  <2>3. /\ db'.ino = db.ino /\ db'.of = db.of /\ db'.main = db.main /\ db'.torn = db.torn
        /\ db'.wal = IF proc[p].file = db.ino THEN db.wal \cup {t} ELSE db.wal
    BY <1>0, <2>1 DEF Files
  <2>4. excused \/ acked' \subseteq V!Visible(db') \cup UNION copies
    BY <1>0, <2>1, <2>2, <2>3 DEF FilesInv, V!Visible
  <2> QED
    BY <1>0, <2>2, <2>3, <2>4 DEF FilesInv, V!Visible, V!At
<1> QED
  BY <1>0, <1>1, <1>2, <1>3, <1>4, <1>5, <1>6, <1>7, <1>8, <1>9, <1>10, <1>11, <1>12, <1>13, <1>14,
     ServicesSteps

LEMMA NextServicesInv ==
    ASSUME ServicesInv, [V!Next]_servicesVars PROVE ServicesInv'
<1>1. CASE V!Next
  BY <1>1, ServicesTypesStay, ProcessesInvStays, RestoreInvStays, FilesInvStays DEF ServicesInv
<1>2. CASE UNCHANGED servicesVars
  <2>1. ServicesTypes' /\ ProcessesInv'
    BY <1>2 DEF servicesVars, ServicesInv, ServicesTypes, ProcessesInv, Reachable, V!Alive, V!At
  <2>2. RestoreInv'
    BY <1>2 DEF servicesVars, ServicesInv, RestoreInv, Restoring, NobodyAlive, V!Alive, V!At, V!Unseen
  <2>3. FilesInv'
    BY <1>2 DEF servicesVars, ServicesInv, FilesInv, V!At, V!Visible
  <2> QED
    BY <2>1, <2>2, <2>3 DEF ServicesInv
<1> QED
  BY <1>1, <1>2

\* However the commands, the supervisor and dying processes interleave, stop reaches what
\* start has spawned, restore runs alone, loses nothing unexcused and leaves the backup
\* (fallback.ts, db-restore.ts).
THEOREM ServicesHold == WorkSpec => []ServicesAreSound
<1>1. WorkInit => ServicesInv
  BY InitServicesInv DEF WorkInit
<1>2. ServicesInv /\ [WorkNext]_workVars => ServicesInv'
  <2>1. [WorkNext]_workVars => [V!Next]_servicesVars
    BY DEF WorkNext, Among, workVars
  <2> QED
    BY <2>1, NextServicesInv
<1>3. ServicesInv => ServicesAreSound
  <2> SUFFICES ASSUME ServicesInv PROVE ServicesAreSound
    OBVIOUS
  <2>1. V!StopReaches
    BY DEF ServicesInv, ServicesTypes, ProcessesInv, Reachable, V!StopReaches, V!Of
  <2>2. V!RestoresOffline /\ V!NothingIsLost /\ V!RestoredIsBackup
    BY DEF ServicesInv, FilesInv, V!RestoresOffline, V!NothingIsLost, V!RestoredIsBackup
  <2> QED
    BY <2>1, <2>2 DEF ServicesAreSound, V!ServicesAreSound
<1> QED
  BY <1>1, <1>2, <1>3, PTL DEF WorkSpec

-----------------------------------------------------------------------------
(* Migrations: the newest migration of each database, and what a migrator   *)
(* knows of it.                                                             *)

K(d) == Len(log[d]) - 1
Positions == {n \in Int : n >= -1}
Heads == {Former, Latest}
Migrators == [do : {"none", "daemon", "init", "migrate", "cloud"}, db : M!Databases,
              head : Heads \cup {0}, last : Positions, total : Nat, pid : BOOLEAN,
              at : {"none", "over", "guard", "preflight", "extend", "open", "read", "begin", "txn",
                    "serving", "done", "failed"},
              forced : BOOLEAN, dry : BOOLEAN, vec : {"ok", "missing", "required"},
              why : {"none", "replayed"}]

\* The last migration it has read is the newest there is, or the newest is the head of a
\* package, which no transaction can run again.
MigratorOK(x) ==
    /\ x.at \notin {"none", "over"} => x.head \in Heads
    /\ x.do = "migrate" => x.head = Latest
    /\ x.at = "guard" => x.do = "migrate"
    /\ x.at \in {"preflight", "extend"} => x.do = "cloud"
    /\ x.at \in {"begin", "txn"} => x.last <= K(x.db) /\ (x.last # K(x.db) => K(x.db) \in Heads)
    /\ x.at = "txn" => x.last < x.head
    /\ x.at = "serving" => x.head <= K(x.db)
    /\ x.why = "replayed" => x.at = "failed" /\ x.last < x.head /\ x.last < K(x.db)
    /\ x.do = "migrate" /\ x.at = "done" => x.total > x.head
    /\ x.do = "cloud" /\ x.at \in {"guard", "open", "extend", "read", "begin", "txn"} => "foreign" \notin rowsIn

\* Those whose PID file says they run; db migrate past its guard.
Watched(x) == x.do = "daemon" /\ x.pid /\ x.at \in {"open", "read", "begin", "txn", "serving"}
Guarded(x) == /\ x.do = "migrate" /\ ~x.forced
              /\ x.at \in {"read", "begin", "txn"} \/ (x.at = "open" /\ ~x.dry)

LogsInv ==
    /\ log \in [M!Databases -> Seq(Nat)] /\ schema \in [M!Databases -> SUBSET Nat]
    /\ \A d \in M!Databases : log[d] = M!Upto(K(d)) /\ schema[d] = 0..K(d)

MigrationsInv ==
    /\ LogsInv
    /\ migrator \in [Procs -> Migrators]
    /\ \A p \in Procs : MigratorOK(migrator[p])
    /\ \A p, q \in Procs : Guarded(migrator[p]) /\ Watched(migrator[q]) => migrator[q].head = Latest
    /\ ~intruded

LEMMA PathIsLocal ==
    ASSUME NEW e \in M!Environments PROVE M!SqlitePath("unset", e) \in M!Databases
<1> DEFINE s == <<"unset", e.path, e.home, "elsewhere">>
           S == {i \in 1..4 : s[i] # "unset"}
<1>1. e.path \in {"unset", "elsewhere"} /\ e.home \in {"unset", "home"}
  BY DEF M!Environments
<1>2. S \in SUBSET Nat /\ 4 \in S
  OBVIOUS
<1>3. M!Min(S) \in S
  BY <1>2, LeastIsThere DEF M!Min
<1>4. ASSUME NEW i \in S PROVE s[i] \in M!Databases
  BY <1>1 DEF M!Databases, M!Local
<1>5. Len(s) = 4
  OBVIOUS
<1> QED
  BY <1>3, <1>4, <1>5 DEF M!SqlitePath, M!FirstSet

\* A log that is 0..k, and what a commit appends to it.
LEMMA UptoIs ==
    ASSUME NEW k \in Positions
    PROVE  /\ M!Upto(k) \in Seq(Nat) /\ Len(M!Upto(k)) = k + 1
           /\ M!Range(M!Upto(k)) = 0..k /\ M!Newest(M!Upto(k)) = k
<1>0. k \in Int /\ k >= -1 /\ k + 1 \in Nat
  BY DEF Positions
<1>1. M!Upto(k) \in Seq(Nat) /\ Len(M!Upto(k)) = k + 1 /\ DOMAIN M!Upto(k) = 1..(k + 1)
  BY <1>0 DEF M!Upto
<1>2. M!Range(M!Upto(k)) = 0..k
  <2>1. \A i \in 1..(k + 1) : M!Upto(k)[i] = i - 1 /\ i - 1 \in 0..k
    BY <1>0 DEF M!Upto
  <2>2. \A n \in 0..k : n + 1 \in 1..(k + 1) /\ M!Upto(k)[n + 1] = n
    BY <1>0, <2>1
  <2>3. M!Range(M!Upto(k)) = {M!Upto(k)[i] : i \in 1..(k + 1)}
    BY <1>1 DEF M!Range
  <2>4. M!Range(M!Upto(k)) \subseteq 0..k
    BY <2>1, <2>3
  <2>5. 0..k \subseteq M!Range(M!Upto(k))
    BY <2>2, <2>3
  <2> QED
    BY <2>4, <2>5
<1>3. M!Newest(M!Upto(k)) = k
  <2> DEFINE S == (0..k) \cup {-1}
  <2>1. k \in S /\ \A y \in S : k >= y
    BY <1>0
  <2>2. \A x \in S : (\A y \in S : x >= y) => x = k
    BY <1>0, <2>1
  <2>3. M!Max(S) = k
    BY <2>1, <2>2 DEF M!Max
  <2> QED
    BY <1>2, <2>3 DEF M!Newest
<1> QED
  BY <1>1, <1>2, <1>3

LEMMA UptoGrows ==
    ASSUME NEW k \in Positions, NEW h \in Nat, k < h
    PROVE  M!Upto(k) \o [i \in 1..M!Cardinality((k + 1)..h) |-> k + i] = M!Upto(h)
<1>0. /\ k \in Int /\ k + 1 \in Nat /\ h - k \in Nat /\ h + 1 \in Nat /\ (k + 1) + (h - k) = h + 1
      /\ h \in Positions
  BY DEF Positions
<1>1. M!Cardinality((k + 1)..h) = h - k
  <2>1. Cardinality((k + 1)..h) = h - k
    BY <1>0, FS_Interval
  <2>2. M!Cardinality((k + 1)..h) = Cardinality((k + 1)..h)
    BY Zenon DEF M!Cardinality, Cardinality
  <2> QED
    BY <2>1, <2>2
<1> DEFINE u == M!Upto(k)
           t == [i \in 1..(h - k) |-> k + i]
           v == M!Upto(h)
<1>2. u \in Seq(Nat) /\ Len(u) = k + 1 /\ v \in Seq(Nat) /\ Len(v) = h + 1
  BY <1>0, UptoIs
<1>3. t \in Seq(Nat) /\ Len(t) = h - k
  BY <1>0
<1>4. /\ \A i \in 1..(k + 1) : u[i] = i - 1
      /\ \A i \in 1..(h + 1) : v[i] = i - 1
      /\ \A i \in 1..(h - k) : t[i] = k + i
  BY <1>0 DEF M!Upto
<1> HIDE DEF u, t, v
<1>5. u \o t \in Seq(Nat) /\ Len(u \o t) = h + 1
  BY <1>0, <1>2, <1>3
<1>6. ASSUME NEW i \in 1..(h + 1) PROVE (u \o t)[i] = v[i]
  <2>0. (u \o t)[i] = IF i <= k + 1 THEN u[i] ELSE t[i - (k + 1)]
    <3>1. \A j \in 1..Len(u) + Len(t) :
              (u \o t)[j] = IF j <= Len(u) THEN u[j] ELSE t[j - Len(u)]
      BY <1>2, <1>3, ConcatProperties
    <3>2. i \in 1..Len(u) + Len(t)
      BY <1>0, <1>2, <1>3
    <3> QED
      BY <1>2, <3>1, <3>2
  <2>1. CASE i <= k + 1
    <3>1. i \in 1..(k + 1)
      BY <1>0, <2>1
    <3> QED
      BY <1>4, <2>0, <2>1, <3>1
  <2>2. CASE i > k + 1
    <3>1. i - (k + 1) \in 1..(h - k) /\ ~(i <= k + 1)
      BY <1>0, <2>2
    <3>2. t[i - (k + 1)] = i - 1
      BY <1>0, <1>4, <3>1
    <3> QED
      BY <1>4, <2>0, <3>1, <3>2
  <2>3. i <= k + 1 \/ i > k + 1
    BY <1>0
  <2> QED
    BY <2>1, <2>2, <2>3
<1>7. u \o t = v
  BY <1>2, <1>5, <1>6, SeqEqual
<1> QED
  BY <1>1, <1>7 DEF u, t, v

LEMMA LogsAre ==
    ASSUME LogsInv, NEW d \in M!Databases
    PROVE  K(d) \in Positions /\ M!Newest(log[d]) = K(d) /\ Len(log[d]) = K(d) + 1
<1>1. Len(log[d]) \in Nat
  BY DEF LogsInv
<1>2. K(d) \in Positions /\ Len(log[d]) = K(d) + 1
  BY <1>1 DEF K, Positions
<1> QED
  BY <1>2, UptoIs DEF LogsInv

LEMMA InitMigrationsInv ==
    ASSUME NEW on \in BOOLEAN, M!Init(on) PROVE MigrationsInv
<1>0. AtFirst \subseteq Positions /\ -1 \in Positions /\ Former \in Positions /\ Former \in Nat
  BY MigrationsAssumption DEF Positions
<1>1. PICK k \in [M!Databases -> Positions] :
        log = [d \in M!Databases |-> M!Upto(k[d])] /\ schema = [d \in M!Databases |-> 0..k[d]]
  <2>1. [M!Databases -> IF on THEN AtFirst ELSE {-1}] \subseteq [M!Databases -> Positions]
    BY <1>0
  <2>2. PICK k \in [M!Databases -> IF on THEN AtFirst ELSE {-1}] :
          log = [d \in M!Databases |-> M!Upto(k[d])] /\ schema = [d \in M!Databases |-> 0..k[d]]
    BY DEF M!Init
  <2> QED
    BY <2>1, <2>2
<1>a. \A n \in Positions : Len(M!Upto(n)) - 1 = n
  BY UptoIs DEF Positions
<1>2. \A d \in M!Databases : K(d) = k[d]
  BY <1>1, <1>a DEF K
<1>3. LogsInv
  <2>1. \A d \in M!Databases : M!Upto(k[d]) \in Seq(Nat) /\ 0..k[d] \in SUBSET Nat
    BY UptoIs
  <2> QED
    BY <1>1, <1>2, <2>1 DEF LogsInv
<1>4. PICK old \in BOOLEAN :
        /\ old => log["home"] = M!Upto(Former)
        /\ migrator = [p \in Procs |-> IF p > 1 /\ on THEN M!Nobody
                                       ELSE IF old THEN M!Old(Former) ELSE M!Gone]
  BY DEF M!Init
<1>5. /\ M!Nobody \in Migrators /\ MigratorOK(M!Nobody) /\ ~Guarded(M!Nobody)
      /\ M!Gone \in Migrators /\ MigratorOK(M!Gone) /\ ~Guarded(M!Gone)
  <2>1. M!Nobody \in Migrators /\ M!Gone \in Migrators
    BY <1>0 DEF M!Nobody, M!Gone, Migrators, M!Databases, M!Local
  <2>2. ASSUME NEW x \in {M!Nobody, M!Gone} PROVE MigratorOK(x) /\ ~Guarded(x)
    <3>1. x.do = "none" /\ x.at \in {"none", "over"} /\ x.why = "none"
      BY DEF M!Nobody, M!Gone
    <3> QED
      BY <3>1 DEF MigratorOK, Guarded
  <2> QED
    BY <2>1, <2>2
<1>6. old => M!Old(Former) \in Migrators /\ MigratorOK(M!Old(Former)) /\ ~Guarded(M!Old(Former))
  <2>1. M!Old(Former) \in Migrators
    BY <1>0 DEF M!Old, M!Nobody, Migrators, M!Databases, M!Local, Heads
  <2>2. old => K("home") = Former
    BY <1>0, <1>4, <1>a DEF K
  <2>3. Former <= Former
    BY <1>0
  <2> QED
    BY <2>1, <2>2, <2>3 DEF M!Old, M!Nobody, MigratorOK, Guarded, Heads
<1>7. \A p \in Procs : migrator[p] \in {M!Nobody, M!Gone} \/ (old /\ migrator[p] = M!Old(Former))
  BY <1>4
<1>8. migrator \in [Procs -> Migrators]
  <2>1. \E f : migrator = [p \in Procs |-> f[p]]
    BY <1>4
  <2> QED
    BY <1>5, <1>6, <1>7, <2>1
<1> QED
  BY <1>3, <1>5, <1>6, <1>7, <1>8 DEF MigrationsInv, M!Init

\* Nothing a migrator knows of a log becomes wrong.
LogsGrow ==
    /\ \A d \in M!Databases : K(d) <= K(d)' /\ (K(d)' # K(d) => K(d)' \in Heads)
    /\ "foreign" \in rowsIn' => "foreign" \in rowsIn

LEMMA LogsStand ==
    ASSUME LogsInv, UNCHANGED <<log, schema>>, "foreign" \in rowsIn' => "foreign" \in rowsIn
    PROVE  LogsInv' /\ LogsGrow
<1>1. \A d \in M!Databases : K(d)' = K(d) /\ K(d) \in Positions
  BY LogsAre DEF K
<1>2. \A d \in M!Databases : K(d) <= K(d)'
  BY <1>1 DEF Positions
<1> QED
  BY <1>1, <1>2 DEF LogsInv, LogsGrow

LEMMA MigratorStays ==
    ASSUME LogsInv, LogsInv', LogsGrow, NEW x \in Migrators, MigratorOK(x) PROVE MigratorOK(x)'
<1>0. /\ x.db \in M!Databases /\ x.last \in Int /\ x.head \in Int
  BY MigrationsAssumption DEF Migrators, Heads, Positions
<1>a. K(x.db) \in Int /\ K(x.db)' \in Int
  BY <1>0 DEF LogsInv, K
<1>1. PICK k \in Int, l \in Int : k = K(x.db) /\ l = K(x.db)'
  BY <1>a
<1>2. k <= l /\ (l # k => l \in Heads)
  BY <1>0, <1>1 DEF LogsGrow
<1>3. x.last <= k => x.last <= l
  BY <1>0, <1>2
<1>4. (x.last < k => x.last < l) /\ (x.head <= k => x.head <= l)
  BY <1>0, <1>2
<1>5. x.last # l /\ x.last <= k => l \in Heads \/ x.last # k
  BY <1>2
<1> QED
  BY <1>1, <1>2, <1>3, <1>4, <1>5 DEF MigratorOK, LogsGrow

\* One migrator goes on, the others wait.
LEMMA MigratorGoes ==
    ASSUME MigrationsInv, LogsInv', LogsGrow, NEW p \in Procs, NEW y \in Migrators,
           MigratorOK(y)', migrator' = [migrator EXCEPT ![p] = y], ~intruded',
           Watched(y) => y.head = Latest \/ (Watched(migrator[p]) /\ y.head = migrator[p].head),
           Guarded(y) => Guarded(migrator[p]) \/ \A q \in Procs : ~Watched(migrator[q])
    PROVE  MigrationsInv'
<1>0. /\ LogsInv /\ migrator \in [Procs -> Migrators]
      /\ \A q \in Procs : migrator[q] \in Migrators /\ MigratorOK(migrator[q])
  BY DEF MigrationsInv
<1>1. migrator' \in [Procs -> Migrators] /\ \A q \in Procs : migrator'[q] = IF q = p THEN y ELSE migrator[q]
  BY <1>0
<1>2. ASSUME NEW q \in Procs PROVE MigratorOK(migrator[q])'
  <2>1. PICK x \in Migrators : x = migrator[q] /\ MigratorOK(x)
    BY <1>0
  <2>2. MigratorOK(x)'
    BY <1>0, <2>1, MigratorStays
  <2>3. migrator'[q] = IF q = p THEN y ELSE x
    BY <1>1, <2>1
  <2> QED
    BY <2>2, <2>3
<1>3. ASSUME NEW q \in Procs, NEW r \in Procs, Guarded(migrator'[q]), Watched(migrator'[r])
      PROVE  migrator'[r].head = Latest
  <2>1. q # r
    BY <1>3 DEF Guarded, Watched
  <2> QED
    BY <1>1, <1>3, <2>1 DEF MigrationsInv
<1> QED
  BY <1>1, <1>2, <1>3 DEF MigrationsInv, Guarded, Watched

\* It knows nothing new, or what was so before.
LEMMA MigratorLearns ==
    ASSUME MigrationsInv, UNCHANGED <<log, schema, rowsIn, intruded>>,
           NEW p \in Procs, NEW y \in Migrators,
           MigratorOK(y), migrator' = [migrator EXCEPT ![p] = y],
           Watched(y) => y.head = Latest \/ (Watched(migrator[p]) /\ y.head = migrator[p].head),
           Guarded(y) => Guarded(migrator[p]) \/ \A q \in Procs : ~Watched(migrator[q])
    PROVE  MigrationsInv'
<1>1. LogsInv /\ LogsInv' /\ LogsGrow /\ ~intruded'
  BY LogsStand DEF MigrationsInv
<1>2. MigratorOK(y)'
  BY <1>1, MigratorStays
<1> QED
  BY <1>1, <1>2, MigratorGoes

LEMMA RunsKeepInv ==
    ASSUME MigrationsInv, NEW p \in Procs,
           M!Boots(p) \/ M!BootsOld(p) \/ M!Inits(p) \/ M!Migrates(p) \/ M!MigratesCloud(p)
    PROVE  MigrationsInv'
<1> DEFINE Fresh == {r \in Migrators : /\ r.at \in {"guard", "preflight", "open"} /\ r.head \in Heads
                                       /\ r.do = "migrate" => r.head = Latest
                                       /\ r.at = "guard" => r.do = "migrate"
                                       /\ r.do = "cloud" <=> r.at = "preflight"
                                       /\ r.do # "none" /\ r.why = "none"
                                       /\ r.pid => r.head = Latest
                                       /\ r.do = "migrate" /\ ~r.forced /\ r.at = "open" => r.dry}
<1>0. 0 \in Nat /\ Latest \in Heads /\ Former \in Heads /\ -1 \in Positions
      /\ "home" \in M!Databases /\ "cloud" \in M!Databases
  BY DEF Heads, Positions, M!Databases, M!Local
<1>1. ASSUME NEW r \in Fresh, M!Runs(p, r) PROVE MigrationsInv'
  <2>1. /\ r \in Migrators /\ r.at \in {"guard", "preflight", "open"} /\ r.head \in Heads
        /\ r.do = "migrate" => r.head = Latest
        /\ r.at = "guard" => r.do = "migrate"
        /\ r.do = "cloud" <=> r.at = "preflight"
        /\ r.why = "none" /\ (r.pid => r.head = Latest)
        /\ r.do = "migrate" /\ ~r.forced /\ r.at = "open" => r.dry
    OBVIOUS
  <2> HIDE DEF Fresh
  <2>2. MigratorOK(r)
    BY <2>1 DEF MigratorOK
  <2>3. (Watched(r) => r.head = Latest) /\ ~Guarded(r)
    BY <2>1 DEF Watched, Guarded
  <2> QED
    BY <1>1, <2>1, <2>2, <2>3, MigratorLearns DEF M!Runs
<1>2. ASSUME NEW pid \in BOOLEAN, NEW vec \in {"ok", "missing", "required"}, NEW d \in M!Databases
      PROVE  [M!Nobody EXCEPT !.do = "daemon", !.head = Latest, !.at = "open", !.pid = pid,
                              !.vec = vec, !.db = d] \in Fresh
  BY <1>0 DEF M!Nobody, Migrators
<1>3. [M!Nobody EXCEPT !.do = "daemon", !.head = Former, !.at = "open"] \in Fresh
  BY <1>0 DEF M!Nobody, Migrators
<1>4. [M!Nobody EXCEPT !.do = "init", !.head = Latest, !.at = "open"] \in Fresh
  BY <1>0 DEF M!Nobody, Migrators
<1>5. ASSUME NEW forced \in BOOLEAN, NEW dry \in BOOLEAN
      PROVE  [M!Nobody EXCEPT !.do = "migrate", !.head = Latest, !.forced = forced, !.dry = dry,
                              !.at = IF forced \/ dry THEN "open" ELSE "guard"] \in Fresh
  <2>1. CASE forced \/ dry
    BY <1>0, <2>1 DEF M!Nobody, Migrators
  <2>2. CASE ~(forced \/ dry)
    BY <1>0, <2>2 DEF M!Nobody, Migrators
  <2> QED
    BY <2>1, <2>2
<1>6. ASSUME NEW dry \in BOOLEAN
      PROVE  [M!Nobody EXCEPT !.do = "cloud", !.db = "cloud", !.head = Latest, !.dry = dry,
                              !.at = "preflight"] \in Fresh
  BY <1>0 DEF M!Nobody, Migrators
<1> HIDE DEF Fresh
<1>7. CASE M!Boots(p)
  BY <1>1, <1>2, <1>7, PathIsLocal DEF M!Boots
<1>8. CASE M!Migrates(p)
  BY <1>1, <1>5, <1>8 DEF M!Migrates
<1>9. CASE M!MigratesCloud(p)
  BY <1>1, <1>6, <1>9 DEF M!MigratesCloud
<1> QED
  BY <1>1, <1>3, <1>4, <1>7, <1>8, <1>9 DEF M!BootsOld, M!Inits

\* A migrator that is over, killed or refused.
LEMMA FailsKeepsInv ==
    ASSUME MigrationsInv, UNCHANGED <<log, schema, rowsIn, intruded>>,
           NEW p \in Procs, NEW why \in {"dry", "refused", "vector", "busy", "killed"}, M!Fails(p, why)
    PROVE  MigrationsInv'
<1>0. 0 \in Nat /\ -1 \in Positions /\ "home" \in M!Databases
  BY DEF Positions, M!Databases, M!Local
<1>1. M!Gone \in Migrators
  BY <1>0 DEF M!Gone, M!Nobody, Migrators
<1>2. M!Gone.do = "none" /\ M!Gone.at = "over" /\ M!Gone.why = "none"
  BY DEF M!Gone, M!Nobody
<1>3. MigratorOK(M!Gone) /\ ~Watched(M!Gone) /\ ~Guarded(M!Gone)
  BY <1>2 DEF MigratorOK, Watched, Guarded
<1>4. migrator' = [migrator EXCEPT ![p] = M!Gone]
  BY DEF M!Fails
<1> QED
  BY <1>1, <1>3, <1>4, MigratorLearns

LEMMA AsksKeepInv ==
    ASSUME MigrationsInv, NEW p \in Procs,
           M!Guard(p) \/ M!Preflight(p) \/ M!EnsurePgVector(p) \/ M!Open(p) \/ M!Crash(p)
    PROVE  MigrationsInv'
<1>0. /\ migrator \in [Procs -> Migrators]
      /\ UNCHANGED <<log, schema, rowsIn, intruded>>
  BY DEF MigrationsInv, M!Guard, M!Preflight, M!EnsurePgVector, M!Open, M!Crash, M!Keeps
<1>a. PICK x \in Migrators : x = migrator[p] /\ MigratorOK(x)
  BY DEF MigrationsInv
<1>1. ASSUME NEW why \in {"dry", "refused", "vector", "busy", "killed"}, M!Fails(p, why)
      PROVE  MigrationsInv'
  BY <1>0, <1>1, FailsKeepsInv
<1>2. CASE migrator[p].at = "guard" /\ M!MayMigrate(M!Tracked) /\ M!Goes(p, "open")
  <2> DEFINE y == [x EXCEPT !.at = "open"]
  <2>1. x.at = "guard" /\ x.do = "migrate" /\ migrator' = [migrator EXCEPT ![p] = y]
    BY <1>a, <1>2 DEF M!Goes, MigratorOK
  <2>2. y \in Migrators /\ MigratorOK(y) /\ ~Watched(y)
    BY <1>a, <2>1 DEF Migrators, MigratorOK, Watched
  <2>3. \A q \in Procs : ~Watched(migrator[q])
    BY <1>2 DEF M!MayMigrate, M!Tracked, Watched
  <2> QED
    BY <1>0, <2>1, <2>2, <2>3, MigratorLearns
<1>3. CASE migrator[p].at = "preflight" /\ M!Unexpected(rowsIn) = {} /\ M!Goes(p, "extend")
  <2> DEFINE y == [x EXCEPT !.at = "extend"]
  <2>1. x.at = "preflight" /\ migrator' = [migrator EXCEPT ![p] = y] /\ "foreign" \notin rowsIn
    BY <1>a, <1>3 DEF M!Goes, M!Unexpected
  <2>2. y \in Migrators /\ MigratorOK(y) /\ ~Watched(y) /\ ~Guarded(y)
    BY <1>a, <2>1 DEF Migrators, MigratorOK, Watched, Guarded
  <2> QED
    BY <1>0, <2>1, <2>2, MigratorLearns
<1>4. CASE /\ migrator[p].at = "extend" \/ (migrator[p].at = "open" /\ ~migrator[p].dry)
           /\ M!Goes(p, "read")
  <2> DEFINE y == [x EXCEPT !.at = "read"]
  <2>1. /\ (x.at = "extend" /\ x.do = "cloud") \/ (x.at = "open" /\ ~x.dry)
        /\ migrator' = [migrator EXCEPT ![p] = y]
    BY <1>a, <1>4 DEF M!Goes, MigratorOK
  <2>2. y \in Migrators /\ MigratorOK(y) /\ y.head = x.head
    BY <1>a, <2>1 DEF Migrators, MigratorOK
  <2>3. (Watched(y) => Watched(x)) /\ (Guarded(y) => Guarded(x))
    BY <1>a, <2>1 DEF Migrators, Watched, Guarded
  <2> QED
    BY <1>0, <1>a, <2>1, <2>2, <2>3, MigratorLearns
<1>5. CASE M!Guard(p)
  BY <1>1, <1>2, <1>5 DEF M!Guard
<1>6. CASE M!Preflight(p)
  BY <1>1, <1>3, <1>6 DEF M!Preflight
<1>7. CASE M!EnsurePgVector(p)
  BY <1>1, <1>4, <1>7 DEF M!EnsurePgVector
<1>8. CASE M!Open(p)
  BY <1>1, <1>4, <1>8 DEF M!Open
<1> QED
  BY <1>1, <1>5, <1>6, <1>7, <1>8 DEF M!Crash

\* A migrator that does not run: it says how it ended.
EndOf(x, total) == [M!Nobody EXCEPT !.do = x.do, !.db = x.db, !.head = x.head,
                                    !.pid = x.pid, !.total = total,
                                    !.at = IF x.do = "daemon" THEN "serving" ELSE "done"]

LEMMA EndIs ==
    ASSUME NEW x \in Migrators, NEW total \in Nat, x.at \in {"begin", "txn"}, MigratorOK(x),
           NEW y, y = EndOf(x, total)
    PROVE  /\ y \in Migrators /\ ~Guarded(y) /\ (Watched(y) => Watched(x) /\ y.head = x.head)
           /\ y.do = x.do /\ y.db = x.db /\ y.head = x.head /\ y.total = total /\ y.why = "none"
           /\ y.at \in {"serving", "done"} /\ y.head \in Heads
<1>0. 0 \in Nat /\ -1 \in Positions
  BY DEF Positions
<1>1. /\ y.do = x.do /\ y.db = x.db /\ y.head = x.head /\ y.total = total /\ y.why = "none"
      /\ y.pid = x.pid /\ y.at = IF x.do = "daemon" THEN "serving" ELSE "done"
  BY DEF M!Nobody, EndOf
<1>2. y \in Migrators
  BY <1>0 DEF M!Nobody, Migrators, EndOf
<1>3. ~Guarded(y) /\ (Watched(y) => Watched(x))
  BY <1>1 DEF Guarded, Watched
<1>4. x.head \in Heads
  BY DEF MigratorOK
<1> QED
  BY <1>1, <1>2, <1>3, <1>4

LEMMA ReadLastKeepsInv ==
    ASSUME MigrationsInv, NEW p \in Procs, M!ReadLast(p) PROVE MigrationsInv'
<1>0. LogsInv /\ UNCHANGED <<log, schema, rowsIn, intruded>>
  BY DEF MigrationsInv, M!ReadLast, M!Keeps
<1>a. PICK x \in Migrators : x = migrator[p] /\ MigratorOK(x)
  BY DEF MigrationsInv
<1>b. x.at = "read" /\ x.db \in M!Databases
  BY <1>a DEF M!ReadLast, Migrators
<1>1. PICK k \in Positions : k = K(x.db) /\ M!Newest(log[x.db]) = k
  BY <1>0, <1>b, LogsAre
<1> DEFINE y == [x EXCEPT !.at = "begin", !.last = k]
<1>2. migrator' = [migrator EXCEPT ![p] = y]
  <2>1. migrator' = [migrator EXCEPT ![p] = [migrator[p] EXCEPT !.at = "begin",
                                               !.last = M!Newest(log[migrator[p].db])]]
    BY DEF M!ReadLast
  <2> QED
    BY <1>a, <1>1, <2>1
<1>3. y \in Migrators /\ y.db = x.db /\ y.last = k /\ y.at = "begin" /\ y.do = x.do
      /\ y.head = x.head /\ y.why = x.why /\ y.pid = x.pid /\ y.forced = x.forced
  BY <1>1 DEF Migrators
<1> HIDE DEF y
<1>4. k <= k
  BY <1>1 DEF Positions
<1>5. MigratorOK(y)
  BY <1>a, <1>b, <1>1, <1>3, <1>4 DEF MigratorOK
<1>6. (Watched(y) => Watched(x)) /\ (Guarded(y) => Guarded(x))
  BY <1>b, <1>3 DEF Watched, Guarded
<1> QED
  BY <1>0, <1>a, <1>2, <1>3, <1>5, <1>6, MigratorLearns

LEMMA BeginKeepsInv ==
    ASSUME MigrationsInv, NEW p \in Procs, M!Begin(p) PROVE MigrationsInv'
<1>0. LogsInv /\ UNCHANGED <<log, schema, rowsIn, intruded>>
  BY DEF MigrationsInv, M!Begin, M!Keeps
<1>a. PICK x \in Migrators : x = migrator[p] /\ MigratorOK(x)
  BY DEF MigrationsInv
<1>b. x.at = "begin" /\ x.db \in M!Databases /\ x.head \in Heads
  BY <1>a DEF M!Begin, Migrators, MigratorOK
<1>1. PICK k \in Positions : k = K(x.db) /\ Len(log[x.db]) = k + 1
  BY <1>0, <1>b, LogsAre
<1>2. PICK l \in Int, h \in Int : l = x.last /\ h = x.head
  BY <1>a, <1>b, MigrationsAssumption DEF Migrators, Positions, Heads
<1>3. k \in Int /\ k + 1 \in Nat /\ l <= k
  BY <1>a, <1>b, <1>1, <1>2 DEF Positions, MigratorOK
<1>p. M!Pending(p) = (l + 1)..h
  BY <1>a, <1>2 DEF M!Pending
<1>4. CASE M!Pending(p) = {} /\ M!Ends(p, Len(log[migrator[p].db]))
  <2>1. h <= l
    <3>1. l < h => l + 1 \in (l + 1)..h
      BY <1>2
    <3> QED
      BY <1>2, <1>p, <1>4, <3>1
  <2>2. h <= k /\ k + 1 > h
    BY <1>2, <1>3, <2>1
  <2>a. PICK total \in Nat : total = k + 1
    BY <1>3
  <2>b. PICK y : y = EndOf(x, total)
    OBVIOUS
  <2>3. migrator' = [migrator EXCEPT ![p] = y]
    BY <1>a, <1>1, <1>4, <2>a, <2>b DEF M!Ends, EndOf
  <2>4. /\ y \in Migrators /\ ~Guarded(y) /\ (Watched(y) => Watched(x) /\ y.head = x.head)
        /\ y.do = x.do /\ y.db = x.db /\ y.head = x.head /\ y.total = total /\ y.why = "none"
        /\ y.at \in {"serving", "done"} /\ y.head \in Heads
    BY <1>a, <1>b, <2>a, <2>b, EndIs
  <2>5. MigratorOK(y)
    <3>1. y.do = "migrate" => y.head = Latest
      BY <1>a, <2>4 DEF MigratorOK
    <3>2. y.head <= K(y.db) /\ y.total > y.head
      BY <1>1, <1>2, <2>2, <2>a, <2>4
    <3> QED
      BY <2>4, <3>1, <3>2 DEF MigratorOK
  <2> QED
    BY <1>0, <1>a, <2>3, <2>4, <2>5, MigratorLearns
<1>5. CASE M!Pending(p) # {} /\ M!Goes(p, "txn")
  <2>1. l < h
    <3>1. ~(l < h) => (l + 1)..h = {}
      BY <1>2
    <3> QED
      BY <1>p, <1>5, <3>1
  <2> DEFINE y == [x EXCEPT !.at = "txn"]
  <2>2. migrator' = [migrator EXCEPT ![p] = y]
    BY <1>a, <1>5 DEF M!Goes
  <2>3. y \in Migrators /\ y.db = x.db /\ y.last = x.last /\ y.at = "txn" /\ y.do = x.do
        /\ y.head = x.head /\ y.why = x.why /\ y.pid = x.pid /\ y.forced = x.forced
    BY DEF Migrators
  <2> HIDE DEF y
  <2>4. MigratorOK(y)
    BY <1>a, <1>b, <1>2, <2>1, <2>3 DEF MigratorOK
  <2>5. (Watched(y) => Watched(x)) /\ (Guarded(y) => Guarded(x))
    BY <1>b, <2>3 DEF Watched, Guarded
  <2> QED
    BY <1>0, <1>a, <2>2, <2>3, <2>4, <2>5, MigratorLearns
<1>6. CASE M!Fails(p, "busy")
  BY <1>0, <1>6, FailsKeepsInv
<1> QED
  BY <1>4, <1>5, <1>6 DEF M!Begin

LEMMA RollbackKeepsInv ==
    ASSUME MigrationsInv, NEW p \in Procs, M!Rollback(p) PROVE MigrationsInv'
<1>0. LogsInv /\ UNCHANGED <<log, schema, rowsIn, intruded>>
  BY DEF MigrationsInv, M!Rollback, M!Keeps
<1>a. PICK x \in Migrators : x = migrator[p] /\ MigratorOK(x)
  BY DEF MigrationsInv
<1>b. x.at = "txn" /\ x.db \in M!Databases /\ x.head \in Heads
  BY <1>a DEF M!Rollback, Migrators, MigratorOK
<1>1. PICK k \in Positions : k = K(x.db) /\ schema[x.db] = 0..k
  BY <1>0, <1>b, LogsAre DEF LogsInv
<1>2. PICK l \in Int, h \in Int : l = x.last /\ h = x.head
  BY <1>a, <1>b, MigrationsAssumption DEF Migrators, Positions, Heads
<1>3. k \in Int /\ l < h
  BY <1>a, <1>b, <1>1, <1>2 DEF Positions, MigratorOK
<1>4. CASE (\E m \in M!Pending(p) : M!Collides(m, migrator[p].db)) /\ M!Fails(p, "replayed")
  <2>1. PICK m \in (l + 1)..h : m \in 0..k
    BY <1>a, <1>1, <1>2, <1>4 DEF M!Pending, M!Collides
  <2>2. l < k
    BY <1>2, <1>3, <2>1
  <2> DEFINE y == [x EXCEPT !.at = "failed", !.why = "replayed"]
  <2>3. migrator' = [migrator EXCEPT ![p] = y]
    BY <1>a, <1>4 DEF M!Fails
  <2>4. y \in Migrators /\ y.db = x.db /\ y.last = x.last /\ y.at = "failed" /\ y.do = x.do
        /\ y.head = x.head /\ y.why = "replayed"
    BY DEF Migrators
  <2> HIDE DEF y
  <2>5. MigratorOK(y) /\ ~Watched(y) /\ ~Guarded(y)
    BY <1>a, <1>b, <1>1, <1>2, <1>3, <2>2, <2>4 DEF MigratorOK, Watched, Guarded
  <2> QED
    BY <1>0, <2>3, <2>4, <2>5, MigratorLearns
<1>5. CASE M!Fails(p, "vector")
  BY <1>0, <1>5, FailsKeepsInv
<1> QED
  BY <1>4, <1>5 DEF M!Rollback

\* A transaction that commits began at the newest migration: on any other, the head of a
\* package that came meanwhile would run again, and fail.
LEMMA CommitKeepsInv ==
    ASSUME MigrationsInv, NEW p \in Procs, M!Commit(p) PROVE MigrationsInv'
<1>0. LogsInv /\ ~intruded /\ UNCHANGED rowsIn
  BY DEF MigrationsInv, M!Commit, M!Keeps
<1>a. PICK x \in Migrators : x = migrator[p] /\ MigratorOK(x)
  BY DEF MigrationsInv
<1>b. x.at = "txn" /\ x.head \in Heads
  BY <1>a DEF M!Commit, MigratorOK
<1>c. PICK d \in M!Databases : d = x.db
  BY <1>a DEF Migrators
<1>1. PICK k \in Positions : k = K(d) /\ schema[d] = 0..k /\ log[d] = M!Upto(k)
  BY <1>0, LogsAre DEF LogsInv
<1>2. PICK l \in Positions, h \in Nat : l = x.last /\ h = x.head
  BY <1>a, <1>b, MigrationsAssumption DEF Migrators, Heads
<1>3. /\ k \in Int /\ k >= -1 /\ l \in Int /\ l >= -1 /\ l < h /\ l <= k
      /\ l # k => k \in Heads
  BY <1>a, <1>b, <1>c, <1>1, <1>2 DEF Positions, MigratorOK
<1>4. M!Pending(p) = (l + 1)..h
  BY <1>a, <1>2 DEF M!Pending
<1>5. \A m \in (l + 1)..h : m \notin Heads \/ m \notin 0..k
  <2>1. \A m \in (l + 1)..h : ~M!Collides(m, d)
    BY <1>a, <1>c, <1>4 DEF M!Commit
  <2>2. \A m \in Heads : m \notin Replayable
    BY MigrationsAssumption DEF Heads
  <2> QED
    BY <1>1, <2>1, <2>2 DEF M!Collides
<1>6. k < h
  <2>1. h \in (l + 1)..h /\ h \in Heads
    BY <1>b, <1>2, <1>3
  <2>2. h \notin 0..k
    BY <1>5, <2>1
  <2> QED
    BY <1>2, <1>3, <2>2
<1>7. l = k
  <2>1. SUFFICES ASSUME l # k PROVE FALSE
    OBVIOUS
  <2>2. k \in (l + 1)..h /\ k \in 0..k /\ k \in Heads
    BY <1>2, <1>3, <1>6, <2>1
  <2> QED
    BY <1>5, <2>2
<1>8. log' = [log EXCEPT ![d] = M!Upto(h)] /\ schema' = [schema EXCEPT ![d] = 0..h]
  <2>1. M!Upto(k) \o [i \in 1..M!Cardinality((k + 1)..h) |-> k + i] = M!Upto(h)
    BY <1>1, <1>2, <1>6, UptoGrows
  <2>2. 0..k \cup (k + 1)..h = 0..h
    BY <1>2, <1>3, <1>6
  <2>3. log' = [log EXCEPT ![d] = log[d] \o [i \in 1..M!Cardinality(M!Pending(p)) |-> migrator[p].last + i]]
    BY <1>a, <1>c DEF M!Commit
  <2>4. log' = [log EXCEPT ![d] = M!Upto(k) \o [i \in 1..M!Cardinality((k + 1)..h) |-> k + i]]
    BY <1>a, <1>1, <1>2, <1>4, <1>7, <2>3
  <2>5. schema' = [schema EXCEPT ![d] = schema[d] \cup M!Pending(p)]
    BY <1>a, <1>c DEF M!Commit
  <2> QED
    BY <1>1, <1>4, <1>7, <2>1, <2>2, <2>4, <2>5
<1>9. /\ log' \in [M!Databases -> Seq(Nat)] /\ schema' \in [M!Databases -> SUBSET Nat]
      /\ log'[d] = M!Upto(h) /\ schema'[d] = 0..h /\ Len(log'[d]) = h + 1
      /\ \A e \in M!Databases : e # d => log'[e] = log[e] /\ schema'[e] = schema[e]
  <2>1. h \in Positions
    BY <1>2 DEF Positions
  <2>2. M!Upto(h) \in Seq(Nat) /\ Len(M!Upto(h)) = h + 1 /\ 0..h \in SUBSET Nat
    BY <2>1, UptoIs
  <2> QED
    BY <1>0, <1>8, <2>2 DEF LogsInv
<1>10. K(d)' = h /\ \A e \in M!Databases : e # d => K(e)' = K(e)
  <2>1. (h + 1) - 1 = h
    BY <1>2
  <2> QED
    BY <1>9, <2>1 DEF K
<1>11. LogsInv'
  BY <1>0, <1>9, <1>10 DEF LogsInv
<1>12. LogsGrow
  <2>1. \A e \in M!Databases : K(e) \in Int
    BY <1>0, LogsAre DEF Positions
  <2>2. K(d) <= K(d)' /\ K(d)' \in Heads
    BY <1>b, <1>1, <1>2, <1>3, <1>6, <1>10
  <2> QED
    BY <1>0, <1>10, <2>1, <2>2 DEF LogsGrow
<1>13. ~intruded'
  <2>1. ~(x.do = "cloud" /\ "foreign" \in rowsIn)
    BY <1>a, <1>b DEF MigratorOK
  <2>2. ASSUME x.do = "migrate", ~x.forced, NEW q \in M!Tracked,
               migrator[q].db = d, migrator[q].at = "serving"
        PROVE  FALSE
    <3>1. PICK z \in Migrators : z = migrator[q] /\ MigratorOK(z)
      BY <2>2 DEF MigrationsInv, M!Tracked
    <3>2. Guarded(x) /\ Watched(z)
      BY <1>b, <2>2, <3>1 DEF Guarded, Watched, M!Tracked
    <3>3. z.head = Latest
      BY <1>a, <2>2, <3>1, <3>2 DEF MigrationsInv, M!Tracked
    <3>4. Latest <= k
      BY <1>1, <2>2, <3>1, <3>3 DEF MigratorOK
    <3>5. h = Latest
      BY <1>a, <1>2, <2>2 DEF MigratorOK
    <3> QED
      BY <1>2, <1>3, <1>6, <3>4, <3>5
  <2>3. intruded' <=> \/ intruded
                      \/ x.do = "cloud" /\ "foreign" \in rowsIn
                      \/ /\ x.do = "migrate" /\ ~x.forced
                         /\ \E q \in M!Tracked : migrator[q].db = d /\ migrator[q].at = "serving"
    BY <1>a, <1>c DEF M!Commit
  <2> QED
    BY <1>0, <2>1, <2>2, <2>3
<1>14. PICK total \in Nat : total = h + 1
  BY <1>2
<1>y. PICK y : y = EndOf(x, total)
  OBVIOUS
<1>15. migrator' = [migrator EXCEPT ![p] = y]
  BY <1>a, <1>c, <1>9, <1>14, <1>y DEF M!Commit, M!Ends, EndOf
<1>16. /\ y \in Migrators /\ ~Guarded(y) /\ (Watched(y) => Watched(x) /\ y.head = x.head)
       /\ y.do = x.do /\ y.db = x.db /\ y.head = x.head /\ y.total = total /\ y.why = "none"
       /\ y.at \in {"serving", "done"} /\ y.head \in Heads
  BY <1>a, <1>b, <1>14, <1>y, EndIs
<1>17. MigratorOK(y)'
  <2>1. y.do = "migrate" => y.head = Latest
    BY <1>a, <1>16 DEF MigratorOK
  <2>2. K(y.db)' = h /\ h <= h /\ y.head = h /\ y.total > y.head
    BY <1>c, <1>2, <1>10, <1>14, <1>16
  <2> QED
    BY <1>16, <2>1, <2>2 DEF MigratorOK
<1> QED
  BY <1>a, <1>11, <1>12, <1>13, <1>15, <1>16, <1>17, MigratorGoes

LEMMA NextMigrationsInv ==
    ASSUME MigrationsInv, [WorkNext]_workVars PROVE MigrationsInv'
<1>1. CASE UNCHANGED migrationsVars
  BY <1>1 DEF migrationsVars, MigrationsInv, LogsInv, MigratorOK, Watched, Guarded, K
<1>2. CASE M!Next
  <2>1. CASE M!TeamPauses
    <3>1. /\ UNCHANGED <<log, schema, migrator, intruded>> /\ LogsInv
          /\ "foreign" \in rowsIn' => "foreign" \in rowsIn
      BY <2>1 DEF M!TeamPauses, MigrationsInv
    <3>2. LogsInv' /\ LogsGrow
      BY <3>1, LogsStand
    <3>3. ASSUME NEW p \in Procs PROVE MigratorOK(migrator[p])'
      <4>1. PICK x \in Migrators : x = migrator[p] /\ MigratorOK(x)
        BY DEF MigrationsInv
      <4>2. MigratorOK(x)'
        BY <3>1, <3>2, <4>1, MigratorStays
      <4> QED
        BY <3>1, <4>1, <4>2
    <3> QED
      BY <3>1, <3>2, <3>3 DEF MigrationsInv, Watched, Guarded
  <2>2. CASE ~M!TeamPauses
    BY <1>2, <2>2, RunsKeepInv, AsksKeepInv, ReadLastKeepsInv, BeginKeepsInv, RollbackKeepsInv,
       CommitKeepsInv DEF M!Next
  <2> QED
    BY <2>1, <2>2
<1> QED
  BY <1>1, <1>2 DEF WorkNext, Among, workVars

LEMMA MigrationsInvSuffices ==
    ASSUME MigrationsInv PROVE M!MigrationsAreSound
<1>0. LogsInv /\ ~intruded
  BY DEF MigrationsInv
<1>1. M!LogIsSchema
  <2>1. ASSUME NEW d \in M!Databases
        PROVE  log[d] = M!Upto(Len(log[d]) - 1) /\ M!Range(log[d]) = schema[d]
    <3>1. K(d) \in Positions /\ log[d] = M!Upto(K(d)) /\ schema[d] = 0..K(d)
      BY <1>0, LogsAre DEF LogsInv
    <3>2. M!Range(M!Upto(K(d))) = 0..K(d)
      BY <3>1, UptoIs
    <3>3. log[d] = M!Upto(Len(log[d]) - 1)
      BY <3>1 DEF K
    <3> QED
      BY <3>1, <3>2, <3>3
  <2> QED
    BY <2>1 DEF M!LogIsSchema
<1>2. ASSUME NEW p \in Procs
      PROVE  /\ migrator[p].at = "serving" => 0..migrator[p].head \subseteq schema[migrator[p].db]
             /\ migrator[p].why = "replayed" =>
                    M!Pending(p) \cap 0..M!Newest(log[migrator[p].db]) # {}
             /\ migrator[p].do = "migrate" /\ migrator[p].at = "done"
                    => migrator[p].total > migrator[p].head
  <2>1. PICK x \in Migrators : x = migrator[p] /\ MigratorOK(x)
    BY DEF MigrationsInv
  <2>2. PICK k \in Positions : k = K(x.db) /\ schema[x.db] = 0..k /\ M!Newest(log[x.db]) = k
    <3>1. x.db \in M!Databases
      BY DEF Migrators
    <3> QED
      BY <1>0, <3>1, LogsAre DEF LogsInv
  <2>3. PICK h \in Int, l \in Positions : h = x.head /\ l = x.last
    BY MigrationsAssumption DEF Migrators, Heads
  <2>4. CASE x.at = "serving"
    <3>1. h <= k
      BY <2>1, <2>2, <2>3, <2>4 DEF MigratorOK
    <3>2. 0..h \subseteq 0..k
      BY <2>2, <2>3, <3>1 DEF Positions
    <3>3. x.why # "replayed" /\ ~(x.do = "migrate" /\ x.at = "done")
      BY <2>1, <2>4 DEF MigratorOK
    <3> QED
      BY <2>1, <2>2, <2>3, <3>2, <3>3
  <2>5. CASE x.why = "replayed"
    <3>1. l < h /\ l < k /\ x.at = "failed"
      BY <2>1, <2>2, <2>3, <2>5 DEF MigratorOK
    <3>2. l + 1 \in (l + 1)..h /\ l + 1 \in 0..k
      BY <2>2, <2>3, <3>1 DEF Positions
    <3>3. M!Pending(p) = (l + 1)..h
      BY <2>1, <2>3 DEF M!Pending
    <3> QED
      BY <2>1, <2>2, <3>1, <3>2, <3>3
  <2>6. CASE x.at # "serving" /\ x.why # "replayed"
    BY <2>1, <2>6 DEF MigratorOK
  <2> QED
    BY <2>4, <2>5, <2>6
<1> QED
  BY <1>0, <1>1, <1>2 DEF M!MigrationsAreSound, M!ServesOnItsSchema,
     M!LosersAreCured, M!TotalIsHead

-----------------------------------------------------------------------------
(* The lock of hand-written migrations.                                     *)

\* The greatest of some numbers up to n.
LEMMA GreatestIsThere ==
    ASSUME NEW n \in Nat, NEW S \in SUBSET (0..n), S # {} PROVE \E m \in S : \A k \in S : m >= k
<1> DEFINE T == {x \in 0..n : n - x \in S}
<1>1. T \in SUBSET Nat /\ \A k \in S : n - k \in T
  OBVIOUS
<1>2. PICK x \in T : \A y \in T : x <= y
  BY <1>1, LeastIsThere
<1>3. ASSUME NEW k \in S PROVE n - x >= k
  BY <1>1, <1>2
<1> QED
  BY <1>2, <1>3

\* A block is known by the line of its begin: the next marker is its end.
LEMMA BlocksAre ==
    ASSUME NEW f \in Seq(L!LinesOf)
    PROVE  /\ \A b \in L!Blocks(f) : b.line \in 1..Len(f)
           /\ \A b, c \in L!Blocks(f) : b.line = c.line => b = c
<1> DEFINE Block(i, j) == [m |-> f[i].m, sha |-> SubSeq(f, i + 1, j - 1), line |-> i]
<1>1. \A b \in L!Blocks(f) : \E i, j \in L!Marks(f) : L!Encloses(f, i, j) /\ b = Block(i, j)
  BY DEF L!Blocks
<1>2. L!Marks(f) \subseteq 1..Len(f) /\ Len(f) \in Nat
  BY DEF L!Marks
<1>3. \A i, j, k \in L!Marks(f) : L!Encloses(f, i, j) /\ L!Encloses(f, i, k) => j = k
  BY <1>2 DEF L!Encloses
<1>4. \A b \in L!Blocks(f) : b.line \in 1..Len(f)
  BY <1>1, <1>2
<1>5. ASSUME NEW b \in L!Blocks(f), NEW c \in L!Blocks(f), b.line = c.line PROVE b = c
  <2>1. PICK i, j \in L!Marks(f) : L!Encloses(f, i, j) /\ b = Block(i, j)
    BY <1>1
  <2>2. PICK k, l \in L!Marks(f) : L!Encloses(f, k, l) /\ c = Block(k, l)
    BY <1>1
  <2>3. i = k
    BY <1>5, <2>1, <2>2
  <2>4. j = l
    BY <2>1, <2>2, <2>3, <1>3
  <2> QED
    BY <2>1, <2>2, <2>3, <2>4
<1> QED
  BY <1>4, <1>5

\* Of the entries with one marker, new Map keeps the last.
LEMMA ByKeyIs ==
    ASSUME NEW E, NEW n \in Nat, \A e \in E : e.line \in 0..n, NEW d \in E
    PROVE  /\ d.m \in DOMAIN L!ByKey(E) /\ L!ByKey(E)[d.m] \in E /\ L!ByKey(E)[d.m].m = d.m
           /\ DOMAIN L!ByKey(E) = {e.m : e \in E}
<1> DEFINE with == {e \in E : e.m = d.m}
           lines == {e.line : e \in with}
           Last(e) == e.m = d.m /\ \A g \in E : g.m = d.m => g.line <= e.line
<1>1. d \in with /\ lines \in SUBSET (0..n) /\ lines # {}
  OBVIOUS
<1>2. PICK k \in lines : \A l \in lines : k >= l
  BY <1>1, GreatestIsThere
<1>3. PICK e \in with : e.line = k
  BY <1>2
<1>4. e \in E /\ Last(e)
  BY <1>1, <1>2, <1>3
<1>5. L!ByKey(E)[d.m] = CHOOSE e2 \in E : Last(e2)
  BY DEF L!ByKey
<1>6. DOMAIN L!ByKey(E) = {e2.m : e2 \in E}
  BY DEF L!ByKey
<1> HIDE DEF Last
<1>7. (CHOOSE e2 \in E : Last(e2)) \in E /\ Last(CHOOSE e2 \in E : Last(e2))
  BY <1>4
<1>8. Last(CHOOSE e2 \in E : Last(e2)) => (CHOOSE e2 \in E : Last(e2)).m = d.m
  BY DEF Last
<1> QED
  BY <1>5, <1>6, <1>7, <1>8

\* The lock has the blocks of the last --write, with a date for each.
IsLocked(f, date) == locked = L!Blocks(f) /\ lock = {L!Dated(b, date[b]) : b \in locked}

LockInv ==
    /\ sqlFile \in Seq(L!LinesOf) /\ sqlEdits \in Nat
    /\ lock # L!NoLock => \E f \in Seq(L!LinesOf) : \E date \in [locked -> Nat] : IsLocked(f, date)
    /\ lock # L!NoLock /\ ~changed => locked = L!Blocks(sqlFile)
    /\ L!LockHolds

LEMMA InitLockInv == ASSUME NEW on \in BOOLEAN, L!Init(on) PROVE LockInv
<1>1. {L!Sql("x"), L!Begins(1), L!Sql("y"), L!Ends(1)} \subseteq L!LinesOf
  BY LockAssumption DEF L!LinesOf
<1>2. L!Tidy \in Seq(L!LinesOf) /\ <<L!Sql("x")>> \in Seq(L!LinesOf) /\ L!Tidy # <<>>
  BY <1>1 DEF L!Tidy
<1>3. L!Tidy \o Tail(L!Tidy) \in Seq(L!LinesOf) /\ <<>> \in Seq(L!LinesOf)
  BY <1>2
<1> QED
  BY <1>2, <1>3, LockAssumption DEF L!Init, LockInv, L!LockHolds

LEMMA EditsKeepLockInv ==
    ASSUME LockInv, L!Inserts \/ L!Removes \/ L!Regenerates PROVE LockInv'
<1>1. PICK f : L!Edited(f) /\ f \in Seq(L!LinesOf)
  <2>1. CASE L!Inserts
    <3>1. PICK i \in 1..(Len(sqlFile) + 1), l \in L!LinesOf : L!Edited(L!InsertAt(sqlFile, i, l))
      BY <2>1 DEF L!Inserts
    <3>2. L!InsertAt(sqlFile, i, l) \in Seq(L!LinesOf)
      <4>1. SubSeq(sqlFile, 1, i - 1) \in Seq(L!LinesOf) /\ SubSeq(sqlFile, i, Len(sqlFile)) \in Seq(L!LinesOf)
        BY <3>1 DEF LockInv
      <4>2. <<l>> \in Seq(L!LinesOf)
        BY <3>1
      <4> QED
        BY <4>1, <4>2 DEF L!InsertAt
    <3> QED
      BY <3>1, <3>2
  <2>2. CASE L!Removes
    <3>1. PICK i \in 1..Len(sqlFile) : L!Edited(L!RemoveAt(sqlFile, i))
      BY <2>2 DEF L!Removes
    <3>2. SubSeq(sqlFile, 1, i - 1) \in Seq(L!LinesOf) /\ SubSeq(sqlFile, i + 1, Len(sqlFile)) \in Seq(L!LinesOf)
      BY <3>1 DEF LockInv
    <3>3. L!RemoveAt(sqlFile, i) \in Seq(L!LinesOf)
      BY <3>2 DEF L!RemoveAt
    <3> QED
      BY <3>1, <3>3
  <2>3. CASE L!Regenerates
    <3>1. <<L!Sql("x")>> \in Seq(L!LinesOf)
      BY LockAssumption DEF L!LinesOf
    <3> QED
      BY <2>3, <3>1 DEF L!Regenerates
  <2> QED
    BY <2>1, <2>2, <2>3
<1>2. /\ sqlFile' \in Seq(L!LinesOf) /\ sqlEdits' \in Nat /\ changed' /\ lockTold' = "nothing"
      /\ lock' = lock /\ locked' = locked
  BY <1>1 DEF L!Edited, LockInv
<1>3. (\E g \in Seq(L!LinesOf) : \E date \in [locked -> Nat] : IsLocked(g, date))
      => (\E g \in Seq(L!LinesOf) : \E date \in [locked -> Nat] : IsLocked(g, date))'
  BY <1>2 DEF IsLocked
<1> QED
  BY <1>2, <1>3 DEF LockInv, L!LockHolds

\* What the lock has of a marker is a block of that marker, as it was.
LEMMA LockedIs ==
    ASSUME NEW f \in Seq(L!LinesOf), NEW date \in [locked -> Nat], IsLocked(f, date)
    PROVE  /\ DOMAIN L!ByKey(lock) = {b.m : b \in locked}
           /\ \A b \in locked : \E c \in locked : L!ByKey(lock)[b.m] = L!Dated(c, date[c]) /\ c.m = b.m
<1>1. Len(f) \in Nat /\ \A e \in lock : e.line \in 0..Len(f)
  <2>1. Len(f) \in Nat /\ \A b \in locked : b.line \in 1..Len(f)
    BY BlocksAre DEF IsLocked
  <2>2. \A e \in lock : \E b \in locked : e.line = b.line
    BY DEF IsLocked, L!Dated
  <2> QED
    BY <2>1, <2>2
<1>2. {e.m : e \in lock} = {b.m : b \in locked}
  <2>1. \A e \in lock : \E b \in locked : e.m = b.m
    BY DEF IsLocked, L!Dated
  <2>2. \A b \in locked : L!Dated(b, date[b]) \in lock /\ L!Dated(b, date[b]).m = b.m
    BY DEF IsLocked, L!Dated
  <2> QED
    BY <2>1, <2>2
<1>3. ASSUME NEW b \in locked
      PROVE  /\ DOMAIN L!ByKey(lock) = {e.m : e \in lock}
             /\ \E c \in locked : L!ByKey(lock)[b.m] = L!Dated(c, date[c]) /\ c.m = b.m
  <2>1. L!Dated(b, date[b]) \in lock /\ L!Dated(b, date[b]).m = b.m
    BY DEF IsLocked, L!Dated
  <2>2. /\ DOMAIN L!ByKey(lock) = {e.m : e \in lock}
        /\ L!ByKey(lock)[b.m] \in lock /\ L!ByKey(lock)[b.m].m = b.m
    BY <1>1, <2>1, ByKeyIs
  <2>3. PICK c \in locked : L!ByKey(lock)[b.m] = L!Dated(c, date[c])
    BY <2>2 DEF IsLocked
  <2>4. L!Dated(c, date[c]).m = c.m
    BY DEF L!Dated
  <2> QED
    BY <2>2, <2>3, <2>4
<1>4. DOMAIN L!ByKey(lock) = {e.m : e \in lock}
  BY DEF L!ByKey
<1> QED
  BY <1>2, <1>3, <1>4

LEMMA WriteKeepsLockInv == ASSUME LockInv, L!Write PROVE LockInv'
<1> DEFINE f == sqlFile
           previous == L!ByKey(IF lock = L!NoLock THEN {} ELSE lock)
           Same(b) == b.m \in DOMAIN previous /\ previous[b.m].sha = b.sha
           date == [b \in L!Blocks(f) |-> IF Same(b) THEN previous[b.m].at ELSE sqlEdits + 1]
<1>1. /\ f \in Seq(L!LinesOf) /\ sqlEdits \in Nat /\ sqlFile' = f /\ sqlEdits' \in Nat
      /\ locked' = L!Blocks(f) /\ lock' = L!Merged(f) /\ ~changed'
      /\ lockTold' = IF ~changed /\ lock # L!NoLock /\ lock' # lock THEN "churned" ELSE "nothing"
  BY DEF L!Write, LockInv
<1>2. lock' = {L!Dated(b, date[b]) : b \in L!Blocks(f)}
  BY <1>1 DEF L!Merged
<1>3. lock # L!NoLock => /\ previous = L!ByKey(lock)
                         /\ \E g \in Seq(L!LinesOf) : \E then \in [locked -> Nat] : IsLocked(g, then)
  BY DEF LockInv
<1>4. date \in [locked' -> Nat]
  <2>1. CASE lock = L!NoLock
    <3>1. DOMAIN previous = {}
      BY <2>1 DEF L!ByKey
    <3> QED
      BY <1>1, <3>1
  <2>2. CASE lock # L!NoLock
    <3>1. PICK g \in Seq(L!LinesOf), then \in [locked -> Nat] : IsLocked(g, then)
      BY <1>3, <2>2
    <3>2. \A b \in L!Blocks(f) : Same(b) => previous[b.m].at \in Nat
      <4>1. SUFFICES ASSUME NEW b \in L!Blocks(f), b.m \in DOMAIN previous PROVE previous[b.m].at \in Nat
        OBVIOUS
      <4>5. /\ DOMAIN L!ByKey(lock) = {d.m : d \in locked}
            /\ \A d \in locked : \E c \in locked : L!ByKey(lock)[d.m] = L!Dated(c, then[c]) /\ c.m = d.m
        BY <3>1, LockedIs
      <4>6. previous = L!ByKey(lock)
        BY <2>2
      <4> HIDE DEF previous
      <4>2. PICK d \in locked : d.m = b.m
        BY <4>5, <4>6, <4>1
      <4>3. PICK c \in locked : previous[d.m] = L!Dated(c, then[c])
        BY <4>5, <4>6, <4>2
      <4>4. L!Dated(c, then[c]).at = then[c] /\ then[c] \in Nat
        BY <4>3 DEF L!Dated
      <4> QED
        BY <4>2, <4>3, <4>4
    <3> HIDE DEF Same, previous
    <3> QED
      BY <1>1, <3>2
  <2> QED
    BY <2>1, <2>2
<1>5. (lock # L!NoLock => \E g \in Seq(L!LinesOf) : \E d \in [locked -> Nat] : IsLocked(g, d))'
  <2>1. PICK g, d : g = f /\ d = date
    OBVIOUS
  <2> HIDE DEF date
  <2>2. g \in Seq(L!LinesOf) /\ d \in [locked' -> Nat]
    BY <1>1, <1>4, <2>1
  <2>3. locked' = L!Blocks(g) /\ lock' = {L!Dated(b, d[b]) : b \in locked'}
    BY <1>1, <1>2, <2>1
  <2>4. IsLocked(g, d)'
    BY <2>3 DEF IsLocked
  <2> QED
    BY <2>2, <2>4
<1>6. ASSUME lockTold' = "churned", L!Alone(locked') = locked' PROVE FALSE
  <2>1. ~changed /\ lock # L!NoLock /\ lock' # lock
    BY <1>1, <1>6
  <2>2. locked = L!Blocks(f) /\ locked' = locked
    BY <1>1, <2>1 DEF LockInv
  <2>3. PICK g \in Seq(L!LinesOf), then \in [locked -> Nat] : IsLocked(g, then)
    BY <1>3, <2>1
  <2>4. ASSUME NEW b \in locked PROVE date[b] = then[b]
    <3>1. PICK c \in locked : previous[b.m] = L!Dated(c, then[c]) /\ c.m = b.m
      BY <1>3, <2>1, <2>3, LockedIs
    <3>2. c = b
      BY <1>6, <2>2, <3>1 DEF L!Alone
    <3>3. b.m \in DOMAIN previous
      BY <1>3, <2>1, <2>3, LockedIs
    <3>4. previous[b.m].sha = b.sha /\ previous[b.m].at = then[b]
      BY <3>1, <3>2 DEF L!Dated
    <3> HIDE DEF previous
    <3> QED
      BY <2>2, <3>3, <3>4
  <2> HIDE DEF date
  <2> QED
    BY <1>2, <2>1, <2>2, <2>3, <2>4 DEF IsLocked
<1>7. L!LockHolds'
  <2>1. lockTold' # "ok"
    BY <1>1
  <2> HIDE DEF date
  <2> QED
    BY <1>6, <2>1 DEF L!LockHolds, L!Alone
<1> QED
  BY <1>1, <1>5, <1>7 DEF LockInv

LEMMA CheckKeepsLockInv == ASSUME LockInv, L!Check PROVE LockInv'
<1> DEFINE live == L!ByKey(L!Blocks(sqlFile))
           old == L!ByKey(lock)
<1>1. /\ UNCHANGED <<sqlFile, lock, locked, changed, sqlEdits>> /\ sqlFile \in Seq(L!LinesOf)
      /\ lockTold' \in {"refused", "ok", "drift"}
  BY DEF L!Check, LockInv
<1>2. ASSUME lockTold' = "ok"
      PROVE  /\ \A b \in L!Alone(locked) : \E c \in L!Blocks(sqlFile) : L!Same(b, c)
             /\ \A b \in L!Alone(L!Blocks(sqlFile)) : \E c \in locked : L!Same(b, c)
  <2>1. lock # L!NoLock /\ L!Problems(live, old) = {}
    BY <1>2 DEF L!Check
  <2>2. PICK f \in Seq(L!LinesOf), date \in [locked -> Nat] : IsLocked(f, date)
    BY <2>1 DEF LockInv
  <2>3. /\ DOMAIN old = {b.m : b \in locked} /\ DOMAIN live = DOMAIN old
        /\ \A m \in DOMAIN old : live[m].sha = old[m].sha
    BY <2>1, <2>2, LockedIs DEF L!Problems
  <2>4. \A b \in L!Blocks(sqlFile) : live[b.m] \in L!Blocks(sqlFile) /\ live[b.m].m = b.m /\ b.m \in DOMAIN live
    <3>1. Len(sqlFile) \in Nat /\ \A b \in L!Blocks(sqlFile) : b.line \in 0..Len(sqlFile)
      <4>1. \A b \in L!Blocks(sqlFile) : b.line \in 1..Len(sqlFile)
        BY <1>1, BlocksAre
      <4> QED
        BY <1>1, <4>1
    <3> QED
      BY <1>1, <3>1, ByKeyIs
  <2>5. DOMAIN live = {b.m : b \in L!Blocks(sqlFile)}
    BY DEF L!ByKey
  <2>6. \A b \in locked : \E c \in locked : old[b.m] = L!Dated(c, date[c]) /\ c.m = b.m
    BY <2>2, LockedIs
  <2> HIDE DEF live, old
  <2>7. ASSUME NEW b \in L!Alone(locked) PROVE \E c \in L!Blocks(sqlFile) : L!Same(b, c)
    <3>1. b \in locked /\ \A c \in locked : c.m = b.m => c = b
      BY DEF L!Alone
    <3>2. old[b.m].sha = b.sha
      <4>1. old[b.m] = L!Dated(b, date[b])
        BY <2>6, <3>1
      <4> QED
        BY <4>1 DEF L!Dated
    <3>3. PICK c \in L!Blocks(sqlFile) : c.m = b.m
      BY <2>3, <2>5, <3>1
    <3>4. live[b.m] \in L!Blocks(sqlFile) /\ live[b.m].m = b.m /\ live[b.m].sha = b.sha
      BY <2>3, <2>4, <3>1, <3>2, <3>3
    <3> QED
      BY <3>4 DEF L!Same
  <2>8. ASSUME NEW b \in L!Alone(L!Blocks(sqlFile)) PROVE \E c \in locked : L!Same(b, c)
    <3>1. b \in L!Blocks(sqlFile) /\ \A c \in L!Blocks(sqlFile) : c.m = b.m => c = b
      BY DEF L!Alone
    <3>2. live[b.m] = b /\ b.m \in DOMAIN old /\ old[b.m].sha = b.sha
      BY <2>3, <2>4, <3>1
    <3>3. PICK d \in locked : d.m = b.m
      BY <2>3, <3>2
    <3>4. PICK c \in locked : old[b.m] = L!Dated(c, date[c]) /\ c.m = b.m
      BY <2>6, <3>3
    <3> QED
      BY <3>2, <3>4 DEF L!Same, L!Dated
  <2> QED
    BY <2>7, <2>8
<1>3. L!LockHolds'
  BY <1>1, <1>2 DEF L!LockHolds, L!Alone, L!Same
<1>4. (lock # L!NoLock => \E f \in Seq(L!LinesOf) : \E date \in [locked -> Nat] : IsLocked(f, date))'
  BY <1>1 DEF LockInv, IsLocked
<1> QED
  BY <1>1, <1>3, <1>4 DEF LockInv

\* Whatever a contributor or drizzle-kit does to a migration: if the check is ok, no block
\* with a marker of its own was lost, edited or added since --write.
THEOREM LockHolds == WorkSpec => []L!LockHolds
<1>1. WorkInit => LockInv
  BY InitLockInv DEF WorkInit
<1>2. LockInv /\ [WorkNext]_workVars => LockInv'
  <2>1. ASSUME LockInv, UNCHANGED lockVars PROVE LockInv'
    <3>1. (lock # L!NoLock => \E f \in Seq(L!LinesOf) : \E date \in [locked -> Nat] : IsLocked(f, date))'
      BY <2>1 DEF LockInv, IsLocked, lockVars
    <3> QED
      BY <2>1, <3>1 DEF LockInv, lockVars, L!LockHolds, L!Alone, L!Same
  <2>2. [WorkNext]_workVars => L!Next \/ UNCHANGED lockVars
    BY DEF WorkNext, Among, workVars
  <2> QED
    BY <2>1, <2>2, EditsKeepLockInv, WriteKeepsLockInv, CheckKeepsLockInv DEF L!Next
<1>3. LockInv => L!LockHolds
  BY DEF LockInv
<1> QED
  BY <1>1, <1>2, <1>3, PTL DEF WorkSpec

\* Whoever migrates at the same time: the log is what took effect, a daemon serves on all
\* that its package needs, and who lost the race has only to be started again.  And what
\* was written into the migrations by hand is not lost, edited or added unseen.
THEOREM MigrationsHold == WorkSpec => []MigrationsAreSound
<1>1. WorkInit => MigrationsInv
  BY InitMigrationsInv DEF WorkInit
<1>2. MigrationsInv /\ [WorkNext]_workVars => MigrationsInv'
  BY NextMigrationsInv
<1>3. MigrationsInv => M!MigrationsAreSound
  BY MigrationsInvSuffices
<1>4. MigrationsAreSound <=> M!MigrationsAreSound /\ L!LockHolds
  BY DEF MigrationsAreSound
<1> QED
  BY <1>1, <1>2, <1>3, <1>4, LockHolds, PTL DEF WorkSpec

-----------------------------------------------------------------------------
(* Reminder.                                                                *)

\* The events that will remind by the counter there is now.
Asking == {i \in Posts : post[i].at = "pack" /\ ~post[i].old}

ReminderTypes ==
    /\ opened \in BOOLEAN /\ ending \in BOOLEAN /\ restarted \in BOOLEAN /\ nagged \in BOOLEAN
    /\ pack \in {"none", "agent", "bridge_auto"}
    /\ memory \in [n : Nat, fired : BOOLEAN, saved : BOOLEAN]
    /\ post \in [Posts -> [at : {"unsent", "run", "pack", "done"}, late : BOOLEAN, old : BOOLEAN]]
    /\ reminded \in Nat /\ counted \in Nat

\* That a reminder fired is in the memory before it is sent, and is then on its way,
\* sent, or needless; there is one.
ReminderInv ==
    /\ ReminderTypes
    /\ ~nagged /\ reminded <= 1
    /\ counted = memory.n
    /\ \A i \in Posts : /\ post[i].late => pack = "agent"
                        /\ post[i].old => post[i].at \in {"pack", "done"}
    /\ \A i, j \in Asking : i = j
    /\ reminded = 1 => Asking = {}
    /\ ~memory.fired => reminded = 0 /\ Asking = {}
    /\ memory.fired => reminded = 1 \/ pack = "agent" \/ Asking # {}
    /\ memory.saved => pack = "agent"
    /\ memory.n >= Threshold => memory.fired \/ memory.saved

LEMMA InitReminderInv ==
    ASSUME NEW on \in BOOLEAN, N!Init(on) PROVE ReminderInv
<1>1. post = [i \in Posts |-> IF on THEN N!Unsent ELSE [N!Unsent EXCEPT !.at = "done"]]
  BY DEF N!Init
<1>2. \A i \in Posts : /\ post[i] \in [at : {"unsent", "run", "pack", "done"}, late : BOOLEAN, old : BOOLEAN]
                       /\ post[i].at # "pack" /\ ~post[i].old /\ ~post[i].late
  BY <1>1 DEF N!Unsent
<1>3. Asking = {}
  BY <1>2 DEF Asking
<1>4. memory = [n |-> 0, fired |-> FALSE, saved |-> FALSE]
  BY DEF N!Init, N!Forgotten
<1>5. ReminderTypes
  <2>1. opened \in BOOLEAN /\ ending \in BOOLEAN /\ restarted \in BOOLEAN /\ nagged \in BOOLEAN
    BY Zenon DEF N!Init
  <2> QED
    BY <1>1, <1>2, <1>4, <2>1 DEF N!Init, ReminderTypes
<1>6. ~(memory.n >= Threshold)
  BY <1>4, ReminderAssumption
<1> QED
  BY <1>2, <1>3, <1>4, <1>5, <1>6 DEF N!Init, ReminderInv

LEMMA NextReminderInv ==
    ASSUME ReminderInv, [N!Next]_reminderVars PROVE ReminderInv'
<1>0. ReminderTypes /\ Threshold \in Nat \ {0}
  BY ReminderAssumption DEF ReminderInv
<1> USE <1>0
<1>1. CASE UNCHANGED reminderVars
  BY <1>1 DEF reminderVars, ReminderInv, ReminderTypes, Asking
<1>2. CASE N!RunLands \/ N!AgentSaves \/ N!SavesAuto
  <2>1. /\ UNCHANGED <<memory, post, reminded, counted, nagged, restarted>>
        /\ pack = "agent" => pack' = "agent"
        /\ pack' \in {"none", "agent", "bridge_auto"} /\ opened' \in BOOLEAN /\ ending' \in BOOLEAN
    BY <1>2 DEF N!RunLands, N!AgentSaves, N!SavesAuto, ReminderTypes
  <2> QED
    BY <2>1 DEF ReminderInv, ReminderTypes, Asking
<1>3. CASE N!Ends \/ N!Restarts
  <2>1. ASSUME NEW i \in Posts
        PROVE  /\ post'[i] \in [at : {"unsent", "run", "pack", "done"}, late : BOOLEAN, old : BOOLEAN]
               /\ post'[i].at = "pack" => post'[i].old
               /\ post'[i].late = post[i].late /\ (post'[i].old => post'[i].at \in {"pack", "done"})
    BY <1>3 DEF N!Ends, N!Restarts, ReminderTypes, ReminderInv
  <2>2. \E f : post' = [i \in Posts |-> f[i]]
    BY <1>3 DEF N!Ends, N!Restarts
  <2>3. post' \in [Posts -> [at : {"unsent", "run", "pack", "done"}, late : BOOLEAN, old : BOOLEAN]]
    BY <2>1, <2>2
  <2>4. Asking' = {}
    BY <2>1 DEF Asking
  <2>5. /\ memory' = N!Forgotten /\ reminded' = 0 /\ counted' = 0 /\ UNCHANGED <<pack, opened, nagged>>
        /\ ending' \in BOOLEAN /\ restarted' \in BOOLEAN
    BY <1>3 DEF N!Ends, N!Restarts, N!Forgets, ReminderTypes
  <2> QED
    BY <2>1, <2>3, <2>4, <2>5 DEF N!Forgotten, ReminderInv, ReminderTypes
<1>4. ASSUME NEW i \in Posts, N!Arrives(i) \/ N!FindsNoRun(i) PROVE ReminderInv'
  <2>1. /\ UNCHANGED <<opened, pack, memory, reminded, counted, nagged, ending, restarted>>
        /\ post' \in [Posts -> [at : {"unsent", "run", "pack", "done"}, late : BOOLEAN, old : BOOLEAN]]
    BY <1>4 DEF N!Arrives, N!FindsNoRun, ReminderTypes
  <2>2. ASSUME NEW j \in Posts
        PROVE  /\ post'[j].late => pack = "agent"
               /\ post'[j].old => post'[j].at \in {"pack", "done"}
               /\ j \in Asking <=> j \in Asking'
    BY <1>4 DEF N!Arrives, N!FindsNoRun, ReminderTypes, ReminderInv, Asking
  <2>3. Asking' = Asking
    BY <2>2 DEF Asking
  <2> QED
    BY <2>1, <2>2, <2>3 DEF ReminderInv, ReminderTypes
<1>5. ASSUME NEW i \in Posts, N!FindsRun(i) PROVE ReminderInv'
  <2>1. /\ UNCHANGED <<opened, pack, reminded, nagged, ending, restarted>>
        /\ memory' = N!Counted(memory) /\ counted' = counted + 1
        /\ post' = [post EXCEPT ![i].at = IF N!Fires(memory) THEN "pack" ELSE "done"]
        /\ post[i].at = "run" /\ ~post[i].old
    BY <1>5 DEF N!FindsRun, ReminderInv
  <2>2. /\ memory' \in [n : Nat, fired : BOOLEAN, saved : BOOLEAN]
        /\ memory'.n = memory.n + 1 /\ memory'.saved = memory.saved
        /\ memory'.fired <=> memory.fired \/ N!Fires(memory)
    <3>1. memory \in [n : Nat, fired : BOOLEAN, saved : BOOLEAN]
      BY DEF ReminderTypes
    <3>2. memory' = [memory EXCEPT !.n = @ + 1, !.fired = @ \/ N!Fires(memory)]
      BY <2>1 DEF N!Counted
    <3> DEFINE b == memory.fired \/ N!Fires(memory)
    <3>3. b \in BOOLEAN
      BY Zenon
    <3>4. memory' = [memory EXCEPT !.n = @ + 1, !.fired = b]
      BY <3>2, Zenon
    <3>5. b <=> memory.fired \/ N!Fires(memory)
      OBVIOUS
    <3> HIDE DEF b
    <3>6. /\ memory' \in [n : Nat, fired : BOOLEAN, saved : BOOLEAN]
          /\ memory'.n = memory.n + 1 /\ memory'.saved = memory.saved /\ memory'.fired = b
      <4>1. memory.n + 1 \in Nat /\ memory.saved \in BOOLEAN
        BY <3>1
      <4>2. memory' = [n |-> memory.n + 1, fired |-> b, saved |-> memory.saved]
        BY <3>1, <3>4
      <4> QED
        BY <3>3, <4>1, <4>2
    <3> QED
      BY <3>5, <3>6
  <2>3. post' \in [Posts -> [at : {"unsent", "run", "pack", "done"}, late : BOOLEAN, old : BOOLEAN]]
    BY <2>1 DEF ReminderTypes
  <2>4. ASSUME NEW j \in Posts
        PROVE  /\ post'[j].late => pack = "agent"
               /\ post'[j].old => post'[j].at \in {"pack", "done"}
               /\ j # i => (j \in Asking <=> j \in Asking')
    BY <2>1 DEF ReminderTypes, ReminderInv, Asking
  <2>5. i \notin Asking /\ (i \in Asking' <=> N!Fires(memory))
    BY <2>1 DEF Asking, ReminderTypes
  <2>6. Asking' = IF N!Fires(memory) THEN Asking \cup {i} ELSE Asking
    BY <2>4, <2>5 DEF Asking
  <2>7. counted' = memory'.n /\ counted' \in Nat
    BY <2>1, <2>2 DEF ReminderInv, ReminderTypes
  <2>8. memory'.n >= Threshold => memory'.fired \/ memory'.saved
    <3>1. memory.n + 1 >= Threshold => memory.fired \/ memory.saved \/ N!Fires(memory)
      BY DEF N!Fires
    <3> QED
      BY <2>2, <3>1
  <2>9. N!Fires(memory) => Asking = {} /\ reminded = 0
    BY DEF N!Fires, ReminderInv
  <2> QED
    BY <2>1, <2>2, <2>3, <2>4, <2>6, <2>7, <2>8, <2>9 DEF ReminderInv, ReminderTypes
<1>6. ASSUME NEW i \in Posts, N!FindsPack(i) PROVE ReminderInv'
  <2>1. /\ UNCHANGED <<opened, pack, reminded, counted, nagged, ending, restarted>>
        /\ memory' = [memory EXCEPT !.saved = TRUE] /\ pack = "agent"
        /\ post' = [post EXCEPT ![i].at = "done"]
    BY <1>6 DEF N!FindsPack
  <2>2. /\ memory' \in [n : Nat, fired : BOOLEAN, saved : BOOLEAN]
        /\ memory'.n = memory.n /\ memory'.saved /\ memory'.fired = memory.fired
    BY <2>1 DEF ReminderTypes
  <2>3. post' \in [Posts -> [at : {"unsent", "run", "pack", "done"}, late : BOOLEAN, old : BOOLEAN]]
    BY <2>1 DEF ReminderTypes
  <2>4. ASSUME NEW j \in Posts
        PROVE  /\ post'[j].old => post'[j].at \in {"pack", "done"}
               /\ j \in Asking' => j \in Asking
    BY <2>1 DEF ReminderTypes, ReminderInv, Asking
  <2>5. Asking' \subseteq Asking
    BY <2>4 DEF Asking
  <2> QED
    BY <2>1, <2>2, <2>3, <2>4, <2>5 DEF ReminderInv, ReminderTypes
<1>7. ASSUME NEW i \in Posts, N!Reminds(i) PROVE ReminderInv'
  <2>1. /\ UNCHANGED <<opened, pack, memory, counted, ending, restarted>>
        /\ post' = [post EXCEPT ![i].at = "done"] /\ post[i].at = "pack"
        /\ reminded' = IF post[i].old THEN reminded ELSE reminded + 1
    BY <1>7 DEF N!Reminds
  <2>2. nagged' = FALSE
    BY <1>7 DEF N!Reminds, ReminderInv, ReminderTypes
  <2>3. post' \in [Posts -> [at : {"unsent", "run", "pack", "done"}, late : BOOLEAN, old : BOOLEAN]]
    BY <2>1 DEF ReminderTypes
  <2>4. ASSUME NEW j \in Posts
        PROVE  /\ post'[j].late => pack = "agent"
               /\ post'[j].old => post'[j].at \in {"pack", "done"}
               /\ j # i => (j \in Asking <=> j \in Asking')
    BY <2>1 DEF ReminderTypes, ReminderInv, Asking
  <2>5. i \notin Asking' /\ (i \in Asking <=> ~post[i].old)
    BY <2>1 DEF Asking, ReminderTypes
  <2>6. Asking' = Asking \ {i}
    BY <2>4, <2>5 DEF Asking
  <2>7. CASE post[i].old
    <3>1. Asking' = Asking /\ reminded' = reminded
      BY <2>1, <2>5, <2>6, <2>7
    <3> QED
      BY <2>1, <2>2, <2>3, <2>4, <3>1 DEF ReminderInv, ReminderTypes
  <2>8. CASE ~post[i].old
    <3>1. Asking' = {} /\ reminded' = 1 /\ memory.fired
      <4>1. Asking = {i} /\ reminded # 1
        BY <2>5, <2>8 DEF ReminderInv
      <4>2. reminded = 0
        BY <4>1 DEF ReminderInv, ReminderTypes
      <4> QED
        BY <2>1, <2>6, <2>8, <4>1, <4>2 DEF ReminderInv
    <3> QED
      <4>1. ReminderTypes'
        <5>1. nagged' \in BOOLEAN /\ reminded' \in Nat
          BY <2>2, <3>1
        <5> QED
          BY <2>1, <2>3, <5>1 DEF ReminderTypes
      <4> QED
        BY <2>1, <2>2, <2>4, <3>1, <4>1 DEF ReminderInv
  <2> QED
    BY <2>7, <2>8
<1> QED
  BY <1>1, <1>2, <1>3, <1>4, <1>5, <1>6, <1>7 DEF N!Next

\* However events overlap, the agent is reminded once, and after Threshold events has
\* been, has saved or is about to be asked for (post-tool-use.ts, the session counter).
THEOREM RemindersHold == WorkSpec => []N!ReminderIsFair
<1>1. WorkInit => ReminderInv
  BY InitReminderInv DEF WorkInit
<1>2. ReminderInv /\ [WorkNext]_workVars => ReminderInv'
  <2>1. [WorkNext]_workVars => [N!Next]_reminderVars
    BY DEF WorkNext, Among, workVars
  <2> QED
    BY <2>1, NextReminderInv
<1>3. ReminderInv => N!ReminderIsFair
  BY ReminderAssumption DEF ReminderInv, ReminderTypes, N!ReminderIsFair, Asking
<1> QED
  BY <1>1, <1>2, <1>3, PTL DEF WorkSpec

-----------------------------------------------------------------------------
(* Context: finite sets in an order.                                        *)

\* The first n of a finite set in a strict order: n of them, and before all others.
LEMMA FirstsAre ==
    ASSUME NEW S, IsFiniteSet(S), NEW Rel, NEW n \in Nat,
           \A x \in S : <<x, x>> \notin Rel,
           \A x, y, z \in S : <<x, y>> \in Rel /\ <<y, z>> \in Rel => <<x, z>> \in Rel,
           \A x, y \in S : x = y \/ <<x, y>> \in Rel \/ <<y, x>> \in Rel,
           NEW Below \in [S -> SUBSET S],
           \A x, y \in S : y \in Below[x] <=> <<y, x>> \in Rel,
           NEW T \in SUBSET S, \A x \in S : x \in T <=> Cardinality(Below[x]) < n,
           NEW d \in S, d \notin T
    PROVE  Cardinality(T) = n /\ \A t \in T : <<t, d>> \in Rel
<1> DEFINE b == [x \in S |-> Cardinality(Below[x])]
           m == Cardinality(S)
<1>0. m \in Nat /\ \A x \in S : Below[x] \in SUBSET S /\ x \notin Below[x]
  BY FS_CardinalityType
<1>1. ASSUME NEW x \in S
      PROVE  IsFiniteSet(Below[x]) /\ b[x] \in Nat /\ b[x] < m
  <2>1. IsFiniteSet(Below[x]) /\ Cardinality(Below[x]) <= m /\ (m = Cardinality(Below[x]) => S = Below[x])
    BY <1>0, FS_Subset
  <2>2. Cardinality(Below[x]) \in Nat
    BY <2>1, FS_CardinalityType
  <2>3. S # Below[x]
    BY <1>0
  <2> HIDE DEF m
  <2>4. b[x] = Cardinality(Below[x])
    OBVIOUS
  <2> QED
    BY <1>0, <2>1, <2>2, <2>3, <2>4
<1>2. ASSUME NEW x \in S, NEW y \in S, <<x, y>> \in Rel PROVE b[x] < b[y]
  <2>1. Below[x] \in SUBSET Below[y] /\ Below[x] # Below[y]
    BY <1>0, <1>2
  <2>2. /\ Cardinality(Below[x]) <= Cardinality(Below[y])
        /\ Cardinality(Below[y]) = Cardinality(Below[x]) => Below[y] = Below[x]
    BY <1>1, <2>1, FS_Subset
  <2>3. b[x] = Cardinality(Below[x]) /\ b[y] = Cardinality(Below[y]) /\ b[x] \in Nat /\ b[y] \in Nat
    BY <1>1
  <2> HIDE DEF b
  <2> QED
    BY <2>1, <2>2, <2>3
<1>3. T = {x \in S : b[x] < n}
  OBVIOUS
<1> HIDE DEF b
<1>4. ASSUME NEW t \in T PROVE <<t, d>> \in Rel
  <2>1. t \in S /\ b[t] < n /\ b[t] \in Nat /\ b[d] \in Nat /\ ~(b[d] < n)
    BY <1>1, <1>3
  <2>2. t # d /\ ~(b[d] < b[t])
    BY <2>1
  <2> QED
    BY <1>2, <2>1, <2>2
<1>5. b \in [S -> 0..(m - 1)]
  <2>1. b = [x \in S |-> b[x]]
    BY DEF b
  <2>2. \A x \in S : b[x] \in 0..(m - 1)
    <3> HIDE DEF m
    <3> QED
      BY <1>0, <1>1
  <2> DEFINE D == 0..(m - 1)
  <2>3. \A x \in S : b[x] \in D
    BY <2>2
  <2>4. [x \in S |-> b[x]] \in [S -> D]
    <3> HIDE DEF D
    <3> QED
      BY <2>3
  <2>5. b \in [S -> D]
    <3> HIDE DEF D, m
    <3> QED
      BY <2>1, <2>4
  <2> QED
    BY <2>5
<1>6. b \in Injection(S, 0..(m - 1))
  <2>1. ASSUME NEW x \in S, NEW y \in S, b[x] = b[y] PROVE x = y
    <3>1. b[x] \in Nat /\ b[y] \in Nat /\ ~(b[x] < b[y]) /\ ~(b[y] < b[x])
      BY <1>1, <2>1
    <3> QED
      BY <1>2, <3>1
  <2> QED
    BY <1>5, <2>1 DEF Injection, IsInjective
<1>7. b \in Surjection(S, 0..(m - 1))
  <2> HIDE DEF m
  <2>1. m >= 1 /\ m - 1 \in Int /\ (m - 1) - 0 + 1 = m
    BY <1>0, <1>1
  <2>2. IsFiniteSet(0..(m - 1)) /\ Cardinality(0..(m - 1)) = m
    BY <2>1, FS_Interval
  <2>3. Cardinality(0..(m - 1)) = Cardinality(S)
    BY <2>2 DEF m
  <2> QED
    BY <1>6, <2>2, <2>3, FS_Injection
<1>8. n <= m - 1
  <2>1. ~(b[d] < n) /\ b[d] \in Nat /\ b[d] < m
    BY <1>1, <1>3
  <2> HIDE DEF m
  <2> QED
    BY <1>0, <2>1
<1> DEFINE g == [x \in T |-> b[x]]
<1>9. g \in Bijection(T, 0..(n - 1))
  <2>1. \A x \in T : x \in S /\ b[x] \in 0..(n - 1)
    BY <1>1, <1>3
  <2>2. g \in [T -> 0..(n - 1)]
    BY <2>1
  <2>3. \A x, y \in T : g[x] = g[y] => x = y
    BY <1>6, <2>1 DEF Injection, IsInjective
  <2>4. ASSUME NEW i \in 0..(n - 1) PROVE \E x \in T : g[x] = i
    <3>1. i \in 0..(m - 1)
      <4> HIDE DEF m
      <4> QED
        BY <1>0, <1>8
    <3>2. PICK x \in S : b[x] = i
      BY <1>7, <3>1 DEF Surjection
    <3>3. i < n
      OBVIOUS
    <3> QED
      BY <1>3, <3>2, <3>3
  <2> QED
    BY <2>2, <2>3, <2>4 DEF Bijection, Injection, IsInjective, Surjection
<1>10. Cardinality(T) = n
  <2>1. IsFiniteSet(T)
    BY <1>3, FS_Subset
  <2>2. Cardinality(0..(n - 1)) = Cardinality(T)
    BY <1>9, <2>1, FS_Bijection DEF ExistsBijection
  <2>3. Cardinality(0..(n - 1)) = n
    <3>1. 0 \in Int /\ n - 1 \in Int /\ (0 > n - 1 => n = 0) /\ (n - 1) - 0 + 1 = n
      OBVIOUS
    <3> QED
      BY <3>1, FS_Interval
  <2> QED
    BY <2>2, <2>3
<1> QED
  BY <1>4, <1>10

-----------------------------------------------------------------------------
(* Context: what sessions record, and what later ones are told of it.       *)

Decided == [id : Nat, run : Nat, day : Nat, conf : Confidences \cup {"null"}]
Headings == {"pack", "index", "contract", "decisions"}
Openings ==
    [at : {"idle", "pack", "runs", "decisions", "compose", "answered"},
     unread : SUBSET C!Files, pack : SUBSET C!Files, index : BOOLEAN, since : Nat,
     ids : SUBSET Nat, told : SUBSET Decided, blocks : Seq(Headings), could : SUBSET Decided,
     failed : BOOLEAN, known : {"no", "nothing", "slug", "project"}]
Readings == [at : {"idle", "pack", "answered"}, run : Nat, cites : SUBSET Nat,
             got : SUBSET Nat, all : SUBSET Nat]

ContextTypes ==
    /\ day \in Nat /\ wiped \in BOOLEAN /\ trouble \in Nat
    /\ runs \in [Sessions -> [of : {"none", "ours", "theirs"},
                              status : {"none", "gone", "in_progress"}]]
    /\ decisions \in SUBSET Decided
    /\ packs \in [Sessions -> [by : {"none", "bridge_auto", "agent"}, cites : SUBSET Nat]]
    /\ start \in Openings /\ reader \in Readings

\* Ids are as many as there are decisions; one that has a run has it still.
Numbered ==
    /\ IsFiniteSet(decisions) /\ Cardinality(decisions) <= MaxDecisions
    /\ \A d \in decisions : d.id <= Cardinality(decisions)
    /\ \A d, e \in decisions : d.id = e.id => d = e
    /\ \A d \in decisions : d.run # 0 => d.run \in Sessions /\ runs[d.run].of # "none"

\* The runs that were selected are ours, or gone for good.
Selected ==
    start.at = "decisions" =>
        \A i \in start.ids : i \in Sessions /\ (runs[i].of = "ours" \/ runs[i] = C!Gone)

\* DecisionsAreDue, of a start that is not answered yet.
Due ==
    /\ start.at \in {"pack", "runs"} => start.told = {} /\ start.could = {}
    /\ start.told \subseteq start.could
    /\ \A d \in {e \in start.could : C!Young(e)} \ start.told :
          \/ Cardinality({e \in start.told : C!Before(e, d)}) = Limit
          \/ Cardinality({e \in start.could : e.id > d.id}) >= Limit * Fan

\* Until a reset, the decisions a pack names are their run's.
IdsOf(r) == {d.id : d \in C!Recorded(r)}
Cited ==
    /\ trouble = 0 => ~wiped /\ \A r \in Sessions : packs[r].cites \subseteq IdsOf(r)
    /\ reader.at = "pack" /\ trouble = 0 =>
          reader.run \in Sessions /\ reader.cites \subseteq IdsOf(reader.run)
    /\ C!PacksBringDecisions

ContextInv ==
    ContextTypes /\ Numbered /\ Selected /\ Due /\ Cited /\ C!ContractIsTold

LEMMA CountsAgree == \A s : C!Cardinality(s) = Cardinality(s)
BY Zenon DEF C!Cardinality, Cardinality

LEMMA IdleTypes == C!NoStart \in Openings /\ C!NoReader \in Readings
<1>1. <<>> \in Seq(Headings)
  OBVIOUS
<1> QED
  BY <1>1 DEF C!NoStart, C!NoReader, Openings, Readings

LEMMA InitContextInv == ASSUME NEW q, C!Init(q) PROVE ContextInv
<1>1. ContextTypes
  <2>1. C!NoStart \in Openings /\ C!NoReader \in Readings
    BY IdleTypes
  <2> QED
    BY <2>1 DEF C!Init, ContextTypes, C!NoRun, C!NoPack
<1>2. IsFiniteSet(decisions) /\ Cardinality(decisions) = 0
  BY FS_EmptySet DEF C!Init
<1>3. Numbered
  BY <1>2, ContextAssumption DEF C!Init, Numbered
<1>4. Due
  BY DEF C!Init, C!NoStart, Due
<1> QED
  BY <1>1, <1>3, <1>4 DEF C!Init, ContextInv, Selected, Cited, C!ContractIsTold,
     C!PacksBringDecisions, C!NoStart, C!NoReader, C!NoPack

\* A reset takes decisions from their runs, not from their numbers.
LEMMA OrphanedAre ==
    ASSUME ContextTypes, Numbered
    PROVE  /\ C!Orphaned \in SUBSET Decided
           /\ IsFiniteSet(C!Orphaned) /\ Cardinality(C!Orphaned) = Cardinality(decisions)
           /\ \A d \in C!Orphaned : \E e \in decisions :
                 d.id = e.id /\ (d.run = 0 \/ (d.run = e.run /\ e.run \notin C!Ours))
           /\ \A d, e \in C!Orphaned : d.id = e.id => d = e
<1> DEFINE Left(d) == [d EXCEPT !.run = IF @ \in C!Ours THEN 0 ELSE @]
           f == [d \in decisions |-> Left(d)]
<1>1. C!Orphaned = {Left(d) : d \in decisions}
  BY DEF C!Orphaned
<1>2. ASSUME NEW d \in decisions
      PROVE  /\ Left(d) \in Decided /\ Left(d).id = d.id
             /\ Left(d).run = 0 \/ (Left(d).run = d.run /\ d.run \notin C!Ours)
  <2>1. d \in Decided
    BY DEF ContextTypes
  <2> QED
    BY <2>1 DEF Decided
<1> HIDE DEF Left
<1>3. C!Orphaned \in SUBSET Decided
  BY <1>1, <1>2
<1>4. \A d \in C!Orphaned : \E e \in decisions : d = Left(e)
  BY <1>1
<1>5. \A d, e \in decisions : Left(d) = Left(e) => d = e
  BY <1>2 DEF Numbered
<1>6. f \in Bijection(decisions, C!Orphaned)
  <2>1. f \in [decisions -> C!Orphaned]
    BY <1>1
  <2>2. \A d, e \in decisions : f[d] = f[e] => d = e
    BY <1>5
  <2>3. \A o \in C!Orphaned : \E d \in decisions : f[d] = o
    BY <1>4
  <2> HIDE DEF f
  <2> QED
    BY <2>1, <2>2, <2>3 DEF Bijection, Injection, IsInjective, Surjection
<1>7. IsFiniteSet(C!Orphaned) /\ Cardinality(C!Orphaned) = Cardinality(decisions)
  <2>1. ExistsBijection(decisions, C!Orphaned)
    BY <1>6 DEF ExistsBijection
  <2> QED
    BY <2>1, FS_Bijection DEF Numbered
<1>8. \A d \in C!Orphaned : \E e \in decisions :
         d.id = e.id /\ (d.run = 0 \/ (d.run = e.run /\ e.run \notin C!Ours))
  BY <1>2, <1>4
<1>9. \A d, e \in C!Orphaned : d.id = e.id => d = e
  BY <1>2, <1>4 DEF Numbered
<1> QED
  BY <1>3, <1>7, <1>8, <1>9

LEMMA NextContextTypes ==
    ASSUME ContextTypes, Numbered, [C!Next]_contextVars PROVE ContextTypes'
<1>1. CASE UNCHANGED contextVars
  BY <1>1 DEF contextVars, ContextTypes
<1>2. ASSUME NEW r \in Sessions, C!Opens(r) PROVE ContextTypes'
  BY <1>2 DEF C!Opens, C!Told, ContextTypes
<1>3. ASSUME NEW r \in Sessions, C!Records(r) PROVE ContextTypes'
  <2>1. PICK c \in IF question = "tool" THEN {"null"} ELSE Confidences :
           decisions' = decisions \cup
              {[id |-> C!Cardinality(decisions) + 1, run |-> r, day |-> day, conf |-> c]}
    BY <1>3 DEF C!Records
  <2>2. C!Cardinality(decisions) \in Nat
    BY CountsAgree, FS_CardinalityType DEF Numbered
  <2>3. [id |-> C!Cardinality(decisions) + 1, run |-> r, day |-> day, conf |-> c] \in Decided
    BY <2>1, <2>2, ContextAssumption DEF Decided, ContextTypes
  <2> QED
    BY <1>3, <2>1, <2>3 DEF C!Records, C!Told, ContextTypes
<1>4. ASSUME NEW r \in Sessions, C!Saves(r) PROVE ContextTypes'
  <2>1. PICK by \in {"bridge_auto", "agent"}, cites \in SUBSET {d.id : d \in C!Recorded(r)} :
           packs' = [packs EXCEPT ![r] = [by |-> by, cites |-> cites]]
    BY <1>4 DEF C!Saves
  <2>2. cites \in SUBSET Nat
    BY <2>1 DEF C!Recorded, ContextTypes, Decided
  <2> QED
    BY <1>4, <2>1, <2>2 DEF C!Saves, C!Told, ContextTypes
<1>5. ASSUME C!WipesDecisions \/ C!WipesRuns PROVE ContextTypes'
  <2>1. decisions' \in SUBSET Decided
    BY <1>5, OrphanedAre DEF C!WipesDecisions, C!WipesRuns
  <2>2. runs' \in [Sessions -> [of : {"none", "ours", "theirs"},
                 status : {"none", "gone", "in_progress"}]]
    BY <1>5 DEF C!WipesDecisions, C!WipesRuns, C!Gone, ContextTypes
  <2>3. packs' \in [Sessions -> [by : {"none", "bridge_auto", "agent"}, cites : SUBSET Nat]]
    BY <1>5 DEF C!WipesDecisions, C!WipesRuns, C!NoPack, ContextTypes
  <2>4. trouble' \in Nat /\ wiped' \in BOOLEAN
    <3>1. trouble' \in {trouble, trouble + 1} /\ wiped' \in {TRUE, FALSE}
      BY <1>5, Zenon DEF C!WipesDecisions, C!WipesRuns, C!Trouble
    <3>2. wiped' \in BOOLEAN
      BY <3>1, Zenon
    <3>3. trouble' \in Nat
      BY <3>1 DEF ContextTypes
    <3> QED
      BY <3>2, <3>3
  <2>5. UNCHANGED <<day, start, reader>>
    BY <1>5 DEF C!WipesDecisions, C!WipesRuns, C!Told
  <2> QED
    BY <2>1, <2>2, <2>3, <2>4, <2>5 DEF ContextTypes
<1>6. ASSUME NEW f \in C!Files, C!Edits(f) PROVE ContextTypes'
  BY <1>6 DEF C!Edits, C!Told, C!Trouble, ContextTypes
<1>7. ASSUME C!NextDay PROVE ContextTypes'
  BY <1>7 DEF C!NextDay, C!Told, ContextTypes
<1>8. ASSUME NEW r \in Sessions, C!ReadsPack(r) PROVE ContextTypes'
  <2>1. reader' = [C!NoReader EXCEPT !.at = "pack", !.run = r, !.cites = packs[r].cites]
    BY <1>8 DEF C!ReadsPack
  <2>2. r \in Nat /\ packs[r].cites \in SUBSET Nat /\ C!NoReader \in Readings
    BY IdleTypes, ContextAssumption DEF ContextTypes
  <2>3. reader' \in Readings
    BY <2>1, <2>2 DEF Readings
  <2> QED
    BY <1>8, <2>3 DEF C!ReadsPack, ContextTypes
<1>9. ASSUME C!ReadsDecisions PROVE ContextTypes'
  <2> DEFINE got == {d.id : d \in C!FirstOf(C!Recorded(reader.run), PackLimit)}
             all == {d.id : d \in C!Recorded(reader.run)}
  <2>1. got \in SUBSET Nat /\ all \in SUBSET Nat
    <3>1. \A d \in decisions : d.id \in Nat
      BY DEF ContextTypes, Decided
    <3> QED
      BY <3>1 DEF C!FirstOf, C!Recorded
  <2>2. reader' = [reader EXCEPT !.at = "answered", !.got = got, !.all = all]
    BY <1>9 DEF C!ReadsDecisions
  <2> HIDE DEF got, all
  <2>3. reader' \in Readings
    BY <2>1, <2>2 DEF ContextTypes, Readings
  <2> QED
    BY <1>9, <2>3 DEF C!ReadsDecisions, ContextTypes
<1>10. ASSUME C!Starts PROVE ContextTypes'
  <2>1. PICK known \in {"nothing", "slug", "project"} :
           start' = [C!NoStart EXCEPT !.known = known,
                        !.unread = IF question = "files" THEN C!Files ELSE {},
                        !.at = IF known = "nothing" THEN "compose" ELSE "pack"]
    BY <1>10 DEF C!Starts
  <2>2. start' \in Openings
    BY <2>1, IdleTypes DEF Openings
  <2> QED
    BY <1>10, <2>2 DEF C!Starts, ContextTypes
<1>11. ASSUME NEW f \in C!Files, C!ReadsFile(f) PROVE ContextTypes'
  <2>1. start' \in Openings
    BY <1>11 DEF C!ReadsFile, ContextTypes, Openings
  <2> QED
    BY <1>11, <2>1 DEF C!ReadsFile, ContextTypes
<1>12. ASSUME C!ReadsIndex PROVE ContextTypes'
  <2>1. PICK loaded \in BOOLEAN :
           start' = [start EXCEPT !.index = loaded,
                        !.at = IF start.known = "project" THEN "runs" ELSE "compose"]
    BY <1>12, Zenon DEF C!ReadsIndex
  <2>2. start' \in Openings
    BY <2>1 DEF ContextTypes, Openings
  <2> QED
    BY <1>12, <2>2 DEF C!ReadsIndex, ContextTypes
<1>13. ASSUME C!SelectsRuns PROVE ContextTypes'
  <2>1. C!Ours \in SUBSET Nat
    BY ContextAssumption DEF C!Ours
  <2>2. start' \in Openings
    BY <1>13, <2>1 DEF C!SelectsRuns, ContextTypes, Openings
  <2> QED
    BY <1>13, <2>2 DEF C!SelectsRuns, ContextTypes
<1>14. ASSUME C!SelectsDecisions PROVE ContextTypes'
  <2> DEFINE ds == {d \in decisions : d.run \in start.ids /\ C!Young(d)}
             could == {d \in C!QueryDecisions(MaxDecisions) : d.run \in start.ids}
  <2>1. C!Chosen(ds) \in SUBSET Decided /\ could \in SUBSET Decided
    BY DEF C!Chosen, C!LastOf, C!QueryDecisions, ContextTypes
  <2>2. start' = [start EXCEPT !.at = "compose", !.told = C!Chosen(ds), !.could = could]
    BY <1>14 DEF C!SelectsDecisions
  <2>3. UNCHANGED <<day, runs, decisions, packs, wiped, trouble, reader>>
    BY <1>14 DEF C!SelectsDecisions
  <2> HIDE DEF ds, could
  <2>4. start' \in Openings
    BY <2>1, <2>2 DEF ContextTypes, Openings
  <2> QED
    BY <2>3, <2>4 DEF ContextTypes
<1>15. ASSUME C!SelectFails PROVE ContextTypes'
  <2>1. start' \in Openings
    BY <1>15 DEF C!SelectFails, ContextTypes, Openings
  <2>2. trouble' \in Nat
    BY <1>15 DEF C!SelectFails, C!Trouble, ContextTypes
  <2> QED
    BY <1>15, <2>1, <2>2 DEF C!SelectFails, ContextTypes
<1>16. ASSUME C!Composes PROVE ContextTypes'
  <2> DEFINE b == C!Block("spec.md" \in start.pack, "pack") \o
                  C!Block(start.index, "index") \o <<"contract">> \o
                  C!Block(start.told # {}, "decisions")
  <2>1. /\ <<>> \in Seq(Headings)
        /\ \A h \in Headings : <<h>> \in Seq(Headings)
    OBVIOUS
  <2>6. /\ C!Block("spec.md" \in start.pack, "pack") \in Seq(Headings)
        /\ C!Block(start.index, "index") \in Seq(Headings)
        /\ <<"contract">> \in Seq(Headings)
        /\ C!Block(start.told # {}, "decisions") \in Seq(Headings)
    BY <2>1 DEF C!Block, Headings
  <2>2. b \in Seq(Headings)
    BY <2>6
  <2>3. start' = [start EXCEPT !.at = "answered", !.blocks = b]
    BY <1>16 DEF C!Composes
  <2> HIDE DEF b
  <2>4. start' \in Openings
    BY <2>2, <2>3 DEF ContextTypes, Openings
  <2> QED
    BY <1>16, <2>4 DEF C!Composes, ContextTypes
<1> QED
  BY <1>1, <1>2, <1>3, <1>4, <1>5, <1>6, <1>7, <1>8, <1>9, <1>10, <1>11, <1>12, <1>13, <1>14,
     <1>15, <1>16 DEF C!Next

\* The steps that leave the rows of runs and decisions alone.
Looks ==
    \/ UNCHANGED contextVars
    \/ \E r \in Sessions : C!Saves(r) \/ C!ReadsPack(r)
    \/ \E f \in C!Files : C!Edits(f) \/ C!ReadsFile(f)
    \/ C!NextDay \/ C!ReadsDecisions \/ C!Starts \/ C!ReadsIndex \/ C!SelectsRuns
    \/ C!SelectsDecisions \/ C!SelectFails \/ C!Composes

LEMMA LooksLeave == Looks => UNCHANGED <<runs, decisions>>
<1> SUFFICES ASSUME Looks PROVE UNCHANGED <<runs, decisions>>
  OBVIOUS
<1>1. ASSUME NEW r \in Sessions, C!Saves(r) \/ C!ReadsPack(r) PROVE UNCHANGED <<runs, decisions>>
  BY <1>1, Zenon DEF C!Saves, C!ReadsPack
<1>2. ASSUME NEW f \in C!Files, C!Edits(f) \/ C!ReadsFile(f) PROVE UNCHANGED <<runs, decisions>>
  BY <1>2, Zenon DEF C!Edits, C!ReadsFile
<1>3. C!NextDay \/ C!ReadsDecisions \/ C!Starts \/ C!ReadsIndex => UNCHANGED <<runs, decisions>>
  BY Zenon DEF C!NextDay, C!ReadsDecisions, C!Starts, C!ReadsIndex
<1>4. C!SelectsRuns \/ C!SelectsDecisions \/ C!SelectFails \/ C!Composes => UNCHANGED <<runs, decisions>>
  BY Zenon DEF C!SelectsRuns, C!SelectsDecisions, C!SelectFails, C!Composes
<1> QED
  BY <1>1, <1>2, <1>3, <1>4 DEF Looks, contextVars

LEMMA ContextSteps ==
    [C!Next]_contextVars =>
        Looks \/ C!WipesDecisions \/ C!WipesRuns
              \/ \E r \in Sessions : C!Opens(r) \/ C!Records(r)
BY Zenon DEF C!Next, Looks, contextVars

LEMMA NextNumbered ==
    ASSUME ContextTypes, Numbered, [C!Next]_contextVars PROVE Numbered'
<1>1. CASE Looks
  BY <1>1, LooksLeave DEF Numbered
<1>2. ASSUME NEW r \in Sessions, C!Opens(r) PROVE Numbered'
  <2>1. UNCHANGED decisions
    BY <1>2, Zenon DEF C!Opens
  <2>2. \A s \in Sessions : runs[s].of # "none" => runs'[s].of # "none"
    BY <1>2 DEF C!Opens, C!NoRun, ContextTypes
  <2> QED
    BY <2>1, <2>2 DEF Numbered
<1>3. ASSUME NEW r \in Sessions, C!Records(r) PROVE Numbered'
  <2> DEFINE k == Cardinality(decisions)
  <2>1. PICK c : decisions' = decisions \cup {[id |-> k + 1, run |-> r, day |-> day, conf |-> c]}
    BY <1>3, CountsAgree DEF C!Records
  <2> DEFINE new == [id |-> k + 1, run |-> r, day |-> day, conf |-> c]
  <2>2. k \in Nat /\ k < MaxDecisions /\ runs[r].of # "none" /\ UNCHANGED runs
    BY <1>3, CountsAgree, FS_CardinalityType DEF C!Records, Numbered
  <2>3. \A d \in decisions : d.id \in Nat /\ d.id <= k
    BY DEF ContextTypes, Decided, Numbered
  <2>4. new.id = k + 1 /\ new.run = r
    OBVIOUS
  <2>5. IsFiniteSet(decisions')
        /\ Cardinality(decisions') = IF new \in decisions THEN k ELSE k + 1
    BY <2>1, FS_AddElement DEF Numbered
  <2>6. decisions' = decisions \cup {new}
    BY <2>1
  <2> HIDE DEF k, new
  <2>7. new \notin decisions
    BY <2>2, <2>3, <2>4
  <2>8. Cardinality(decisions') <= MaxDecisions
    BY <2>2, <2>5, <2>7, ContextAssumption
  <2>9. \A d \in decisions' : d.id <= Cardinality(decisions')
    BY <2>2, <2>3, <2>4, <2>5, <2>6, <2>7
  <2>10. \A d, e \in decisions' : d.id = e.id => d = e
    <3>1. \A d \in decisions : d.id # new.id
      BY <2>2, <2>3, <2>4
    <3> QED
      BY <2>6, <3>1 DEF Numbered
  <2>11. \A d \in decisions' : d.run # 0 => d.run \in Sessions /\ runs'[d.run].of # "none"
    BY <2>2, <2>4, <2>6 DEF Numbered
  <2> QED
    BY <2>5, <2>8, <2>9, <2>10, <2>11 DEF Numbered
<1>4. CASE C!WipesDecisions \/ C!WipesRuns
  <2>1. decisions' = C!Orphaned
    BY <1>4, Zenon DEF C!WipesDecisions, C!WipesRuns
  <2>2. \A s \in Sessions : s \notin C!Ours => runs'[s] = runs[s]
    BY <1>4 DEF C!WipesDecisions, C!WipesRuns
  <2>3. ASSUME NEW d \in decisions'
        PROVE  /\ d.id <= Cardinality(decisions')
               /\ d.run # 0 => d.run \in Sessions /\ runs'[d.run].of # "none"
    <3>1. PICK e \in decisions : d.id = e.id /\ (d.run = 0 \/ (d.run = e.run /\ e.run \notin C!Ours))
      BY <2>1, OrphanedAre
    <3>2. e.id <= Cardinality(decisions) /\ Cardinality(decisions') = Cardinality(decisions)
      BY <2>1, OrphanedAre DEF Numbered
    <3>3. e.run # 0 => e.run \in Sessions /\ runs[e.run].of # "none"
      BY DEF Numbered
    <3> QED
      BY <2>2, <3>1, <3>2, <3>3
  <2>4. IsFiniteSet(decisions') /\ Cardinality(decisions') <= MaxDecisions
    BY <2>1, OrphanedAre DEF Numbered
  <2>5. \A d, e \in decisions' : d.id = e.id => d = e
    BY <2>1, OrphanedAre
  <2> QED
    BY <2>3, <2>4, <2>5 DEF Numbered
<1> QED
  BY <1>1, <1>2, <1>3, <1>4, ContextSteps

LEMMA NextSelected ==
    ASSUME ContextTypes, Selected, [C!Next]_contextVars PROVE Selected'
<1>1. CASE start' = start
  <2>1. ASSUME NEW i \in Sessions, runs[i].of = "ours" \/ runs[i] = C!Gone
        PROVE  runs'[i].of = "ours" \/ runs'[i] = C!Gone
    <3>1. CASE Looks
      BY <2>1, <3>1, LooksLeave
    <3>2. ASSUME NEW r \in Sessions, C!Opens(r)
          PROVE  runs'[i].of = "ours" \/ runs'[i] = C!Gone
      BY <2>1, <3>2 DEF C!Opens, C!NoRun, C!Gone, ContextTypes
    <3>3. ASSUME NEW r \in Sessions, C!Records(r)
          PROVE  runs'[i].of = "ours" \/ runs'[i] = C!Gone
      BY <2>1, <3>3 DEF C!Records
    <3>4. CASE C!WipesDecisions
      BY <2>1, <3>4 DEF C!WipesDecisions
    <3>5. CASE C!WipesRuns
      BY <2>1, <3>5 DEF C!WipesRuns, C!Ours
    <3> QED
      BY <3>1, <3>2, <3>3, <3>4, <3>5, ContextSteps
  <2> QED
    BY <1>1, <2>1 DEF Selected, C!Gone
<1>2. CASE start'.at # "decisions"
  BY <1>2 DEF Selected
<1>3. ASSUME start' # start, start'.at = "decisions" PROVE Selected'
  <2>1. C!SelectsRuns
    <3>1. CASE Looks
      <4>1. ~\E r \in Sessions : C!Saves(r) \/ C!ReadsPack(r)
        BY <1>3, Zenon DEF C!Saves, C!ReadsPack, C!Told
      <4>2. ~\E f \in C!Files : C!Edits(f)
        BY <1>3, Zenon DEF C!Edits, C!Told
      <4>3. ~\E f \in C!Files : C!ReadsFile(f)
        BY <1>3 DEF C!ReadsFile, ContextTypes, Openings
      <4>4. ~C!NextDay /\ ~C!ReadsDecisions
        BY <1>3, Zenon DEF C!NextDay, C!ReadsDecisions, C!Told
      <4>5. ~C!Starts
        <5>1. C!Starts => \E known : start' = [C!NoStart EXCEPT !.known = known,
                             !.unread = IF question = "files" THEN C!Files ELSE {},
                             !.at = IF known = "nothing" THEN "compose" ELSE "pack"]
          BY DEF C!Starts
        <5> QED
          BY <1>3, <5>1 DEF C!NoStart
      <4>6. ~C!ReadsIndex
        BY <1>3 DEF C!ReadsIndex, ContextTypes, Openings
      <4>7. ~C!SelectsDecisions
        BY <1>3 DEF C!SelectsDecisions, ContextTypes, Openings
      <4>8. ~C!SelectFails /\ ~C!Composes
        BY <1>3 DEF C!SelectFails, C!Composes, ContextTypes, Openings
      <4> QED
        BY <1>3, <3>1, <4>1, <4>2, <4>3, <4>4, <4>5, <4>6, <4>7, <4>8 DEF Looks, contextVars
    <3>2. ~\E r \in Sessions : C!Opens(r) \/ C!Records(r)
      BY <1>3, Zenon DEF C!Opens, C!Records, C!Told
    <3>3. ~C!WipesDecisions /\ ~C!WipesRuns
      BY <1>3, Zenon DEF C!WipesDecisions, C!WipesRuns, C!Told
    <3> QED
      BY <3>1, <3>2, <3>3, ContextSteps
  <2>2. start'.ids = C!Ours /\ UNCHANGED runs
    BY <2>1 DEF C!SelectsRuns, ContextTypes, Openings
  <2> QED
    BY <2>2 DEF Selected, C!Ours
<1> QED
  BY <1>1, <1>2, <1>3

\* By confidence, and the newest of the same first: a strict order of the decisions.
LEMMA BeforeIsOrder ==
    ASSUME ContextTypes, Numbered, NEW d \in decisions, NEW e \in decisions, NEW f \in decisions
    PROVE  /\ ~C!Before(d, d)
           /\ C!Before(d, e) /\ C!Before(e, f) => C!Before(d, f)
           /\ d = e \/ C!Before(d, e) \/ C!Before(e, d)
<1>1. C!Rank(d) \in 1..3 /\ C!Rank(e) \in 1..3 /\ C!Rank(f) \in 1..3
  BY DEF C!Rank
<1>2. d.id \in Nat /\ e.id \in Nat /\ f.id \in Nat /\ (d.id = e.id => d = e)
  BY DEF ContextTypes, Decided, Numbered
<1> QED
  BY <1>1, <1>2 DEF C!Before

\* Of a set of decisions the last n leave out those with n behind them.
LEMMA LastOfAre ==
    ASSUME ContextTypes, Numbered, NEW ds \in SUBSET decisions, NEW n \in Nat
    PROVE  /\ IsFiniteSet(ds)
           /\ C!LastOf(ds, n) = {d \in ds : Cardinality({e \in ds : e.id > d.id}) < n}
<1>1. IsFiniteSet(ds)
  BY FS_Subset DEF Numbered
<1>2. C!LastOf(ds, n) = {d \in ds : Cardinality({e \in ds : e.id > d.id}) < n}
  BY CountsAgree DEF C!LastOf
<1> QED
  BY <1>1, <1>2

\* What the newest of ds are chosen by, and what a decision that was not chosen gave way to.
LEMMA ChosenAre ==
    ASSUME ContextTypes, Numbered, NEW ds \in SUBSET decisions
    PROVE  /\ C!Chosen(ds) \subseteq ds
           /\ \A d \in ds \ C!Chosen(ds) :
                 \/ Cardinality({e \in C!Chosen(ds) : C!Before(e, d)}) = Limit
                 \/ Cardinality({e \in ds : e.id > d.id}) >= Limit * Fan
<1> DEFINE newest == C!LastOf(ds, Limit * Fan)
           Rel == {p \in newest \X newest : C!Before(p[1], p[2])}
           T == C!Chosen(ds)
<1>1. Limit \in Nat /\ Limit * Fan \in Nat
  <2>1. Limit \in Nat /\ Fan \in Nat
    BY ContextAssumption
  <2> QED
    BY <2>1
<1>2. /\ newest = {d \in ds : Cardinality({e \in ds : e.id > d.id}) < Limit * Fan}
      /\ IsFiniteSet(ds)
  BY <1>1, LastOfAre
<1>3. newest \in SUBSET ds /\ newest \in SUBSET decisions /\ IsFiniteSet(newest)
  <2>1. newest \in SUBSET ds
    BY <1>2
  <2> QED
    BY <1>2, <2>1, FS_Subset
<1>4. T = {d \in newest : Cardinality({e \in newest : C!Before(e, d)}) < Limit}
  BY CountsAgree, Zenon DEF C!Chosen
<1> HIDE DEF newest, T
<1>5. \A d, e \in newest : <<d, e>> \in Rel <=> C!Before(d, e)
  OBVIOUS
<1> HIDE DEF Rel
<1> DEFINE Below == [d \in newest |-> {e \in newest : C!Before(e, d)}]
<1>6. /\ Below \in [newest -> SUBSET newest]
      /\ \A d, e \in newest : e \in Below[d] <=> <<e, d>> \in Rel
      /\ T \in SUBSET newest
      /\ \A d \in newest : d \in T <=> Cardinality(Below[d]) < Limit
  BY <1>4, <1>5
<1> HIDE DEF Below
<1>7. /\ \A d \in newest : <<d, d>> \notin Rel
      /\ \A d, e, f \in newest : <<d, e>> \in Rel /\ <<e, f>> \in Rel => <<d, f>> \in Rel
      /\ \A d, e \in newest : d = e \/ <<d, e>> \in Rel \/ <<e, d>> \in Rel
  <2>1. \A d \in newest : d \in decisions
    BY <1>3
  <2> QED
    BY <1>5, <2>1, BeforeIsOrder
<1>8. ASSUME NEW d \in ds, d \notin T
      PROVE  \/ Cardinality({e \in T : C!Before(e, d)}) = Limit
             \/ Cardinality({e \in ds : e.id > d.id}) >= Limit * Fan
  <2>1. CASE d \notin newest
    <3>1. ~(Cardinality({e \in ds : e.id > d.id}) < Limit * Fan)
      BY <1>2, <2>1
    <3>2. Cardinality({e \in ds : e.id > d.id}) \in Nat
      BY <1>2, FS_Subset, FS_CardinalityType
    <3> QED
      BY <1>1, <3>1, <3>2
  <2>2. CASE d \in newest
    <3>1. Cardinality(T) = Limit /\ \A t \in T : <<t, d>> \in Rel
      <4>1. IsFiniteSet(newest) /\ Limit \in Nat /\ d \in newest /\ d \notin T
        BY <1>1, <1>3, <1>8, <2>2
      <4> QED
        BY <1>6, <1>7, <4>1, FirstsAre, SMTT(90)
    <3>2. \A t \in T : C!Before(t, d)
      BY <1>5, <1>6, <2>2, <3>1
    <3>3. {e \in T : C!Before(e, d)} = T
      BY <3>2
    <3> QED
      BY <3>1, <3>3
  <2> QED
    BY <2>1, <2>2
<1>9. T \subseteq ds
  BY <1>3, <1>6
<1> QED
  BY <1>8, <1>9 DEF T

\* Every decision of a selected run could be found: none is hidden, none is cut off.
LEMMA SelectionIsDue ==
    ASSUME ContextTypes, Numbered, Selected, C!SelectsDecisions PROVE Due'
<1> DEFINE ds == {d \in decisions : d.run \in start.ids /\ C!Young(d)}
           could == {d \in C!QueryDecisions(MaxDecisions) : d.run \in start.ids}
           ours == {d \in decisions : d.run \in C!Ours}
<1>1. /\ start.at = "decisions"
      /\ start' = [start EXCEPT !.at = "compose", !.told = C!Chosen(ds), !.could = could]
  BY DEF C!SelectsDecisions
<1>2. MaxDecisions \in Nat /\ Limit * Fan \in Nat
  <2>1. MaxDecisions \in Nat /\ Limit \in Nat /\ Fan \in Nat
    BY ContextAssumption
  <2> QED
    BY <2>1
<1>3. ASSUME NEW d \in decisions, d.run \in start.ids PROVE d \in could
  <2>1. d.run \in Sessions /\ runs[d.run].of = "ours"
    BY <1>1, <1>3, ContextAssumption DEF Selected, Numbered, C!Gone
  <2>2. d \in ours
    BY <2>1 DEF C!Ours
  <2> DEFINE later == {e \in ours : e.id > d.id}
  <2>3. later \in SUBSET decisions /\ later # decisions
    <3>1. d \notin later
      BY DEF ContextTypes, Decided
    <3> QED
      BY <3>1
  <2>4. IsFiniteSet(later) /\ Cardinality(later) <= Cardinality(decisions)
        /\ Cardinality(decisions) # Cardinality(later)
    BY <2>3, FS_Subset DEF Numbered
  <2>5. Cardinality(later) \in Nat /\ Cardinality(decisions) \in Nat
        /\ Cardinality(decisions) <= MaxDecisions
    BY <2>4, FS_CardinalityType DEF Numbered
  <2>6. Cardinality(later) < MaxDecisions
    <3> HIDE DEF later
    <3> QED
      BY <1>2, <2>4, <2>5
  <2>7. C!QueryDecisions(MaxDecisions) = {e \in ours : Cardinality({f \in ours : f.id > e.id}) < MaxDecisions}
    <3>1. ours \in SUBSET decisions
      OBVIOUS
    <3>2. C!QueryDecisions(MaxDecisions) = C!LastOf(ours, MaxDecisions)
      BY Zenon DEF C!QueryDecisions
    <3> HIDE DEF ours
    <3> QED
      BY <1>2, <3>1, <3>2, LastOfAre
  <2> HIDE DEF ours
  <2> QED
    BY <1>3, <2>2, <2>6, <2>7
<1>4. could \subseteq decisions
  BY DEF C!QueryDecisions, C!LastOf
<1>5. ds = {d \in could : C!Young(d)}
  BY <1>3, <1>4
<1>6. ds \in SUBSET decisions /\ ds \in SUBSET could
  BY <1>3
<1> HIDE DEF ds, could
<1>7. /\ C!Chosen(ds) \subseteq ds
      /\ \A d \in ds \ C!Chosen(ds) :
            \/ Cardinality({e \in C!Chosen(ds) : C!Before(e, d)}) = Limit
            \/ Cardinality({e \in ds : e.id > d.id}) >= Limit * Fan
  BY <1>6, ChosenAre
<1>8. /\ start'.at = "compose" /\ start'.told = C!Chosen(ds) /\ start'.could = could
      /\ start'.since = start.since
  BY <1>1 DEF ContextTypes, Openings
<1>9. ASSUME NEW d \in ds, Cardinality({e \in ds : e.id > d.id}) >= Limit * Fan
      PROVE  Cardinality({e \in could : e.id > d.id}) >= Limit * Fan
  <2> DEFINE few == {e \in ds : e.id > d.id}
             many == {e \in could : e.id > d.id}
  <2>1. few \in SUBSET many /\ many \in SUBSET decisions
    BY <1>4, <1>6
  <2>2. IsFiniteSet(many)
    BY <2>1, FS_Subset DEF Numbered
  <2>3. IsFiniteSet(few) /\ Cardinality(few) <= Cardinality(many)
    BY <2>1, <2>2, FS_Subset
  <2>4. Cardinality(few) \in Nat /\ Cardinality(many) \in Nat
    BY <2>2, <2>3, FS_CardinalityType
  <2>5. Cardinality(few) >= Limit * Fan
    BY <1>9
  <2>6. SUFFICES Cardinality(many) >= Limit * Fan
    OBVIOUS
  <2> HIDE DEF few, many
  <2> QED
    BY <1>2, <2>3, <2>4, <2>5
<1>10. {d \in could : start'.since - d.day < MaxAge} = ds
  BY <1>5, <1>8 DEF C!Young
<1> QED
  BY <1>6, <1>7, <1>8, <1>9, <1>10 DEF Due, C!Young, C!Before, C!Rank

\* The steps of a start that change what it tells: one selects, the others begin or go on.
LEMMA NextDue ==
    ASSUME ContextTypes, Numbered, Selected, Due, [C!Next]_contextVars PROVE Due'
<1>1. CASE start' = start
  BY <1>1 DEF Due, C!Young, C!Before, C!Rank
<1>2. CASE C!SelectsDecisions
  BY <1>2, SelectionIsDue
<1>3. ASSUME start'.told = {}, start'.could = {} PROVE Due'
  BY <1>3 DEF Due
<1>4. CASE C!Starts
  <2>1. \E known : start' = [C!NoStart EXCEPT !.known = known,
             !.unread = IF question = "files" THEN C!Files ELSE {},
             !.at = IF known = "nothing" THEN "compose" ELSE "pack"]
    BY <1>4 DEF C!Starts
  <2>2. start'.told = {} /\ start'.could = {}
    BY <2>1 DEF C!NoStart
  <2> QED
    BY <1>3, <2>2
<1>5. ASSUME NEW f \in C!Files, C!ReadsFile(f) PROVE Due'
  <2>1. start'.told = start.told /\ start'.could = start.could /\ start.at = "pack"
    BY <1>5 DEF C!ReadsFile, ContextTypes, Openings
  <2> QED
    BY <1>3, <2>1 DEF Due
<1>6. CASE C!ReadsIndex
  <2>1. PICK loaded \in BOOLEAN :
           start' = [start EXCEPT !.index = loaded,
                        !.at = IF start.known = "project" THEN "runs" ELSE "compose"]
    BY <1>6, Zenon DEF C!ReadsIndex
  <2>2. start'.told = start.told /\ start'.could = start.could /\ start.at = "pack"
    BY <1>6, <2>1 DEF C!ReadsIndex, ContextTypes, Openings
  <2> QED
    BY <1>3, <2>2 DEF Due
<1>7. CASE C!SelectsRuns
  <2>1. start'.told = start.told /\ start'.could = start.could /\ start.at = "runs"
    BY <1>7 DEF C!SelectsRuns, ContextTypes, Openings
  <2> QED
    BY <1>3, <2>1 DEF Due
<1>8. CASE C!SelectFails \/ C!Composes
  <2>1. /\ start'.told = start.told /\ start'.could = start.could /\ start'.since = start.since
        /\ start'.at \in {"compose", "answered"}
    BY <1>8 DEF C!SelectFails, C!Composes, ContextTypes, Openings
  <2> QED
    BY <2>1 DEF Due, C!Young, C!Before, C!Rank
<1>9. ASSUME NEW r \in Sessions,
             C!Opens(r) \/ C!Records(r) \/ C!Saves(r) \/ C!ReadsPack(r)
      PROVE  UNCHANGED start
  BY <1>9, Zenon DEF C!Opens, C!Records, C!Saves, C!ReadsPack, C!Told
<1>10. ASSUME NEW f \in C!Files, C!Edits(f) PROVE UNCHANGED start
  BY <1>10, Zenon DEF C!Edits, C!Told
<1>11. C!WipesDecisions \/ C!WipesRuns \/ C!NextDay \/ C!ReadsDecisions => UNCHANGED start
  BY Zenon DEF C!WipesDecisions, C!WipesRuns, C!NextDay, C!ReadsDecisions, C!Told
<1> QED
  BY <1>1, <1>2, <1>4, <1>5, <1>6, <1>7, <1>8, <1>9, <1>10, <1>11 DEF C!Next, contextVars

\* Of the first n of a run's decisions none is left out, if there are no more.
LEMMA FirstOfIsAll ==
    ASSUME ContextTypes, Numbered, NEW r,
           Cardinality(IdsOf(r)) <= PackLimit
    PROVE  C!FirstOf(C!Recorded(r), PackLimit) = C!Recorded(r)
<1> DEFINE ds == C!Recorded(r)
           f == [d \in ds |-> d.id]
<1>1. ds \in SUBSET decisions
  BY DEF C!Recorded
<1>2. IsFiniteSet(ds)
  BY <1>1, FS_Subset DEF Numbered
<1>3. IdsOf(r) = {d.id : d \in ds}
  BY DEF IdsOf
<1> HIDE DEF ds
<1>4. f \in Bijection(ds, IdsOf(r))
  <2>1. f \in [ds -> IdsOf(r)]
    BY <1>3
  <2>2. \A d, e \in ds : f[d] = f[e] => d = e
    BY <1>1 DEF Numbered
  <2>3. \A i \in IdsOf(r) : \E d \in ds : f[d] = i
    BY <1>3
  <2> HIDE DEF f
  <2> QED
    BY <2>1, <2>2, <2>3 DEF Bijection, Injection, IsInjective, Surjection
<1>5. Cardinality(ds) <= PackLimit
  <2>1. ExistsBijection(ds, IdsOf(r))
    BY <1>4 DEF ExistsBijection
  <2>2. Cardinality(IdsOf(r)) = Cardinality(ds)
    BY <1>2, <2>1, FS_Bijection
  <2> QED
    BY <2>2
<1>6. ASSUME NEW d \in ds PROVE Cardinality({e \in ds : e.id < d.id}) < PackLimit
  <2> DEFINE early == {e \in ds : e.id < d.id}
  <2>1. early \in SUBSET ds /\ early # ds
    <3>1. ~(d.id < d.id)
      BY <1>1 DEF ContextTypes, Decided
    <3> QED
      BY <3>1
  <2>2. IsFiniteSet(early) /\ Cardinality(early) <= Cardinality(ds)
        /\ Cardinality(early) # Cardinality(ds)
    BY <1>2, <2>1, FS_Subset
  <2>3. Cardinality(early) \in Nat /\ Cardinality(ds) \in Nat /\ PackLimit \in Nat
    BY <1>2, <2>2, FS_CardinalityType, ContextAssumption
  <2>4. SUFFICES Cardinality(early) < PackLimit
    OBVIOUS
  <2> HIDE DEF early
  <2> QED
    BY <1>5, <2>2, <2>3
<1>7. C!FirstOf(ds, PackLimit) = {d \in ds : Cardinality({e \in ds : e.id < d.id}) < PackLimit}
  BY CountsAgree DEF C!FirstOf
<1>8. C!FirstOf(ds, PackLimit) = ds
  BY <1>6, <1>7
<1> QED
  BY <1>8 DEF ds

\* What becomes of the decisions of a run: they are only added to, until a reset.
LEMMA IdsGrow ==
    ASSUME ContextTypes, Numbered, Cited, [C!Next]_contextVars, trouble' = 0
    PROVE  trouble = 0 /\ wiped' = wiped /\ \A r \in Sessions : IdsOf(r) \subseteq IdsOf(r)'
<1>1. CASE UNCHANGED contextVars
  BY <1>1 DEF contextVars, IdsOf, C!Recorded
<1>2. trouble = 0
  <2>1. ~C!Trouble
    BY DEF C!Trouble, ContextTypes
  <2>2. \A f \in C!Files : ~C!Edits(f)
    BY <2>1 DEF C!Edits
  <2>3. ~C!WipesDecisions /\ ~C!SelectFails
    BY <2>1, Zenon DEF C!WipesDecisions, C!SelectFails
  <2>4. ASSUME NEW r \in Sessions,
               C!Opens(r) \/ C!Records(r) \/ C!Saves(r) \/ C!ReadsPack(r)
        PROVE  UNCHANGED trouble
    BY <2>4, Zenon DEF C!Opens, C!Records, C!Saves, C!ReadsPack
  <2>5. ASSUME NEW f \in C!Files, C!ReadsFile(f) PROVE UNCHANGED trouble
    BY <2>5, Zenon DEF C!ReadsFile
  <2>6. C!WipesRuns \/ C!NextDay \/ C!ReadsDecisions \/ C!Starts \/ C!ReadsIndex => UNCHANGED trouble
    BY Zenon DEF C!WipesRuns, C!NextDay, C!ReadsDecisions, C!Starts, C!ReadsIndex
  <2>7. C!SelectsRuns \/ C!SelectsDecisions \/ C!Composes => UNCHANGED trouble
    BY Zenon DEF C!SelectsRuns, C!SelectsDecisions, C!Composes
  <2> QED
    BY <1>1, <2>2, <2>3, <2>4, <2>5, <2>6, <2>7 DEF C!Next, contextVars
<1>3. ~C!WipesDecisions /\ ~C!WipesRuns
  <2>1. ~C!Trouble
    BY <1>2 DEF C!Trouble
  <2>2. ~wiped
    BY <1>2 DEF Cited
  <2> QED
    BY <2>1, <2>2, Zenon DEF C!WipesDecisions, C!WipesRuns
<1>4. decisions \subseteq decisions'
  <2>1. CASE Looks
    BY <2>1, LooksLeave
  <2>2. ASSUME NEW r \in Sessions, C!Opens(r) \/ C!Records(r)
        PROVE  decisions \subseteq decisions'
    BY <2>2 DEF C!Opens, C!Records
  <2> QED
    BY <1>3, <2>1, <2>2, ContextSteps
<1>5. UNCHANGED wiped
  <2>1. ASSUME NEW r \in Sessions,
               C!Opens(r) \/ C!Records(r) \/ C!Saves(r) \/ C!ReadsPack(r)
        PROVE  UNCHANGED wiped
    BY <2>1, Zenon DEF C!Opens, C!Records, C!Saves, C!ReadsPack
  <2>2. ASSUME NEW f \in C!Files, C!ReadsFile(f) \/ C!Edits(f) PROVE UNCHANGED wiped
    BY <2>2, Zenon DEF C!ReadsFile, C!Edits
  <2>3. C!NextDay \/ C!ReadsDecisions \/ C!Starts \/ C!ReadsIndex \/ C!SelectFails => UNCHANGED wiped
    BY Zenon DEF C!NextDay, C!ReadsDecisions, C!Starts, C!ReadsIndex, C!SelectFails
  <2>4. C!SelectsRuns \/ C!SelectsDecisions \/ C!Composes => UNCHANGED wiped
    BY Zenon DEF C!SelectsRuns, C!SelectsDecisions, C!Composes
  <2> QED
    BY <1>1, <1>3, <2>1, <2>2, <2>3, <2>4 DEF C!Next, contextVars
<1> QED
  BY <1>2, <1>4, <1>5 DEF IdsOf, C!Recorded

LEMMA NextCited ==
    ASSUME ContextTypes, Numbered, Cited, [C!Next]_contextVars PROVE Cited'
<1> SUFFICES ASSUME trouble' = 0 PROVE Cited'
  BY DEF Cited, C!PacksBringDecisions
<1>1. /\ trouble = 0 /\ ~wiped' /\ ~wiped
      /\ \A r \in Sessions : IdsOf(r) \subseteq IdsOf(r)' /\ packs[r].cites \subseteq IdsOf(r)
  BY IdsGrow DEF Cited
<1>2. ASSUME NEW r \in Sessions PROVE packs'[r].cites \subseteq IdsOf(r)'
  <2>1. CASE packs'[r] = packs[r]
    BY <1>1, <2>1
  <2>2. CASE C!Saves(r)
    <3>1. \E by \in {"bridge_auto", "agent"}, cites \in SUBSET {d.id : d \in C!Recorded(r)} :
             packs' = [packs EXCEPT ![r] = [by |-> by, cites |-> cites]]
      BY <2>2 DEF C!Saves
    <3>2. packs'[r].cites \subseteq IdsOf(r)
      BY <3>1 DEF IdsOf, ContextTypes
    <3> QED
      BY <1>1, <3>2
  <2>3. packs'[r] = packs[r] \/ C!Saves(r)
    <3>1. ASSUME NEW s \in Sessions, C!Saves(s) PROVE packs'[r] = packs[r] \/ C!Saves(r)
      <4>1. CASE s = r
        BY <3>1, <4>1
      <4>2. CASE s # r
        BY <3>1, <4>2 DEF C!Saves, ContextTypes
      <4> QED
        BY <4>1, <4>2
    <3>2. ASSUME NEW s \in Sessions, C!Opens(s) \/ C!Records(s) \/ C!ReadsPack(s)
          PROVE  UNCHANGED packs
      BY <3>2, Zenon DEF C!Opens, C!Records, C!ReadsPack
    <3>3. ASSUME NEW f \in C!Files, C!ReadsFile(f) \/ C!Edits(f) PROVE UNCHANGED packs
      BY <3>3, Zenon DEF C!ReadsFile, C!Edits
    <3>4. C!WipesDecisions \/ C!NextDay \/ C!ReadsDecisions \/ C!Starts \/ C!ReadsIndex => UNCHANGED packs
      BY Zenon DEF C!WipesDecisions, C!NextDay, C!ReadsDecisions, C!Starts, C!ReadsIndex
    <3>5. C!SelectFails \/ C!SelectsRuns \/ C!SelectsDecisions \/ C!Composes => UNCHANGED packs
      BY Zenon DEF C!SelectFails, C!SelectsRuns, C!SelectsDecisions, C!Composes
    <3>6. ~C!WipesRuns
      BY <1>1, Zenon DEF C!WipesRuns
    <3> QED
      BY <3>1, <3>2, <3>3, <3>4, <3>5, <3>6 DEF C!Next, contextVars
  <2> QED
    BY <2>1, <2>2, <2>3
<1>3. /\ (reader.at = "pack" => reader.run \in Sessions /\ reader.cites \subseteq IdsOf(reader.run))'
      /\ C!PacksBringDecisions'
  <2>1. CASE reader' = reader
    <3>1. reader.at = "pack" => reader.run \in Sessions /\ reader.cites \subseteq IdsOf(reader.run)
      BY <1>1 DEF Cited
    <3>2. (reader.at = "pack" => reader.run \in Sessions /\ reader.cites \subseteq IdsOf(reader.run))'
      BY <1>1, <2>1, <3>1 DEF IdsOf, C!Recorded
    <3>3. C!PacksBringDecisions'
      BY <1>1, <2>1 DEF Cited, C!PacksBringDecisions
    <3> QED
      BY <3>2, <3>3
  <2>2. ASSUME NEW r \in Sessions, C!ReadsPack(r) PROVE <1>3
    <3>1. /\ reader' = [C!NoReader EXCEPT !.at = "pack", !.run = r, !.cites = packs[r].cites]
          /\ UNCHANGED decisions
      BY <2>2 DEF C!ReadsPack
    <3>2. reader'.at = "pack" /\ reader'.run = r /\ reader'.cites = packs[r].cites
      BY <3>1 DEF C!NoReader
    <3> QED
      BY <1>1, <3>1, <3>2 DEF IdsOf, C!Recorded, C!PacksBringDecisions
  <2>3. CASE C!ReadsDecisions
    <3> DEFINE got == {d.id : d \in C!FirstOf(C!Recorded(reader.run), PackLimit)}
               all == IdsOf(reader.run)
    <3>1. reader.at = "pack" /\ reader' = [reader EXCEPT !.at = "answered", !.got = got, !.all = all]
      BY <2>3 DEF C!ReadsDecisions, IdsOf
    <3>2. /\ reader'.at = "answered" /\ reader'.got = got /\ reader'.all = all
          /\ reader'.cites = reader.cites /\ reader.cites \subseteq all
      BY <1>1, <3>1 DEF Cited, ContextTypes, Readings
    <3>3. Cardinality(all) <= PackLimit => got = all
      BY FirstOfIsAll DEF IdsOf
    <3> HIDE DEF got, all
    <3> QED
      BY <3>2, <3>3, CountsAgree DEF C!PacksBringDecisions
  <2>4. reader' = reader \/ C!ReadsDecisions \/ \E r \in Sessions : C!ReadsPack(r)
    <3>1. ASSUME NEW r \in Sessions, C!Opens(r) \/ C!Records(r) \/ C!Saves(r)
          PROVE  UNCHANGED reader
      BY <3>1, Zenon DEF C!Opens, C!Records, C!Saves, C!Told
    <3>2. ASSUME NEW f \in C!Files, C!ReadsFile(f) \/ C!Edits(f) PROVE UNCHANGED reader
      BY <3>2, Zenon DEF C!ReadsFile, C!Edits, C!Told
    <3>3. C!WipesDecisions \/ C!WipesRuns \/ C!NextDay \/ C!Starts \/ C!ReadsIndex => UNCHANGED reader
      BY Zenon DEF C!WipesDecisions, C!WipesRuns, C!NextDay, C!Starts, C!ReadsIndex, C!Told
    <3>4. C!SelectFails \/ C!SelectsRuns \/ C!SelectsDecisions \/ C!Composes => UNCHANGED reader
      BY Zenon DEF C!SelectFails, C!SelectsRuns, C!SelectsDecisions, C!Composes
    <3> QED
      BY <3>1, <3>2, <3>3, <3>4 DEF C!Next, contextVars
  <2> QED
    BY <2>1, <2>2, <2>3, <2>4
<1> QED
  BY <1>1, <1>2, <1>3 DEF Cited

\* The contract is the last heading or the last but one, and only decisions follow it.
LEMMA ComposedTells ==
    ASSUME ContextTypes, C!Composes PROVE C!ContractIsTold'
<1> DEFINE p1 == C!Block("spec.md" \in start.pack, "pack")
           p2 == C!Block(start.index, "index")
           t == C!Block(start.told # {}, "decisions")
           p == p1 \o p2
           c == p \o <<"contract">>
           b == c \o t
<1>1. start'.blocks = b
  BY DEF C!Composes, ContextTypes, Openings
<1>2. /\ p1 \in Seq(Headings) /\ p2 \in Seq(Headings) /\ t \in Seq(Headings)
      /\ <<"contract">> \in Seq(Headings)
      /\ p1 \in {<<>>, <<"pack">>} /\ p2 \in {<<>>, <<"index">>}
  <2>1. <<>> \in Seq(Headings) /\ \A h \in Headings : <<h>> \in Seq(Headings)
    OBVIOUS
  <2>2. {"pack", "index", "contract", "decisions"} = Headings
    BY DEF Headings
  <2>3. p1 \in {<<>>, <<"pack">>} /\ p2 \in {<<>>, <<"index">>} /\ t \in {<<>>, <<"decisions">>}
    BY DEF C!Block
  <2> HIDE DEF p1, p2, t
  <2> QED
    BY <2>1, <2>2, <2>3
<1> HIDE DEF p1, p2, t
<1>3. p \in Seq(Headings) /\ \A j \in 1..Len(p) : p[j] # "decisions"
  <2>1. /\ p \in Seq(Headings) /\ Len(p) = Len(p1) + Len(p2)
        /\ \A i \in 1..(Len(p1) + Len(p2)) : p[i] = IF i <= Len(p1) THEN p1[i] ELSE p2[i - Len(p1)]
    BY <1>2, ConcatProperties
  <2>2. Len(p1) \in 0..1 /\ Len(p2) \in 0..1
        /\ (Len(p1) = 1 => p1[1] = "pack") /\ (Len(p2) = 1 => p2[1] = "index")
    BY <1>2
  <2> HIDE DEF p
  <2> QED
    BY <2>1, <2>2
<1> HIDE DEF p
<1>4. /\ c \in Seq(Headings) /\ Len(c) = Len(p) + 1
      /\ \A i \in 1..(Len(p) + 1) : c[i] = IF i <= Len(p) THEN p[i] ELSE <<"contract">>[i - Len(p)]
  <2>1. Len(<<"contract">>) = 1
    OBVIOUS
  <2> QED
    BY <1>2, <1>3, <2>1, ConcatProperties
<1>5. Len(p) \in Nat /\ Len(t) \in Nat
  BY <1>2, <1>3
<1>6. c[Len(p) + 1] = "contract"
  <2>1. c[Len(p) + 1] = <<"contract">>[Len(p) + 1 - Len(p)] /\ Len(p) + 1 - Len(p) = 1
    BY <1>4, <1>5
  <2> QED
    BY <2>1
<1> HIDE DEF c
<1>7. /\ b \in Seq(Headings) /\ Len(b) = Len(c) + Len(t)
      /\ \A i \in 1..(Len(c) + Len(t)) : b[i] = IF i <= Len(c) THEN c[i] ELSE t[i - Len(c)]
  <2>1. c \in Seq(Headings) /\ t \in Seq(Headings)
    BY <1>2, <1>4
  <2> QED
    BY <2>1, ConcatProperties, SMTT(60)
<1> HIDE DEF b
<1>8. Len(p) + 1 \in 1..Len(b) /\ b[Len(p) + 1] = "contract"
  BY <1>4, <1>5, <1>6, <1>7
<1>9. ASSUME NEW j \in 1..Len(b), b[j] = "decisions" PROVE Len(p) + 1 < j
  <2>1. CASE j <= Len(p)
    <3>1. b[j] = c[j] /\ c[j] = p[j]
      BY <1>4, <1>5, <1>7, <2>1
    <3> QED
      BY <1>3, <1>5, <1>9, <2>1, <3>1
  <2>2. CASE j = Len(p) + 1
    BY <1>8, <1>9, <2>2
  <2> QED
    BY <1>5, <1>7, <2>1, <2>2
<1> QED
  BY <1>1, <1>8, <1>9 DEF C!ContractIsTold

LEMMA NextContract ==
    ASSUME ContextTypes, C!ContractIsTold, [C!Next]_contextVars PROVE C!ContractIsTold'
<1>1. CASE start' = start
  BY <1>1 DEF C!ContractIsTold
<1>2. CASE start'.at # "answered"
  BY <1>2 DEF C!ContractIsTold
<1>3. CASE C!Composes
  BY <1>3, ComposedTells
<1>4. C!Starts => start'.at # "answered"
  <2>1. C!Starts => \E known : start' = [C!NoStart EXCEPT !.known = known,
             !.unread = IF question = "files" THEN C!Files ELSE {},
             !.at = IF known = "nothing" THEN "compose" ELSE "pack"]
    BY DEF C!Starts
  <2> QED
    BY <2>1 DEF C!NoStart
<1>5. ASSUME NEW f \in C!Files, C!ReadsFile(f) PROVE start'.at # "answered"
  BY <1>5 DEF C!ReadsFile, ContextTypes, Openings
<1>6. C!ReadsIndex \/ C!SelectsRuns => start'.at # "answered"
  BY DEF C!ReadsIndex, C!SelectsRuns, ContextTypes, Openings
<1>7. C!SelectsDecisions \/ C!SelectFails => start'.at # "answered"
  BY DEF C!SelectsDecisions, C!SelectFails, ContextTypes, Openings
<1>8. ASSUME NEW r \in Sessions,
             C!Opens(r) \/ C!Records(r) \/ C!Saves(r) \/ C!ReadsPack(r)
      PROVE  UNCHANGED start
  BY <1>8, Zenon DEF C!Opens, C!Records, C!Saves, C!ReadsPack, C!Told
<1>9. ASSUME NEW f \in C!Files, C!Edits(f) PROVE UNCHANGED start
  BY <1>9, Zenon DEF C!Edits, C!Told
<1>10. C!WipesDecisions \/ C!WipesRuns \/ C!NextDay \/ C!ReadsDecisions => UNCHANGED start
  BY Zenon DEF C!WipesDecisions, C!WipesRuns, C!NextDay, C!ReadsDecisions, C!Told
<1> QED
  BY <1>1, <1>2, <1>3, <1>4, <1>5, <1>6, <1>7, <1>8, <1>9, <1>10 DEF C!Next, contextVars

LEMMA NextContextInv ==
    ASSUME ContextInv, [C!Next]_contextVars PROVE ContextInv'
<1>1. ContextTypes /\ Numbered /\ Selected /\ Due /\ Cited /\ C!ContractIsTold
  BY DEF ContextInv
<1> QED
  BY <1>1, NextContextTypes, NextNumbered, NextSelected, NextDue, NextCited, NextContract
     DEF ContextInv

LEMMA ContextInvImplies == ContextInv => C!SessionsAreInformed
<1> SUFFICES ASSUME ContextInv PROVE C!SessionsAreInformed
  OBVIOUS
<1>1. C!DecisionsAreDue
  <2>1. \A s : C!Cardinality(s) = Cardinality(s)
    BY CountsAgree
  <2>2. Due
    BY DEF ContextInv
  <2> QED
    BY <2>1, <2>2, Zenon DEF Due, C!DecisionsAreDue
<1>2. C!PacksBringDecisions /\ C!ContractIsTold
  BY DEF ContextInv, Cited
<1> QED
  BY <1>1, <1>2 DEF C!SessionsAreInformed

\* What a start tells and leaves out, what a pack is read with, whatever fails
\* (recent-decisions.ts, session-start.ts, read-context-pack), and one reminder a session.
THEOREM SessionsHold == WorkSpec => []SessionsAreInformed
<1>1. WorkInit => ContextInv
  BY InitContextInv DEF WorkInit
<1>2. ContextInv /\ [WorkNext]_workVars => ContextInv'
  <2>1. [WorkNext]_workVars => [C!Next]_contextVars
    BY DEF WorkNext, Among, workVars
  <2> QED
    BY <2>1, NextContextInv
<1>3. ContextInv /\ N!ReminderIsFair => SessionsAreInformed
  BY ContextInvImplies DEF SessionsAreInformed
<1> QED
  BY <1>1, <1>2, <1>3, RemindersHold, PTL DEF WorkSpec

=============================================================================
