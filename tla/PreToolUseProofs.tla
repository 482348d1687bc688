--------------------------- MODULE PreToolUseProofs ---------------------------
(***************************************************************************)
(* Proofs about KillSwitchGate, for any switches and checks, and about      *)
(* PreToolUse, for any rules, calls and hooks besides: the hooks implement  *)
(* the gate, the policy engine's window and its breaker, and what follows   *)
(* for the answer of the hook.                                              *)
(***************************************************************************)
EXTENDS PreToolUse, FiniteSetTheorems, WellFoundedInduction, TLAPS

-----------------------------------------------------------------------------
(* The gate. Its inductive invariant: a list that serves a check was right  *)
(* at some time of the window before the check's start.                      *)

\* L was read by a check that started at c.
ReadSince(L, c) ==
    /\ \A s \in L : /\ s \in paused /\ ~ Expired(s, c)
                    /\ s \in resumed => c <= resumedAt[s]
    /\ \A s \in paused \ resumed : s \notin L => c <= pausedAt[s] \/ Expired(s, c)

Served(k) ==
    \E c \in Int : /\ c <= check[k].at /\ check[k].at < c + CacheMs
                   /\ ReadSince(check[k].switches, c)

CacheOK ==
    /\ cache.expiresAt - CacheMs <= now
    /\ ReadSince(cache.switches, cache.expiresAt - CacheMs)

ChecksOK ==
    \A k \in Checks :
        /\ check[k].at <= now
        /\ check[k].pc = "store" => ReadSince(check[k].switches, check[k].at)
        /\ check[k].pc \in {"matched", "none"} => Served(k)
        /\ check[k].pc = "matched" => check[k].answer \in First(check[k].switches)
        /\ check[k].pc = "none" => check[k].switches \cap Matches = {}

IInv == TypeOK /\ CacheOK /\ ChecksOK

LEMMA InitIInv == Init => IInv
BY GateAssumption
DEF Init, IInv, TypeOK, Check, CacheOK, ChecksOK, ReadSince, Expired

\* The invariant says what the properties say.
LEMMA ServedBinds == IInv => PausesBind /\ ResumesBind
<1> SUFFICES ASSUME IInv PROVE PausesBind /\ ResumesBind
  OBVIOUS
<1> USE GateAssumption DEF IInv, TypeOK, Check, Expired
<1>1. PausesBind
  <2> SUFFICES ASSUME NEW k \in Checks, NEW s \in (paused \ resumed) \cap Matches,
                      check[k].pc \in {"matched", "none"},
                      pausedAt[s] + CacheMs <= check[k].at,
                      ~ Expired(s, check[k].at)
               PROVE  /\ check[k].pc = "matched"
                      /\ pausedAt[check[k].answer] <= pausedAt[s]
    BY DEF PausesBind
  <2>1. PICK c \in Int : /\ c <= check[k].at /\ check[k].at < c + CacheMs
                         /\ ReadSince(check[k].switches, c)
    BY DEF ChecksOK, Served
  <2>2. s \in check[k].switches
    BY <2>1 DEF ReadSince
  <2> QED
    BY <2>2 DEF ChecksOK, First
<1>2. ResumesBind
  <2> SUFFICES ASSUME NEW k \in Checks, check[k].pc = "matched"
               PROVE  LET s == check[k].answer IN
                      /\ s \in resumed => resumedAt[s] + CacheMs > check[k].at
                      /\ ~ Expired(s, check[k].at - CacheMs)
    BY DEF ResumesBind
  <2> DEFINE s == check[k].answer
  <2>1. PICK c \in Int : /\ c <= check[k].at /\ check[k].at < c + CacheMs
                         /\ ReadSince(check[k].switches, c)
    BY DEF ChecksOK, Served
  <2>2. s \in check[k].switches
    BY DEF ChecksOK, First
  <2>3. s \in paused /\ ~ Expired(s, c) /\ (s \in resumed => c <= resumedAt[s])
    BY <2>1, <2>2 DEF ReadSince
  <2> QED
    BY <2>1, <2>3
<1> QED
  BY <1>1, <1>2

-----------------------------------------------------------------------------
(* Each step preserves it.                                                  *)

\* The operator's steps leave a list that was right, right.
LEMMA OperatorKeeps ==
    ASSUME TypeOK, NEW s \in Switches, Pause(s) \/ Resume(s),
           NEW L \in SUBSET Switches, NEW c \in Int, c <= now, ReadSince(L, c)
    PROVE  ReadSince(L, c)'
<1> USE GateAssumption DEF TypeOK, ReadSince, Expired
<1>1. CASE Pause(s)
  BY <1>1 DEF Pause
<1>2. CASE Resume(s)
  BY <1>2 DEF Resume
<1> QED
  BY <1>1, <1>2

LEMMA OperatorKeepsIInv ==
    ASSUME IInv, NEW s \in Switches, Pause(s) \/ Resume(s)
    PROVE  IInv'
<1> USE GateAssumption DEF IInv, TypeOK, Check
<1>1. UNCHANGED <<now, cache, check>>
  BY DEF Pause, Resume
<1>2. TypeOK'
  BY <1>1 DEF Pause, Resume
<1>3. CacheOK'
  BY <1>1, OperatorKeeps DEF CacheOK
<1>4. ASSUME NEW k \in Checks
      PROVE  /\ check[k].pc = "store" => ReadSince(check[k].switches, check[k].at)'
             /\ check[k].pc \in {"matched", "none"} => Served(k)'
             /\ check[k].pc = "matched" =>
                  check[k].switches \subseteq paused
                  /\ check[k].answer \in First(check[k].switches)'
  <2>1. check[k].pc = "store" => ReadSince(check[k].switches, check[k].at)'
    BY <1>1, OperatorKeeps DEF ChecksOK
  <2>2. ASSUME check[k].pc \in {"matched", "none"}
        PROVE  Served(k)' /\ check[k].switches \subseteq paused
    <3>1. PICK c \in Int : /\ c <= check[k].at /\ check[k].at < c + CacheMs
                           /\ ReadSince(check[k].switches, c)
      BY <2>2 DEF ChecksOK, Served
    <3>2. ReadSince(check[k].switches, c)'
      BY <1>1, <3>1, OperatorKeeps DEF ChecksOK
    <3> QED
      BY <1>1, <3>1, <3>2 DEF Served, ReadSince
  <2>3. ASSUME check[k].pc = "matched"
        PROVE  check[k].answer \in First(check[k].switches)'
    <3>1. \A r \in paused : pausedAt'[r] = pausedAt[r]
      BY DEF Pause, Resume
    <3> QED
      BY <1>1, <2>2, <2>3, <3>1 DEF ChecksOK, First
  <2> QED
    BY <2>1, <2>2, <2>3
<1>5. ChecksOK'
  BY <1>1, <1>4 DEF ChecksOK
<1> QED
  BY <1>2, <1>3, <1>5

\* A step that leaves the switches alone leaves what is said of a list alone.
LEMMA SwitchesUnchanged ==
    ASSUME UNCHANGED <<paused, resumed, pausedAt, resumedAt>>,
           NEW L \in SUBSET Switches, NEW c \in Int
    PROVE  /\ ReadSince(L, c)' <=> ReadSince(L, c)
           /\ First(L)' = First(L)
BY DEF ReadSince, Expired, First

\* Answering by a list that was right since c.
LEMMA AnswersKeep ==
    ASSUME IInv, NEW k \in Checks, NEW at \in Nat, at <= now,
           NEW L \in SUBSET Switches, NEW c \in Int,
           c <= at, at < c + CacheMs, ReadSince(L, c),
           Answers(k, at, L),
           UNCHANGED <<now, paused, resumed, pausedAt, resumedAt>>
    PROVE  check' \in [Checks -> Check] /\ ChecksOK'
<1> USE DEF IInv, TypeOK, Check
<1>1. PICK p \in {"matched", "none"}, a \in Switches \cup {NoSwitch} :
        /\ check' = [check EXCEPT ![k] = [pc |-> p, at |-> at, switches |-> L,
                                          answer |-> a]]
        /\ p = "matched" => a \in First(L)
        /\ p = "none" => L \cap Matches = {}
  BY DEF Answers, First
<1>2. check' \in [Checks -> Check]
  BY <1>1
<1>3. check'[k] = [pc |-> p, at |-> at, switches |-> L, answer |-> a]
  BY <1>1
<1>4. Served(k)'
  <2>1. ReadSince(L, c)'
    BY SwitchesUnchanged
  <2> QED
    BY <1>3, <2>1 DEF Served
<1>5. ASSUME NEW j \in Checks \ {k}
      PROVE  /\ check'[j] = check[j]
             /\ check[j].switches \in SUBSET Switches /\ check[j].at \in Int
             /\ Served(j)' <=> Served(j)
             /\ ReadSince(check[j].switches, check[j].at)'
                  <=> ReadSince(check[j].switches, check[j].at)
             /\ First(check[j].switches)' = First(check[j].switches)
  <2>1. check'[j] = check[j]
    BY <1>1
  <2>2. check[j].switches \in SUBSET Switches /\ check[j].at \in Int
    OBVIOUS
  <2>3. \A d \in Int : ReadSince(check[j].switches, d)'
                         <=> ReadSince(check[j].switches, d)
    BY <2>1, <2>2 DEF ReadSince, Expired
  <2> QED
    BY <2>1, <2>2, <2>3 DEF Served, First
<1>6. First(L)' = First(L)
  BY DEF First
<1>7. ChecksOK'
  BY <1>1, <1>3, <1>4, <1>5, <1>6 DEF ChecksOK
<1> QED
  BY <1>2, <1>7

LEMMA CheckKeepsIInv ==
    ASSUME IInv, NEW k \in Checks, Begin(k) \/ Fetch(k) \/ Store(k)
    PROVE  IInv'
<1> USE GateAssumption DEF IInv, TypeOK, Check
<1>1. UNCHANGED <<now, paused, resumed, pausedAt, resumedAt>>
  BY DEF Begin, Fetch, Store
<1>2. ASSUME UNCHANGED cache PROVE CacheOK'
  BY <1>1, <1>2 DEF CacheOK, ReadSince, Expired
<1>3. ASSUME NEW v \in Check, v.pc \notin {"matched", "none"}, v.at <= now,
             v.pc = "store" => ReadSince(v.switches, v.at),
             check' = [check EXCEPT ![k] = v]
      PROVE  check' \in [Checks -> Check] /\ ChecksOK'
  <2>1. \A j \in Checks \ {k} : check'[j] = check[j]
    BY <1>3
  <2>2. ASSUME NEW j \in Checks \ {k}, NEW c \in Int
        PROVE  /\ ReadSince(check[j].switches, c)' <=> ReadSince(check[j].switches, c)
               /\ First(check[j].switches)' = First(check[j].switches)
    BY <1>1, <2>1 DEF ReadSince, Expired, First
  <2>3. ASSUME NEW j \in Checks \ {k} PROVE Served(j)' <=> Served(j)
    BY <2>1, <2>2 DEF Served
  <2>4. ReadSince(v.switches, v.at)' <=> ReadSince(v.switches, v.at)
    BY <1>1 DEF ReadSince, Expired
  <2>5. check'[k] = v
    BY <1>3
  <2>6. \A j \in Checks \ {k} : check[j].at \in Int
    OBVIOUS
  <2>7. ChecksOK'
    BY <1>1, <1>3, <2>1, <2>2, <2>3, <2>4, <2>5, <2>6 DEF ChecksOK
  <2> QED
    BY <1>3, <2>7
<1>4. CASE Begin(k)
  <2>1. CASE Fresh /\ Answers(k, now, cache.switches)
    <3> DEFINE c == cache.expiresAt - CacheMs
    <3>1. c \in Int /\ c <= now /\ now < c + CacheMs /\ ReadSince(cache.switches, c)
      BY <2>1 DEF Fresh, CacheOK
    <3>2. check' \in [Checks -> Check] /\ ChecksOK'
      BY <1>1, <2>1, <3>1, AnswersKeep
    <3> QED
      BY <1>1, <1>2, <1>4, <3>2 DEF Begin
  <2>2. CASE check' = [check EXCEPT ![k] = [pc |-> "fetch", at |-> now,
                                            switches |-> {}, answer |-> NoSwitch]]
    <3> DEFINE v == [pc |-> "fetch", at |-> now, switches |-> {}, answer |-> NoSwitch]
    <3>1. v \in Check /\ v.pc = "fetch" /\ v.at <= now
      OBVIOUS
    <3>2. check' \in [Checks -> Check] /\ ChecksOK'
      BY <1>3, <2>2, <3>1
    <3> QED
      BY <1>1, <1>2, <1>4, <3>2 DEF Begin
  <2> QED
    BY <1>4, <2>1, <2>2 DEF Begin
<1>5. CASE Fetch(k)
  <2>1. CASE check' = [check EXCEPT ![k].pc = "store",
                                    ![k].switches = Active(check[k].at)]
    <3> DEFINE v == [check[k] EXCEPT !.pc = "store", !.switches = Active(check[k].at)]
    <3>1. v \in Check /\ v.pc = "store" /\ v.at = check[k].at
          /\ v.switches = Active(check[k].at)
      BY DEF Active
    <3>2. ReadSince(v.switches, v.at)
      BY <3>1 DEF ReadSince, Active
    <3>3. check' = [check EXCEPT ![k] = v]
      BY <2>1
    <3>4. check' \in [Checks -> Check] /\ ChecksOK'
      BY <1>3, <3>1, <3>2, <3>3 DEF ChecksOK
    <3> QED
      BY <1>1, <1>2, <1>5, <3>4 DEF Fetch
  <2>2. CASE check' = [check EXCEPT ![k].pc = "unavailable"]
    <3> DEFINE v == [check[k] EXCEPT !.pc = "unavailable"]
    <3>1. v \in Check /\ v.pc = "unavailable" /\ v.at = check[k].at
      OBVIOUS
    <3>2. check' = [check EXCEPT ![k] = v]
      BY <2>2
    <3>3. check' \in [Checks -> Check] /\ ChecksOK'
      BY <1>3, <3>1, <3>2 DEF ChecksOK
    <3> QED
      BY <1>1, <1>2, <1>5, <3>3 DEF Fetch
  <2> QED
    BY <1>5, <2>1, <2>2 DEF Fetch
<1>6. CASE Store(k)
  <2> DEFINE c == check[k].at
             L == check[k].switches
  <2>1. c \in Nat /\ c <= now /\ c < c + CacheMs /\ L \in SUBSET Switches
        /\ ReadSince(L, c)
    BY <1>6 DEF Store, ChecksOK
  <2>2. check' \in [Checks -> Check] /\ ChecksOK'
    BY <1>1, <1>6, <2>1, AnswersKeep DEF Store
  <2>3. cache' = [switches |-> L, expiresAt |-> c + CacheMs]
    BY <1>6 DEF Store, ExpiresAt
  <2>4. cache' \in [switches : SUBSET Switches, expiresAt : Nat]
    BY <2>1, <2>3
  <2>5. CacheOK'
    BY <1>1, <2>1, <2>3 DEF CacheOK, ReadSince, Expired
  <2> QED
    BY <1>1, <2>2, <2>4, <2>5
<1> QED
  BY <1>4, <1>5, <1>6

LEMMA NextIInv == IInv /\ [Next]_vars => IInv'
<1> SUFFICES ASSUME IInv, [Next]_vars PROVE IInv'
  OBVIOUS
<1>1. CASE Tick \/ UNCHANGED vars
  <2>1. /\ UNCHANGED <<paused, resumed, pausedAt, resumedAt, cache, check>>
        /\ now' \in Nat /\ now <= now'
    BY <1>1 DEF Tick, vars, IInv, TypeOK
  <2>2. TypeOK'
    BY <2>1 DEF IInv, TypeOK
  <2>3. CacheOK'
    BY <2>1, GateAssumption DEF IInv, TypeOK, CacheOK, ReadSince, Expired
  <2>4. ASSUME NEW k \in Checks PROVE Served(k)' <=> Served(k)
    BY <2>1 DEF Served, ReadSince, Expired
  <2>5. ChecksOK'
    BY <2>1, <2>4 DEF IInv, TypeOK, Check, ChecksOK, ReadSince, Expired, First
  <2> QED
    BY <2>2, <2>3, <2>5 DEF IInv
<1>2. ASSUME NEW s \in Switches, Pause(s) \/ Resume(s) PROVE IInv'
  BY <1>2, OperatorKeepsIInv
<1>3. ASSUME NEW k \in Checks, Begin(k) \/ Fetch(k) \/ Store(k) PROVE IInv'
  BY <1>3, CheckKeepsIInv
<1> QED
  BY <1>1, <1>2, <1>3 DEF Next

-----------------------------------------------------------------------------
(* The theorems.                                                            *)

\* What serves a check was right at some time of its window.
THEOREM InductiveInvariant == Spec => []IInv
<1>1. Init => IInv
  BY InitIInv
<1>2. IInv /\ [Next]_vars => IInv'
  BY NextIInv
<1> QED
  BY <1>1, <1>2, PTL DEF Spec

\* The clock, the rows, the cache and the checks keep their shapes.
THEOREM TypeCorrect == Spec => []TypeOK
<1>1. IInv => TypeOK
  BY DEF IInv
<1> QED
  BY <1>1, InductiveInvariant, PTL

\* kill-switches.ts: a pause binds every check that starts a TTL later, for any TTL,
\* however many checks overlap and however slow the lookups are.
THEOREM WindowIsBounded == Spec => []PausesBind
<1>1. IInv => PausesBind
  BY ServedBinds
<1> QED
  BY <1>1, InductiveInvariant, PTL

\* kill-switches.ts: a resume, or an expiry, frees every check that starts a TTL later:
\* no check is stopped by a switch that is over, whatever cache it reads.
THEOREM ResumesAreSeen == Spec => []ResumesBind
<1>1. IInv => ResumesBind
  BY ServedBinds
<1> QED
  BY <1>1, InductiveInvariant, PTL

-----------------------------------------------------------------------------
(* The first by priority: a finite set of rules that is not empty has one.  *)

LEMMA FirstByPriority ==
    ASSUME NEW F, IsFiniteSet(F), F # {}, \A r \in F : r.priority \in Int
    PROVE  \E r \in F : \A s \in F : r.priority <= s.priority
<1> DEFINE Before(r) == {s \in F : s.priority < r.priority}
           T == {Before(r) : r \in F}
<1>1. IsWellFoundedOn(StrictSubsetOrdering(F), SUBSET F)
  BY FS_StrictSubsetOrderingWellFounded, FS_FiniteSubsetsOfFinite
<1>2. T \subseteq SUBSET F /\ T # {}
  OBVIOUS
<1> HIDE DEF T
<1>3. PICK m \in T : \A n \in T : ~(<<n, m>> \in StrictSubsetOrdering(F))
  BY <1>1, <1>2, WFMin
<1>4. PICK r \in F : m = Before(r)
  BY DEF T
<1>5. ASSUME NEW s \in F, s.priority < r.priority PROVE FALSE
  <2>1. Before(s) \in T /\ Before(s) \subseteq m /\ s \in m /\ s \notin Before(s)
    BY <1>4, <1>5 DEF T
  <2>2. m \subseteq F
    BY <1>4
  <2>3. <<Before(s), m>> \in StrictSubsetOrdering(F)
    BY <2>1, <2>2 DEF StrictSubsetOrdering
  <2> QED
    BY <1>3, <2>1, <2>3
<1> QED
  BY <1>5

\* What matches a call is empty only where no rule fits it.
LEMMA SomeMatch ==
    ASSUME NEW L \in SUBSET Rules, NEW in, NEW r \in L, P!Fits(r, in)
    PROVE  P!Matching(L, in) # {}
<1> DEFINE F == {s \in L : P!Fits(s, in)}
<1>1. F \subseteq Rules /\ F # {}
  OBVIOUS
<1> HIDE DEF F
<1>0. IsFiniteSet(Rules) /\ \A s \in Rules : s.priority \in Int
  BY PolicyAssumption DEF P!PolicyBounds
<1>2. IsFiniteSet(F) /\ \A s \in F : s.priority \in Int
  BY <1>0, <1>1, FS_Subset
<1>3. \E s \in F : \A t \in F : s.priority <= t.priority
  BY <1>1, <1>2, FirstByPriority
<1> QED
  BY <1>3 DEF P!Matching, F

-----------------------------------------------------------------------------
(* The inductive invariant of the policy engine.                            *)

\* L was read for project p since the time c, if c is not before a rule changed.
ReadAfter(L, p, c) ==
    \A r \in Rules : changedAt[r] < c =>
        (r \in L <=> P!InForce(r) /\ p \in {Unresolved, ProjectOf[r.policy]})

\* What RulesBind says of the answer of an evaluation.
Bound(e) ==
    \A r \in Rules :
        changedAt[r] + CacheTtl + Timeout <= e.at
        => /\ P!InForce(r) /\ P!Applies(r, e.input)
                => e.answer # NoRule /\ e.answer.priority <= r.priority
           /\ ~P!InForce(r) => e.answer # r

EvalOK(e) ==
    /\ e.at <= now
    /\ e.pc \in {"waiting", "loading", "answering"} => now - e.at <= Timeout
    /\ e.pc = "answering" => ReadAfter(e.list, e.input.project, e.at)
    /\ e.pc = "late" => e.cause = "timeout"
    /\ e.cause = "refused" => failedAt + HalfOpenMs > e.at
    /\ e.pc = "done" /\ e.cause = "rules" => Bound(e)

RowsInTime == \A r \in Rules : changedAt[r] <= now
CachesOK ==
    \A p \in P!Scopes : /\ ruleCache[p].loadedAt <= now
                        /\ ReadAfter(ruleCache[p].rules, p, ruleCache[p].loadedAt - Timeout)
BreakerOK ==
    /\ failedAt <= now
    /\ breaker.state = "open" => breaker.openedAt <= failedAt

PInv ==
    /\ P!PolicyTypeOK /\ RowsInTime /\ CachesOK /\ BreakerOK
    /\ \A k \in Checks : EvalOK(eval[k])

\* An operator's step dates the rules it brings into force or takes out of it.
LEMMA OperatorDates ==
    ASSUME PInv, P!Operator, now \in Nat
    PROVE  /\ UNCHANGED <<ruleCache, breaker, failedAt, eval>>
           /\ present' \subseteq Rules /\ active' \subseteq Policies
           /\ changedAt' \in [Rules -> Nat]
           /\ \A r \in Rules : \/ changedAt'[r] = now
                               \/ changedAt'[r] = changedAt[r] /\ (P!InForce(r)' <=> P!InForce(r))
<1> USE DEF PInv, P!PolicyTypeOK, P!InForce, P!Changed
<1>1. ASSUME NEW r \in Rules, P!AddRule(r) \/ P!DeleteRule(r)
      PROVE  /\ UNCHANGED <<active, ruleCache, breaker, failedAt, eval>>
             /\ present' \subseteq Rules
             /\ \A s \in Rules \ {r} : s \in present' <=> s \in present
             /\ P!Changed({r})
  BY <1>1 DEF P!AddRule, P!DeleteRule
<1>2. ASSUME NEW p \in Policies, NEW on \in BOOLEAN, P!SetPolicyActive(p, on)
      PROVE  /\ UNCHANGED <<present, ruleCache, breaker, failedAt, eval>>
             /\ active' \subseteq Policies
             /\ \A q \in Policies \ {p} : q \in active' <=> q \in active
             /\ P!Changed({r \in Rules : r.policy = p})
  BY <1>2 DEF P!SetPolicyActive
<1>3. \A r \in Rules : r.policy \in Policies
  BY PolicyAssumption DEF P!PolicyBounds
<1>4. CASE \E r \in Rules : P!AddRule(r) \/ P!DeleteRule(r)
  BY <1>1, <1>4
<1>5. CASE \E p \in Policies, on \in BOOLEAN : P!SetPolicyActive(p, on)
  BY <1>2, <1>3, <1>5
<1> QED
  BY <1>4, <1>5 DEF P!Operator

LEMMA OperatorKeepsPInv ==
    ASSUME PInv, P!Operator, UNCHANGED now, now \in Nat
    PROVE  PInv'
<1> USE PolicyAssumption DEF P!PolicyBounds
<1>1. /\ UNCHANGED <<ruleCache, breaker, failedAt, eval>>
      /\ present' \subseteq Rules /\ active' \subseteq Policies
      /\ changedAt' \in [Rules -> Nat] /\ changedAt \in [Rules -> Nat]
      /\ \A r \in Rules : \/ changedAt'[r] = now
                          \/ changedAt'[r] = changedAt[r] /\ (P!InForce(r)' <=> P!InForce(r))
  BY OperatorDates DEF PInv, P!PolicyTypeOK
<1>2. P!PolicyTypeOK' /\ BreakerOK' /\ RowsInTime'
  BY <1>1 DEF PInv, P!PolicyTypeOK, BreakerOK, RowsInTime
<1>3. ASSUME NEW L, NEW p, NEW c \in Int, c <= now, ReadAfter(L, p, c)
      PROVE  ReadAfter(L, p, c)'
  BY <1>1, <1>3 DEF ReadAfter
<1>4. CachesOK'
  <2> SUFFICES ASSUME NEW p \in P!Scopes
               PROVE  /\ ruleCache[p].loadedAt <= now
                      /\ ReadAfter(ruleCache[p].rules, p, ruleCache[p].loadedAt - Timeout)'
    BY <1>1 DEF CachesOK
  <2>1. /\ ruleCache[p].loadedAt \in Int /\ ruleCache[p].loadedAt <= now
        /\ ReadAfter(ruleCache[p].rules, p, ruleCache[p].loadedAt - Timeout)
    BY DEF PInv, CachesOK, P!PolicyTypeOK
  <2> DEFINE c == ruleCache[p].loadedAt - Timeout
  <2>2. c \in Int /\ c <= now
    BY <2>1
  <2>3. ReadAfter(ruleCache[p].rules, p, c)'
    BY <1>1, <1>3, <2>1, <2>2 DEF ReadAfter
  <2> QED
    BY <1>1, <2>1, <2>3
<1>5. ASSUME NEW k \in Checks PROVE EvalOK(eval[k])'
  <2>1. eval[k] \in P!Eval /\ EvalOK(eval[k])
    BY DEF PInv, P!PolicyTypeOK
  <2>2. eval[k].at \in Nat
    BY <2>1 DEF P!Eval
  <2>3. eval[k].pc = "answering" => ReadAfter(eval[k].list, eval[k].input.project, eval[k].at)'
    BY <1>1, <1>3, <2>1, <2>2 DEF EvalOK, ReadAfter
  <2>4. Bound(eval[k]) => Bound(eval[k])'
    BY <1>1, <2>1, <2>2 DEF EvalOK, Bound, P!Applies, P!Fits
  <2> QED
    BY <1>1, <2>1, <2>3, <2>4 DEF EvalOK
<1> QED
  BY <1>2, <1>4, <1>5 DEF PInv

\* The clock ticks while nothing is pending past its timeout.
LEMMA ClockKeepsPInv ==
    ASSUME PInv, P!PromptTimers, now \in Nat, now' = now + 1, UNCHANGED policyVars
    PROVE  PInv'
<1> USE PolicyAssumption DEF P!PolicyBounds, policyVars
<1>1. P!PolicyTypeOK'
  BY DEF PInv, P!PolicyTypeOK
<1>2. BreakerOK' /\ RowsInTime'
  BY DEF PInv, P!PolicyTypeOK, BreakerOK, RowsInTime
<1>3. CachesOK'
  BY DEF PInv, P!PolicyTypeOK, CachesOK, ReadAfter, P!InForce
<1>4. ASSUME NEW k \in Checks PROVE EvalOK(eval[k])'
  <2>1. eval[k] \in P!Eval /\ EvalOK(eval[k])
    BY DEF PInv, P!PolicyTypeOK
  <2>2. eval[k].at \in Nat
    BY <2>1 DEF P!Eval
  <2>3. eval[k].pc \in {"waiting", "loading", "answering"} => now - eval[k].at < Timeout
    BY DEF P!PromptTimers
  <2>4. /\ Bound(eval[k])' <=> Bound(eval[k])
        /\ ReadAfter(eval[k].list, eval[k].input.project, eval[k].at)'
             <=> ReadAfter(eval[k].list, eval[k].input.project, eval[k].at)
    BY DEF Bound, ReadAfter, P!InForce
  <2> QED
    BY <2>1, <2>2, <2>3, <2>4 DEF EvalOK
<1> QED
  BY <1>1, <1>2, <1>3, <1>4 DEF PInv

RowsRest == UNCHANGED <<now, present, active, changedAt>>

\* One evaluation moves on.
LEMMA EvalMoves ==
    ASSUME PInv, RowsRest, now \in Nat, NEW k \in Checks, NEW e \in P!Eval,
           eval' = [eval EXCEPT ![k] = e], EvalOK(e)',
           failedAt' \in Int, failedAt <= failedAt', BreakerOK',
           breaker' \in [state : {"closed", "open", "half"}, count : 0..Threshold, openedAt : Nat],
           ruleCache' \in [P!Scopes -> [rules : SUBSET Rules, loadedAt : Int]], CachesOK'
    PROVE  PInv'
<1> USE PolicyAssumption DEF P!PolicyBounds, RowsRest
<1>1. P!PolicyTypeOK'
  BY DEF PInv, P!PolicyTypeOK
<1>2. RowsInTime'
  BY DEF PInv, RowsInTime
<1>3. ASSUME NEW j \in Checks PROVE EvalOK(eval[j])'
  <2>1. CASE j = k
    <3>1. eval'[j] = e
      BY <2>1 DEF PInv, P!PolicyTypeOK
    <3> QED
      BY <3>1 DEF EvalOK, Bound, ReadAfter
  <2>2. CASE j # k
    <3>1. eval'[j] = eval[j] /\ EvalOK(eval[j]) /\ eval[j] \in P!Eval
      BY <2>2 DEF PInv, P!PolicyTypeOK
    <3>2. /\ Bound(eval[j])' <=> Bound(eval[j])
          /\ ReadAfter(eval[j].list, eval[j].input.project, eval[j].at)'
               <=> ReadAfter(eval[j].list, eval[j].input.project, eval[j].at)
      BY <3>1 DEF Bound, ReadAfter, P!InForce
    <3>3. eval[j].at \in Nat /\ failedAt \in Int
      BY <3>1 DEF P!Eval, PInv, P!PolicyTypeOK
    <3> QED
      BY <3>1, <3>2, <3>3 DEF EvalOK
  <2> QED
    BY <2>1, <2>2
<1> QED
  BY <1>1, <1>2, <1>3 DEF PInv

\* What is said of the cache stays while it, and the rows, do.
LEMMA CachesRest ==
    ASSUME PInv, RowsRest, UNCHANGED ruleCache
    PROVE  /\ CachesOK'
           /\ ruleCache' \in [P!Scopes -> [rules : SUBSET Rules, loadedAt : Int]]
BY DEF PInv, P!PolicyTypeOK, CachesOK, RowsRest, ReadAfter, P!InForce

\* An evaluation that goes by a list of its window is bound by the rules.
LEMMA AnswerBinds ==
    ASSUME PInv, RowsRest, now \in Nat, NEW k \in Checks, NEW e \in P!Eval, e.at <= now,
           NEW L \in SUBSET Rules, NEW c \in Int, e.at - CacheTtl - Timeout < c,
           ReadAfter(L, e.input.project, c), P!Answers(k, e, L)
    PROVE  \E f \in P!Eval : eval' = [eval EXCEPT ![k] = f] /\ EvalOK(f)'
<1> USE PolicyAssumption DEF P!PolicyBounds
<1>1. ASSUME NEW a \in Rules \cup {NoRule}, eval' = [eval EXCEPT ![k] = P!Answer(e, a)],
             \A q \in L : P!Fits(q, e.input) => a # NoRule /\ a.priority <= q.priority,
             a \in L \cup {NoRule}
      PROVE  \E f \in P!Eval : eval' = [eval EXCEPT ![k] = f] /\ EvalOK(f)'
  <2> DEFINE f == P!Answer(e, a)
  <2>1. /\ f \in P!Eval /\ f.pc = "done" /\ f.cause = "rules" /\ f.at = e.at
        /\ f.input = e.input /\ f.answer = a
    BY DEF P!Answer, P!Eval, P!Causes
  <2> HIDE DEF f
  <2>2. Bound(f)
    <3> SUFFICES ASSUME NEW q \in Rules, changedAt[q] + CacheTtl + Timeout <= e.at
                 PROVE  /\ P!InForce(q) /\ P!Applies(q, e.input)
                             => a # NoRule /\ a.priority <= q.priority
                        /\ ~P!InForce(q) => a # q
      BY <2>1 DEF Bound
    <3>1. changedAt[q] \in Nat /\ e.at \in Nat
      BY DEF PInv, P!PolicyTypeOK, P!Eval
    <3>2. changedAt[q] < c
      BY <3>1
    <3>3. q \in L <=> P!InForce(q) /\ e.input.project \in {Unresolved, ProjectOf[q.policy]}
      BY <3>2 DEF ReadAfter
    <3> QED
      BY <1>1, <3>3 DEF P!Applies
  <2>3. Bound(f)' <=> Bound(f)
    BY DEF Bound, RowsRest, P!InForce
  <2>4. EvalOK(f)'
    BY <2>1, <2>2, <2>3 DEF EvalOK, RowsRest
  <2> QED
    BY <1>1, <2>1, <2>4 DEF f
<1>2. CASE \E r \in P!Matching(L, e.input) : eval' = [eval EXCEPT ![k] = P!Answer(e, r)]
  <2>1. PICK r \in P!Matching(L, e.input) : eval' = [eval EXCEPT ![k] = P!Answer(e, r)]
    BY <1>2
  <2>2. /\ r \in L /\ r \in Rules /\ r # NoRule
        /\ \A q \in L : P!Fits(q, e.input) => r.priority <= q.priority
    BY DEF P!Matching
  <2> QED
    BY <1>1, <2>1, <2>2
<1>3. CASE P!Matching(L, e.input) = {} /\ eval' = [eval EXCEPT ![k] = P!Answer(e, NoRule)]
  BY <1>1, <1>3, SomeMatch
<1> QED
  BY <1>2, <1>3 DEF P!Answers

\* The breaker lets a call pass or refuses it.
LEMMA ExecuteKeeps ==
    ASSUME PInv, RowsRest, now \in Nat, NEW k \in Checks, NEW e \in P!Eval, e.at <= now,
           now - e.at <= Timeout, e.cause = "refused" => failedAt + HalfOpenMs > e.at,
           P!Execute(k, e), UNCHANGED <<ruleCache, failedAt>>
    PROVE  PInv'
<1> USE PolicyAssumption DEF P!PolicyBounds
<1>1. /\ breaker \in [state : {"closed", "open", "half"}, count : 0..Threshold, openedAt : Nat]
      /\ failedAt \in Int /\ BreakerOK /\ e.at \in Nat
  BY DEF PInv, P!PolicyTypeOK, P!Eval
<1>2. ASSUME NEW f \in P!Eval, eval' = [eval EXCEPT ![k] = f], EvalOK(f)', BreakerOK',
             breaker' \in [state : {"closed", "open", "half"}, count : 0..Threshold, openedAt : Nat]
      PROVE  PInv'
  <2>1. failedAt' \in Int /\ failedAt <= failedAt'
    BY <1>1
  <2>2. CachesOK' /\ ruleCache' \in [P!Scopes -> [rules : SUBSET Rules, loadedAt : Int]]
    BY CachesRest
  <2> QED
    BY <1>2, <2>1, <2>2, EvalMoves
<1>3. CASE breaker.state = "open" /\ P!CoolingDown /\ P!FailsOpen(k, e, "refused") /\ UNCHANGED breaker
  <2> DEFINE f == [e EXCEPT !.pc = "done", !.test = FALSE, !.answer = NoRule, !.cause = "refused"]
  <2>1. f \in P!Eval /\ f.pc = "done" /\ f.cause = "refused" /\ f.at = e.at
    BY DEF P!Eval, P!Causes
  <2>2. failedAt + HalfOpenMs > e.at
    BY <1>1, <1>3 DEF P!CoolingDown, BreakerOK
  <2>3. EvalOK(f)'
    BY <2>1, <2>2 DEF EvalOK, RowsRest
  <2>4. eval' = [eval EXCEPT ![k] = f]
    BY <1>3 DEF P!FailsOpen
  <2>5. BreakerOK'
    BY <1>1, <1>3 DEF BreakerOK, RowsRest
  <2> HIDE DEF f
  <2> QED
    BY <1>1, <1>2, <1>3, <2>1, <2>3, <2>4, <2>5
<1>4. ASSUME NEW pc \in {"waiting", "loading"}, NEW t \in BOOLEAN,
             eval' = [eval EXCEPT ![k] = [e EXCEPT !.pc = pc, !.test = t]]
      PROVE  \E f \in P!Eval : eval' = [eval EXCEPT ![k] = f] /\ EvalOK(f)'
  <2> DEFINE f == [e EXCEPT !.pc = pc, !.test = t]
  <2>1. f \in P!Eval /\ f.pc = pc /\ f.cause = e.cause /\ f.at = e.at
    BY DEF P!Eval
  <2>2. EvalOK(f)'
    BY <2>1 DEF EvalOK, RowsRest
  <2> QED
    BY <1>4, <2>1, <2>2
<1>5. CASE /\ breaker.state = "open" /\ ~P!CoolingDown
           /\ breaker' = [breaker EXCEPT !.state = "half"]
           /\ eval' = [eval EXCEPT ![k] = [e EXCEPT !.pc = "loading", !.test = TRUE]]
  <2>1. BreakerOK' /\ breaker' \in [state : {"closed", "open", "half"}, count : 0..Threshold, openedAt : Nat]
    BY <1>1, <1>5 DEF BreakerOK, RowsRest
  <2> QED
    BY <1>2, <1>4, <1>5, <2>1
<1>6. ASSUME NEW pc \in {"waiting", "loading"}, UNCHANGED breaker,
             eval' = [eval EXCEPT ![k] = [e EXCEPT !.pc = pc]]
      PROVE  PInv'
  <2>1. BreakerOK'
    BY <1>1, <1>6 DEF BreakerOK, RowsRest
  <2>2. [e EXCEPT !.pc = pc] = [e EXCEPT !.pc = pc, !.test = e.test] /\ e.test \in BOOLEAN
    BY DEF P!Eval
  <2> QED
    BY <1>1, <1>2, <1>4, <1>6, <2>1, <2>2
<1> QED
  BY <1>3, <1>5, <1>6 DEF P!Execute

BreakerType == [state : {"closed", "open", "half"}, count : 0..Threshold, openedAt : Nat]

LEMMA FailureKeeps ==
    ASSUME PInv, RowsRest, now \in Nat, NEW k \in Checks, P!Failure(k)
    PROVE  breaker' \in BreakerType /\ BreakerOK' /\ failedAt' \in Int /\ failedAt <= failedAt'
<1> USE PolicyAssumption DEF P!PolicyBounds
<1> DEFINE count == IF breaker.count < Threshold THEN breaker.count + 1 ELSE Threshold
           trips == breaker.state # "open" /\ (eval[k].test \/ count = Threshold)
<1>1. breaker \in BreakerType /\ failedAt \in Int /\ BreakerOK
  BY DEF PInv, P!PolicyTypeOK, BreakerType
<1>2. count \in 0..Threshold
  BY <1>1 DEF BreakerType
<1> HIDE DEF count
<1>3. /\ breaker' = [state |-> IF trips THEN "open" ELSE breaker.state, count |-> count,
                     openedAt |-> IF trips THEN now ELSE breaker.openedAt]
      /\ failedAt' = now /\ now' = now
  BY DEF P!Failure, count, RowsRest
<1> HIDE DEF trips
<1> QED
  BY <1>1, <1>2, <1>3 DEF BreakerType, BreakerOK

LEMMA SuccessKeeps ==
    ASSUME PInv, RowsRest, NEW k \in Checks, P!Success(k), UNCHANGED failedAt
    PROVE  breaker' \in BreakerType /\ BreakerOK' /\ failedAt' \in Int /\ failedAt <= failedAt'
<1> USE PolicyAssumption DEF P!PolicyBounds
<1>1. breaker \in BreakerType /\ failedAt \in Int /\ BreakerOK
  BY DEF PInv, P!PolicyTypeOK, BreakerType
<1>2. PICK st \in {"closed", breaker.state} :
        breaker' = [breaker EXCEPT !.count = 0, !.state = st]
  <2> DEFINE st == IF eval[k].test /\ breaker.state = "half" THEN "closed" ELSE breaker.state
  <2>1. st \in {"closed", breaker.state}
    OBVIOUS
  <2>2. breaker' = [breaker EXCEPT !.count = 0, !.state = st]
    BY DEF P!Success
  <2> HIDE DEF st
  <2> QED
    BY <2>1, <2>2
<1>3. /\ breaker' \in BreakerType /\ breaker'.state = st /\ breaker'.openedAt = breaker.openedAt
  <2>1. 0 \in 0..Threshold /\ st \in {"closed", "open", "half"}
    BY <1>1 DEF BreakerType
  <2> QED
    BY <1>1, <1>2, <2>1 DEF BreakerType
<1> QED
  BY <1>1, <1>2, <1>3 DEF BreakerOK, RowsRest

\* A step of an evaluation preserves the invariant.
LEMMA EvaluateKeeps ==
    ASSUME PInv, RowsRest, now \in Nat, NEW k \in Checks, NEW in \in Inputs, P!Evaluate(k, in)
    PROVE  PInv'
<1> USE PolicyAssumption DEF P!PolicyBounds
<1> DEFINE e == P!Begin(in)
<1>1. e \in P!Eval /\ e.at = now /\ e.input = in /\ e.cause = "rules"
  BY DEF P!Begin, P!Eval, P!Causes
<1>2. in.project \in P!Scopes
  BY DEF P!Scopes, P!Projects
<1>3. /\ breaker \in BreakerType /\ failedAt \in Int /\ BreakerOK
      /\ ruleCache[in.project] \in [rules : SUBSET Rules, loadedAt : Int]
      /\ ReadAfter(ruleCache[in.project].rules, in.project, ruleCache[in.project].loadedAt - Timeout)
  BY <1>2 DEF PInv, P!PolicyTypeOK, BreakerType, CachesOK
<1> HIDE DEF e
<1>4. UNCHANGED <<ruleCache, failedAt>>
  BY DEF P!Evaluate
<1>5. CASE P!Fresh(in.project) /\ P!Answers(k, e, ruleCache[in.project].rules) /\ UNCHANGED breaker
  <2> DEFINE c == ruleCache[in.project].loadedAt - Timeout
             L == ruleCache[in.project].rules
  <2>1. c \in Int /\ e.at - CacheTtl - Timeout < c /\ L \in SUBSET Rules /\ e.at <= now
    BY <1>1, <1>3, <1>5 DEF P!Fresh
  <2>2. ReadAfter(L, e.input.project, c)
    BY <1>1, <1>3
  <2> HIDE DEF c, L
  <2>3. P!Answers(k, e, L)
    BY <1>5 DEF L
  <2>4. \E f \in P!Eval : eval' = [eval EXCEPT ![k] = f] /\ EvalOK(f)'
    BY <1>1, <2>1, <2>2, <2>3, AnswerBinds
  <2>5. BreakerOK' /\ breaker' \in BreakerType /\ failedAt' \in Int /\ failedAt <= failedAt'
    BY <1>3, <1>4, <1>5 DEF BreakerOK, RowsRest
  <2> QED
    BY <1>4, <2>4, <2>5, EvalMoves, CachesRest DEF BreakerType
<1>6. CASE P!Execute(k, e)
  <2>1. now - e.at <= Timeout /\ e.at <= now
    BY <1>1
  <2> QED
    BY <1>1, <1>4, <1>6, <2>1, ExecuteKeeps
<1> QED
  BY <1>5, <1>6 DEF P!Evaluate, e

LEMMA PolicyStepKeeps ==
    ASSUME PInv, RowsRest, now \in Nat, NEW k \in Checks,
           \/ P!Resumes(k) \/ P!DbReads(k) \/ P!DbFails(k) \/ P!Loaded(k) \/ P!TimesOut(k)
           \/ P!LateAnswer(k)
    PROVE  PInv'
<1> USE PolicyAssumption DEF P!PolicyBounds
<1>1. PICK e \in P!Eval : e = eval[k]
  BY DEF PInv, P!PolicyTypeOK
<1>2. /\ EvalOK(e) /\ e.at \in Nat /\ e.input.project \in P!Scopes /\ e.list \in SUBSET Rules
      /\ breaker \in BreakerType /\ failedAt \in Int /\ BreakerOK
      /\ ruleCache \in [P!Scopes -> [rules : SUBSET Rules, loadedAt : Int]]
  BY <1>1 DEF PInv, P!PolicyTypeOK, P!Eval, BreakerType, P!Scopes, P!Projects
<1>3. UNCHANGED breaker /\ UNCHANGED failedAt =>
         BreakerOK' /\ breaker' \in BreakerType /\ failedAt' \in Int /\ failedAt <= failedAt'
  BY <1>2 DEF BreakerOK, RowsRest
<1>4. ASSUME NEW f \in P!Eval, eval' = [eval EXCEPT ![k] = f], EvalOK(f)', UNCHANGED ruleCache,
             BreakerOK', breaker' \in BreakerType, failedAt' \in Int, failedAt <= failedAt'
      PROVE  PInv'
  BY <1>4, EvalMoves, CachesRest DEF BreakerType
<1>5. CASE P!Resumes(k)
  <2>1. P!Execute(k, e) /\ UNCHANGED <<ruleCache, failedAt>> /\ e.pc = "waiting"
    BY <1>1, <1>5 DEF P!Resumes
  <2> QED
    BY <1>2, <2>1, ExecuteKeeps DEF EvalOK
<1>6. CASE P!DbReads(k)
  <2>0. [e EXCEPT !.pc = "answering", !.list = P!LoadRules(e.input.project)] \in P!Eval
    BY DEF P!Eval, P!LoadRules
  <2>1. PICK f \in P!Eval : f = [e EXCEPT !.pc = "answering", !.list = P!LoadRules(e.input.project)]
    BY <2>0
  <2>2. e.pc = "loading" /\ eval' = [eval EXCEPT ![k] = f] /\ UNCHANGED <<ruleCache, breaker, failedAt>>
    BY <1>1, <1>6, <2>1 DEF P!DbReads
  <2>3. /\ f.pc = "answering" /\ f.at = e.at /\ f.cause = e.cause
        /\ f.input = e.input /\ f.list = P!LoadRules(e.input.project)
    BY <2>1 DEF P!Eval
  <2>4. ReadAfter(f.list, f.input.project, f.at)'
    BY <2>3 DEF ReadAfter, P!LoadRules, RowsRest, P!InForce
  <2>5. EvalOK(f)'
    BY <1>2, <2>2, <2>3, <2>4 DEF EvalOK, RowsRest
  <2> QED
    BY <1>3, <1>4, <2>1, <2>2, <2>5
<1>7. CASE P!DbFails(k)
  <2> DEFINE f == [e EXCEPT !.pc = "done", !.test = FALSE, !.answer = NoRule, !.cause = "failed"]
  <2>1. f \in P!Eval /\ f.pc = "done" /\ f.at = e.at /\ f.cause = "failed"
    BY DEF P!Eval, P!Causes
  <2>2. eval' = [eval EXCEPT ![k] = f] /\ UNCHANGED ruleCache /\ P!Failure(k)
    BY <1>1, <1>7 DEF P!DbFails, P!FailsOpen
  <2> HIDE DEF f
  <2>3. EvalOK(f)'
    BY <1>2, <2>1 DEF EvalOK, RowsRest
  <2> QED
    BY <1>4, <2>1, <2>2, <2>3, FailureKeeps
<1>8. CASE P!TimesOut(k)
  <2> DEFINE f == [e EXCEPT !.pc = IF e.pc = "waiting" THEN "done" ELSE "late",
                            !.answer = NoRule, !.cause = "timeout"]
  <2>1. f \in P!Eval /\ f.pc \in {"done", "late"} /\ f.at = e.at /\ f.cause = "timeout"
    <3> DEFINE pc == IF e.pc = "waiting" THEN "done" ELSE "late"
    <3>1. pc \in {"done", "late"} /\ f = [e EXCEPT !.pc = pc, !.answer = NoRule, !.cause = "timeout"]
      OBVIOUS
    <3> HIDE DEF pc, f
    <3> QED
      BY <3>1 DEF P!Eval, P!Causes
  <2>2. eval' = [eval EXCEPT ![k] = f] /\ UNCHANGED <<ruleCache, breaker, failedAt>>
    BY <1>1, <1>8 DEF P!TimesOut
  <2> HIDE DEF f
  <2>3. EvalOK(f)'
    BY <1>2, <2>1 DEF EvalOK, RowsRest
  <2> QED
    BY <1>3, <1>4, <2>1, <2>2, <2>3
<1>9. CASE P!LateAnswer(k)
  <2> DEFINE f == [e EXCEPT !.pc = "done", !.test = FALSE, !.list = {}]
  <2>1. f \in P!Eval /\ f.pc = "done" /\ f.at = e.at /\ f.cause = e.cause
    BY DEF P!Eval
  <2>2. e.pc = "late" /\ eval' = [eval EXCEPT ![k] = f] /\ UNCHANGED ruleCache
    BY <1>1, <1>9 DEF P!LateAnswer
  <2> HIDE DEF f
  <2>3. EvalOK(f)'
    BY <1>2, <2>1, <2>2 DEF EvalOK, RowsRest
  <2>4. BreakerOK' /\ breaker' \in BreakerType /\ failedAt' \in Int /\ failedAt <= failedAt'
    BY <1>9, FailureKeeps, SuccessKeeps DEF P!LateAnswer
  <2> QED
    BY <1>4, <2>1, <2>2, <2>3, <2>4
<1>10. CASE P!Loaded(k)
  <2>1. /\ e.pc = "answering" /\ P!Success(k) /\ UNCHANGED failedAt
        /\ ruleCache' = [ruleCache EXCEPT ![e.input.project] = [rules |-> e.list, loadedAt |-> now]]
        /\ P!Answers(k, e, e.list)
    BY <1>1, <1>10 DEF P!Loaded
  <2>2. ReadAfter(e.list, e.input.project, e.at) /\ now - e.at <= Timeout /\ e.at <= now
    BY <1>2, <2>1 DEF EvalOK
  <2>3. \E f \in P!Eval : eval' = [eval EXCEPT ![k] = f] /\ EvalOK(f)'
    BY <1>2, <2>1, <2>2, AnswerBinds
  <2>4. ReadAfter(e.list, e.input.project, now - Timeout)
    BY <1>2, <2>2 DEF ReadAfter, PInv, P!PolicyTypeOK
  <2>5. ruleCache' \in [P!Scopes -> [rules : SUBSET Rules, loadedAt : Int]]
    BY <1>2, <2>1
  <2>6. ASSUME NEW p \in P!Scopes
        PROVE  /\ ruleCache'[p].loadedAt <= now'
               /\ ReadAfter(ruleCache[p].rules, p, ruleCache[p].loadedAt - Timeout)'
    <3>1. CASE p = e.input.project
      BY <1>2, <2>1, <2>4, <3>1 DEF ReadAfter, RowsRest, P!InForce
    <3>2. CASE p # e.input.project
      BY <1>2, <2>1, <3>2 DEF PInv, CachesOK, ReadAfter, RowsRest, P!InForce
    <3> QED
      BY <3>1, <3>2
  <2>7. CachesOK'
    BY <2>6 DEF CachesOK
  <2> QED
    BY <2>1, <2>3, <2>5, <2>7, SuccessKeeps, EvalMoves DEF BreakerType
<1> QED
  BY <1>5, <1>6, <1>7, <1>8, <1>9, <1>10

-----------------------------------------------------------------------------
(* Somebody tests the breaker while it is half open.                        *)

TestHeld(k) == eval[k].test /\ eval[k].pc \in {"loading", "answering", "late"}

\* Where another evaluation moves, or the breaker is not half open.
LEMMA TestStays ==
    ASSUME PInv, P!HalfOpenHasTest, NEW k \in Checks, NEW e,
           eval' = [eval EXCEPT ![k] = e],
           \/ breaker'.state # "half"
           \/ e.test /\ e.pc \in {"loading", "answering", "late"}
           \/ breaker.state = "half" /\ ~TestHeld(k)
    PROVE  P!HalfOpenHasTest'
BY DEF PInv, P!PolicyTypeOK, P!HalfOpenHasTest, TestHeld

LEMMA ExecuteTests ==
    ASSUME PInv, P!HalfOpenHasTest, NEW k \in Checks, NEW e \in P!Eval, P!Execute(k, e),
           ~TestHeld(k)
    PROVE  P!HalfOpenHasTest'
<1>1. breaker \in BreakerType
  BY DEF PInv, P!PolicyTypeOK, BreakerType
<1>2. CASE /\ breaker.state = "open" /\ ~P!CoolingDown
           /\ breaker' = [breaker EXCEPT !.state = "half"]
           /\ eval' = [eval EXCEPT ![k] = [e EXCEPT !.pc = "loading", !.test = TRUE]]
  <2> DEFINE f == [e EXCEPT !.pc = "loading", !.test = TRUE]
  <2>1. f.test /\ f.pc = "loading"
    BY DEF P!Eval
  <2> QED
    BY <1>2, <2>1, TestStays
<1>3. CASE UNCHANGED breaker /\ \E f : eval' = [eval EXCEPT ![k] = f]
  <2>1. PICK f : eval' = [eval EXCEPT ![k] = f]
    BY <1>3
  <2> QED
    BY <1>3, <2>1, TestStays
<1> QED
  BY <1>2, <1>3 DEF P!Execute, P!FailsOpen

LEMMA TestSettles ==
    ASSUME PInv, P!HalfOpenHasTest, NEW k \in Checks, P!Success(k) \/ P!Failure(k),
           NEW e, eval' = [eval EXCEPT ![k] = e]
    PROVE  P!HalfOpenHasTest'
<1>1. breaker \in BreakerType
  BY DEF PInv, P!PolicyTypeOK, BreakerType
<1>2. eval[k].test \in BOOLEAN
  BY DEF PInv, P!PolicyTypeOK, P!Eval
<1>3. \/ breaker'.state # "half"
      \/ breaker.state = "half" /\ ~TestHeld(k)
  <2>1. CASE P!Success(k)
    BY <1>1, <1>2, <2>1 DEF P!Success, BreakerType, TestHeld
  <2>2. CASE P!Failure(k)
    BY <1>1, <1>2, <2>2 DEF P!Failure, BreakerType, TestHeld
  <2> QED
    BY <2>1, <2>2
<1> QED
  BY <1>3, TestStays

LEMMA TestIsHeld ==
    ASSUME PInv, P!HalfOpenHasTest, now \in Nat, NEW k \in Checks,
           \/ \E in \in Inputs : P!Evaluate(k, in)
           \/ P!Resumes(k) \/ P!DbReads(k) \/ P!DbFails(k) \/ P!Loaded(k) \/ P!TimesOut(k)
           \/ P!LateAnswer(k)
    PROVE  P!HalfOpenHasTest'
<1>1. eval[k] \in P!Eval
  BY DEF PInv, P!PolicyTypeOK
<1>2. ASSUME NEW in \in Inputs, P!Evaluate(k, in) PROVE P!HalfOpenHasTest'
  <2>1. eval[k].pc \in {"idle", "done"} /\ ~TestHeld(k)
    BY <1>2 DEF P!Evaluate, TestHeld
  <2>2. P!Begin(in) \in P!Eval
    BY DEF P!Begin, P!Eval, P!Causes
  <2>3. CASE P!Execute(k, P!Begin(in))
    BY <2>1, <2>2, <2>3, ExecuteTests
  <2>4. CASE P!Answers(k, P!Begin(in), ruleCache[in.project].rules) /\ UNCHANGED breaker
    <3>1. PICK f : eval' = [eval EXCEPT ![k] = f]
      BY <2>4 DEF P!Answers
    <3> QED
      BY <2>1, <2>4, <3>1, TestStays
  <2> QED
    BY <1>2, <2>3, <2>4 DEF P!Evaluate
<1>3. CASE P!Resumes(k)
  <2>1. ~TestHeld(k) /\ P!Execute(k, eval[k])
    BY <1>3 DEF P!Resumes, TestHeld
  <2> QED
    BY <1>1, <2>1, ExecuteTests
<1>4. CASE P!DbReads(k) \/ P!TimesOut(k)
  <2>1. PICK f : eval' = [eval EXCEPT ![k] = f]
                 /\ (TestHeld(k) => f.test /\ f.pc \in {"loading", "answering", "late"})
    <3> DEFINE a == [eval[k] EXCEPT !.pc = "answering", !.list = P!LoadRules(eval[k].input.project)]
               t == [eval[k] EXCEPT !.pc = IF eval[k].pc = "waiting" THEN "done" ELSE "late",
                                    !.answer = NoRule, !.cause = "timeout"]
    <3>1. /\ a.test = eval[k].test /\ a.pc = "answering"
          /\ t.test = eval[k].test /\ (eval[k].pc # "waiting" => t.pc = "late")
      BY <1>1 DEF P!Eval
    <3>2. eval' = [eval EXCEPT ![k] = a] \/ eval' = [eval EXCEPT ![k] = t]
      BY <1>4 DEF P!DbReads, P!TimesOut
    <3> HIDE DEF a, t
    <3> QED
      BY <3>1, <3>2 DEF TestHeld
  <2>2. UNCHANGED breaker
    BY <1>4 DEF P!DbReads, P!TimesOut
  <2> QED
    BY <2>1, <2>2, TestStays
<1>5. CASE P!DbFails(k) \/ P!Loaded(k) \/ P!LateAnswer(k)
  <2>1. \E f : eval' = [eval EXCEPT ![k] = f]
    BY <1>5 DEF P!DbFails, P!Loaded, P!LateAnswer, P!FailsOpen, P!Answers
  <2>2. P!Success(k) \/ P!Failure(k)
    BY <1>5 DEF P!DbFails, P!Loaded, P!LateAnswer
  <2> QED
    BY <2>1, <2>2, TestSettles
<1> QED
  BY <1>2, <1>3, <1>4, <1>5

-----------------------------------------------------------------------------
(* The hooks: a gate, and behind it the policy engine.                      *)

\* The policy is asked once the gate has answered, of the same tool call.
InOrder == \A k \in Checks : check[k].pc \in Unmatched => check[k].at <= eval[k].at

HInv == IInv /\ PInv /\ P!HalfOpenHasTest /\ inputs \subseteq Inputs /\ InOrder

\* Every step of the hooks is one of the gate or leaves it alone.
LEMMA HooksStepGate == [HookNext]_hookVars => [Next]_vars
<1> SUFFICES ASSUME HookNext \/ UNCHANGED hookVars PROVE Next \/ UNCHANGED vars
  OBVIOUS
<1>1. CASE Clock
  BY <1>1 DEF Clock, Next
<1>2. CASE SwitchChanges
  BY <1>2 DEF SwitchChanges, Next
<1>3. ASSUME NEW k \in Checks, Arrive(k) \/ Gate(k) \/ Policy(k) PROVE Next \/ UNCHANGED vars
  BY <1>3 DEF Arrive, Gate, Policy, Next
<1>4. CASE RulesChange \/ UNCHANGED hookVars
  BY <1>4 DEF RulesChange, hookVars
<1> QED
  BY <1>1, <1>2, <1>3, <1>4 DEF HookNext

LEMMA HookInitHInv == HookInit => HInv
<1> SUFFICES ASSUME HookInit PROVE HInv
  OBVIOUS
<1> USE PolicyAssumption DEF P!PolicyBounds
<1>1. IInv
  BY InitIInv DEF HookInit
<1>2. /\ now = 0 /\ P!PolicyInit /\ check = [k \in Checks |->
                [pc |-> "idle", at |-> 0, switches |-> {}, answer |-> NoSwitch]]
  BY DEF HookInit, Init
<1>3. PICK in \in Inputs :
        eval = [k \in Checks |-> [pc |-> "idle", at |-> 0, input |-> in, test |-> FALSE, list |-> {},
                                  answer |-> NoRule, cause |-> "rules"]]
  BY <1>2 DEF P!PolicyInit
<1>4. P!PolicyTypeOK
  BY <1>2, <1>3 DEF P!PolicyInit, P!PolicyTypeOK, P!Eval, P!Causes
<1>5. RowsInTime /\ BreakerOK
  BY <1>2 DEF P!PolicyInit, RowsInTime, BreakerOK
<1>6. CachesOK
  BY <1>2 DEF P!PolicyInit, CachesOK, ReadAfter
<1>7. \A k \in Checks : EvalOK(eval[k])
  BY <1>2, <1>3 DEF EvalOK
<1>8. P!HalfOpenHasTest
  BY <1>2 DEF P!PolicyInit, P!HalfOpenHasTest
<1>9. inputs \subseteq Inputs
  BY ScenariosAssumption DEF HookInit
<1>10. InOrder
  BY <1>2 DEF InOrder, Unmatched
<1> QED
  BY <1>1, <1>4, <1>5, <1>6, <1>7, <1>8, <1>9, <1>10 DEF HInv, PInv

\* A step of the gate moves one check.
LEMMA OtherChecksRest ==
    ASSUME TypeOK, NEW k \in Checks, Begin(k) \/ Fetch(k) \/ Store(k), NEW j \in Checks, j # k
    PROVE  check'[j] = check[j]
BY DEF Begin, Fetch, Store, Answers, TypeOK

\* A step of an evaluation moves that one, and leaves it its start.
Moved(k, e) == eval'[k].at = e.at /\ \A j \in Checks \ {k} : eval'[j] = eval[j]

LEMMA ExecuteMoves ==
    ASSUME PInv, NEW k \in Checks, NEW e \in P!Eval, P!Execute(k, e)
    PROVE  Moved(k, e)
<1>1. eval \in [Checks -> P!Eval]
  BY DEF PInv, P!PolicyTypeOK
<1>2. CASE eval' = [eval EXCEPT ![k] = [e EXCEPT !.pc = "done", !.test = FALSE,
                                                !.answer = NoRule, !.cause = "refused"]]
  BY <1>1, <1>2 DEF Moved, P!Eval
<1>3. CASE eval' = [eval EXCEPT ![k] = [e EXCEPT !.pc = "loading", !.test = TRUE]]
  BY <1>1, <1>3 DEF Moved, P!Eval
<1>4. ASSUME NEW pc, eval' = [eval EXCEPT ![k] = [e EXCEPT !.pc = pc]] PROVE Moved(k, e)
  BY <1>1, <1>4 DEF Moved, P!Eval
<1> QED
  BY <1>2, <1>3, <1>4 DEF P!Execute, P!FailsOpen

LEMMA AnswersMoves ==
    ASSUME PInv, NEW k \in Checks, NEW e \in P!Eval, NEW L, P!Answers(k, e, L)
    PROVE  Moved(k, e)
<1>1. PICK r : eval' = [eval EXCEPT ![k] = P!Answer(e, r)]
  BY DEF P!Answers
<1>2. P!Answer(e, r).at = e.at
  BY DEF P!Answer, P!Eval
<1> QED
  BY <1>1, <1>2 DEF Moved, PInv, P!PolicyTypeOK

LEMMA AskedNow ==
    ASSUME PInv, now \in Nat, NEW k \in Checks, NEW in \in Inputs, P!Evaluate(k, in)
    PROVE  /\ eval'[k].at = now
           /\ \A j \in Checks \ {k} : eval'[j] = eval[j]
<1>1. P!Begin(in) \in P!Eval /\ P!Begin(in).at = now
  BY PolicyAssumption DEF P!Begin, P!Eval, P!Causes, P!PolicyBounds
<1>2. Moved(k, P!Begin(in))
  BY <1>1, ExecuteMoves, AnswersMoves DEF P!Evaluate
<1> QED
  BY <1>1, <1>2 DEF Moved

LEMMA PolicyKeepsAt ==
    ASSUME PInv, NEW k \in Checks,
           \/ P!Resumes(k) \/ P!DbReads(k) \/ P!DbFails(k) \/ P!Loaded(k) \/ P!TimesOut(k)
           \/ P!LateAnswer(k)
    PROVE  \A j \in Checks : eval'[j].at = eval[j].at
<1>1. PICK e \in P!Eval : e = eval[k] /\ eval \in [Checks -> P!Eval]
  BY DEF PInv, P!PolicyTypeOK
<1>2. CASE P!Resumes(k) \/ P!Loaded(k)
  <2>1. Moved(k, e)
    BY <1>1, <1>2, ExecuteMoves, AnswersMoves DEF P!Resumes, P!Loaded
  <2> QED
    BY <1>1, <2>1 DEF Moved
<1>3. CASE P!DbReads(k)
  BY <1>1, <1>3 DEF P!DbReads, P!Eval
<1>4. CASE P!DbFails(k)
  BY <1>1, <1>4 DEF P!DbFails, P!FailsOpen, P!Eval
<1>5. CASE P!TimesOut(k)
  BY <1>1, <1>5 DEF P!TimesOut, P!Eval
<1>6. CASE P!LateAnswer(k)
  BY <1>1, <1>6 DEF P!LateAnswer, P!Eval
<1> QED
  BY <1>2, <1>3, <1>4, <1>5, <1>6

LEMMA HookNextHInv == HInv /\ [HookNext]_hookVars => HInv'
<1> SUFFICES ASSUME HInv, [HookNext]_hookVars PROVE HInv'
  OBVIOUS
<1>1. /\ IInv' /\ now \in Nat /\ TypeOK
      /\ \A k \in Checks : check'[k].at <= now'
  BY NextIInv, HooksStepGate DEF HInv, IInv, TypeOK, ChecksOK
<1>2. inputs' \subseteq Inputs
  BY DEF HInv, HookNext, Clock, SwitchChanges, RulesChange, Arrive, Gate, Policy, Spend, hookVars
<1>3. ASSUME UNCHANGED <<now, policyVars>> PROVE PInv' /\ P!HalfOpenHasTest'
  BY <1>3 DEF HInv, PInv, P!PolicyTypeOK, RowsInTime, CachesOK, BreakerOK, EvalOK, Bound, ReadAfter,
              P!InForce, P!HalfOpenHasTest, policyVars
<1>4. CASE Clock
  <2>1. PInv'
    BY <1>1, <1>4, ClockKeepsPInv DEF Clock, Tick, HInv
  <2>2. P!HalfOpenHasTest' /\ InOrder'
    BY <1>4 DEF Clock, Tick, HInv, P!HalfOpenHasTest, InOrder, policyVars
  <2> QED
    BY <1>1, <1>2, <2>1, <2>2 DEF HInv
<1>5. CASE SwitchChanges \/ UNCHANGED hookVars
  <2>1. UNCHANGED <<now, policyVars, check>>
    BY <1>5 DEF SwitchChanges, Pause, Resume, hookVars, vars, policyVars
  <2>2. InOrder'
    BY <2>1 DEF HInv, InOrder, policyVars
  <2> QED
    BY <1>1, <1>2, <1>3, <2>1, <2>2 DEF HInv
<1>6. CASE RulesChange
  <2>1. UNCHANGED vars /\ P!Operator
    BY <1>6 DEF RulesChange
  <2>2. PInv' /\ UNCHANGED <<eval, breaker, check>>
    BY <1>1, <2>1, OperatorKeepsPInv, OperatorDates DEF HInv, vars
  <2>3. P!HalfOpenHasTest' /\ InOrder'
    BY <2>2 DEF HInv, P!HalfOpenHasTest, InOrder
  <2> QED
    BY <1>1, <1>2, <2>2, <2>3 DEF HInv
<1>7. ASSUME NEW k \in Checks, Begin(k) \/ Fetch(k) \/ Store(k), AsksPolicy(k) PROVE HInv'
  <2>1. UNCHANGED now
    BY <1>7 DEF Begin, Fetch, Store
  <2>2. \A j \in Checks \ {k} : check'[j] = check[j]
    BY <1>1, <1>7, OtherChecksRest
  <2>3. ASSUME NEW in \in Inputs, P!Evaluate(k, in) PROVE HInv'
    <3>1. RowsRest
      BY <2>1, <2>3 DEF RowsRest, P!Evaluate
    <3>2. PInv' /\ P!HalfOpenHasTest'
      BY <1>1, <2>3, <3>1, EvaluateKeeps, TestIsHeld DEF HInv
    <3>3. InOrder'
      BY <1>1, <2>1, <2>2, <2>3, AskedNow DEF HInv, InOrder
    <3> QED
      BY <1>1, <1>2, <3>2, <3>3 DEF HInv
  <2>4. CASE UNCHANGED policyVars /\ check'[k].pc \notin Unmatched
    <3>1. InOrder'
      BY <2>2, <2>4 DEF HInv, InOrder, policyVars
    <3> QED
      BY <1>1, <1>2, <1>3, <2>1, <2>4, <3>1 DEF HInv
  <2> QED
    BY <1>7, <2>3, <2>4 DEF AsksPolicy, HInv
<1>8. ASSUME NEW k \in Checks, Policy(k) PROVE HInv'
  <2>1. /\ UNCHANGED vars
        /\ \/ P!Resumes(k) \/ P!DbReads(k) \/ P!DbFails(k) \/ P!Loaded(k) \/ P!TimesOut(k)
           \/ P!LateAnswer(k)
    BY <1>8 DEF Policy
  <2>2. RowsRest
    BY <2>1 DEF RowsRest, vars, P!Resumes, P!DbReads, P!DbFails, P!Loaded, P!TimesOut, P!LateAnswer
  <2>3. PInv' /\ P!HalfOpenHasTest'
    BY <1>1, <2>1, <2>2, PolicyStepKeeps, TestIsHeld DEF HInv
  <2>4. InOrder'
    BY <2>1, PolicyKeepsAt DEF HInv, InOrder, vars
  <2> QED
    BY <1>1, <1>2, <2>3, <2>4 DEF HInv
<1> QED
  BY <1>4, <1>5, <1>6, <1>7, <1>8 DEF HookNext, Arrive, Gate

-----------------------------------------------------------------------------
(* What the invariant says of the engine's answers and of the hook's.       *)

LEMMA RulesBound == HInv => RulesBind
<1> SUFFICES ASSUME HInv, NEW k \in Checks, eval[k].pc = "done", eval[k].cause = "rules"
             PROVE  Bound(eval[k])
  BY DEF RulesBind, P!RulesBind, Bound
<1> QED
  BY DEF HInv, PInv, EvalOK

LEMMA BreakerSound == HInv => BreakerIsSound
BY DEF HInv, PInv, EvalOK, BreakerIsSound, P!BreakerIsSound, P!RefusedOnlyAfterFailure

\* A check that goes by the only switch that may be first answers that switch.
LEMMA PausesDecided == HInv => PausesDecide
<1> SUFFICES ASSUME HInv, NEW k \in Checks, NEW s \in (paused \ resumed) \cap Matches,
                    Answered(k), check[k].pc # "unavailable",
                    pausedAt[s] + CacheMs <= check[k].at,
                    ~ Expired(s, check[k].at),
                    \A r \in paused \ {s} : pausedAt[r] > pausedAt[s]
             PROVE  Decision(k) = (IF s \in Hard THEN "deny" ELSE "allow")
  BY DEF PausesDecide
<1>1. check[k].pc \in {"matched", "none"}
  BY DEF Answered, BySwitch, ByPolicy, Unmatched
<1>2. check[k].pc = "matched" /\ pausedAt[check[k].answer] <= pausedAt[s]
  BY <1>1, ServedBinds DEF HInv, PausesBind
<1>3. check[k].answer \in paused /\ pausedAt \in [Switches -> Nat] /\ paused \subseteq Switches
  <2>1. check[k].answer \in check[k].switches /\ Served(k)
    BY <1>2 DEF HInv, IInv, ChecksOK, First
  <2> QED
    BY <2>1 DEF Served, ReadSince, HInv, IInv, TypeOK
<1>4. check[k].answer = s
  BY <1>2, <1>3
<1> QED
  BY <1>2, <1>4 DEF Decision, BySwitch

\* A rule that comes before all others is the one that answers.
LEMMA RulesDeny == HInv => RulesStillDeny
<1> SUFFICES ASSUME HInv, NEW k \in Checks, NEW r \in Rules,
                    Answered(k), ~BySwitch(k), r.decision = "deny", P!InForce(r),
                    changedAt[r] + CacheTtl + Timeout <= check[k].at,
                    P!Applies(r, eval[k].input),
                    \A s \in Rules : s.priority > r.priority \/ s = r,
                    eval[k].cause = "rules"
             PROVE  Decision(k) = "deny"
  BY DEF RulesStillDeny
<1> USE PolicyAssumption DEF P!PolicyBounds
<1>1. /\ EvalOK(eval[k]) /\ eval[k].at \in Nat /\ eval[k].answer \in Rules \cup {NoRule}
      /\ check[k].at \in Nat /\ changedAt[r] \in Nat
  BY DEF HInv, PInv, P!PolicyTypeOK, P!Eval, IInv, TypeOK, Check
<1>2. check[k].pc \in Unmatched /\ eval[k].pc = "done"
  BY <1>1 DEF Answered, ByPolicy, EvalOK
<1>3. changedAt[r] + CacheTtl + Timeout <= eval[k].at
  BY <1>1, <1>2 DEF HInv, InOrder
<1>4. eval[k].answer # NoRule /\ eval[k].answer.priority <= r.priority
  BY <1>1, <1>2, <1>3 DEF EvalOK, Bound
<1>5. eval[k].answer = r
  BY <1>1, <1>4
<1> QED
  BY <1>4, <1>5 DEF Decision, P!Permission

-----------------------------------------------------------------------------
(* The theorems.                                                            *)

\* The hooks of the bridge (pre-tool-use.ts), with the policy engine behind the
\* switches, implement the gate: every step of theirs is one of KillSwitchGate's
\* or leaves the switches alone.
THEOREM HooksImplementGate == HookSpec => Spec
<1>1. HookInit => Init
  BY DEF HookInit
<1> QED
  BY <1>1, HooksStepGate, PTL DEF HookSpec, Spec

\* The inductive invariant: every list the engine goes by was read within its
\* window, the breaker is open only after a failure, and a half-open breaker has
\* its test call (policy.ts).
THEOREM HooksInvariant == HookSpec => []HInv
BY HookInitHInv, HookNextHInv, PTL DEF HookSpec

\* The rows, the cache, the breaker and the evaluations keep their shapes.
THEOREM PolicyIsTyped == HookSpec => []P!PolicyTypeOK
<1>1. HInv => P!PolicyTypeOK
  BY DEF HInv, PInv
<1> QED
  BY <1>1, HooksInvariant, PTL

\* A pause binds every hook of the bridge that starts a TTL after it, and a resume
\* or an expiry frees it, though the policy engine works beside the gate.
THEOREM SwitchesBind == HookSpec => [](PausesBind /\ ResumesBind)
BY HooksImplementGate, WindowIsBounded, ResumesAreSeen, PTL

\* The policy engine (policy.ts): an evaluation that starts CacheTtl + Timeout after
\* a rule was changed goes by the rule as it is now or by one before it, for any
\* rules, any number of overlapping evaluations and any order of their loads.
THEOREM RulesBindCalls == HookSpec => []RulesBind
BY RulesBound, HooksInvariant, PTL

\* The breaker of the policy engine refuses only within HalfOpenMs of a failure, and
\* is never half open with nobody testing it.
THEOREM BreakerRecovers == HookSpec => []BreakerIsSound
BY BreakerSound, HooksInvariant, PTL

\* The hook's answer (pre-tool-use.ts) is what switches and rules call for: a switch
\* that is on decides whatever the engine does, a deny rule whatever the switches'
\* lookup does.
THEOREM HookDecides == HookSpec => []DecisionIsDue
<1>1. HInv => DecisionIsDue
  BY PausesDecided, RulesDeny DEF DecisionIsDue
<1> QED
  BY <1>1, HooksInvariant, PTL
=============================================================================
