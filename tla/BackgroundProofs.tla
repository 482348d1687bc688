--------------------------- MODULE BackgroundProofs ---------------------------
(***************************************************************************)
(* Proofs about what goes on in the background: the exchange of kill        *)
(* switches (KillSwitchSync), for any machines, switches and clock; the     *)
(* life of a daemon (Daemons), for any requests and signals; those who read *)
(* while others write (Readers), for any packs, lines and reads; the index  *)
(* of the features (FeatureFiles), for any features and generations.        *)
(***************************************************************************)
EXTENDS MCBackground, FiniteSetTheorems, WellFoundedInduction, TLAPS

-----------------------------------------------------------------------------
(* Kill switches: shapes.                                                   *)

PullState == [pc : {"idle", "since", "rows"}, since : 0..(2 * MaxSecond),
              rows : [Switches -> Status]]

LEMMA FloorIsBelow ==
    ASSUME NEW t \in Nat PROVE Floor(t) \in Nat /\ Floor(t) <= t /\ t <= Floor(t) + 1
BY DEF Floor

LEMMA KnownIsInTime == TypeOK => \A m \in Machines : Known(m) \subseteq 0..(2 * MaxSecond)
<1> SUFFICES ASSUME TypeOK, NEW m \in Machines, NEW s \in Switches
             PROVE  Floor(stamp[s]) \in 0..(2 * MaxSecond)
  BY DEF Known
<1> QED
  BY SyncBoundsAssumption DEF TypeOK, Floor

LEMMA InitTypeOK == Init => TypeOK
BY OriginAssumption, SyncBoundsAssumption DEF Init, TypeOK, Status, NoPush, NoPull

LEMMA NextTypeOK == TypeOK /\ [Next]_vars => TypeOK'
<1> SUFFICES ASSUME TypeOK, [Next]_vars PROVE TypeOK'
  OBVIOUS
<1> USE SyncBoundsAssumption
<1>1. ASSUME Fail PROVE failures' \in 0..MaxFailures[origin]
  BY <1>1 DEF Fail, TypeOK
<1>2. ASSUME NEW m \in Machines, NEW s \in Switches, Pause(m, s) PROVE TypeOK'
  BY <1>1, <1>2 DEF Pause, TypeOK, Status
<1>3. ASSUME NEW m \in Machines, NEW S \in SUBSET Switches, Resume(m, S) PROVE TypeOK'
  <2>1. [s \in Switches |-> IF s \in S THEN "resumed" ELSE local[m][s]] \in [Switches -> Status]
    BY DEF TypeOK, Status
  <2> QED
    BY <1>3, <2>1 DEF Resume, TypeOK
<1>4. ASSUME NEW s \in Switches, WebPause(s) \/ WebCommit(s) \/ WebResume(s) PROVE TypeOK'
  BY <1>4 DEF WebPause, WebCommit, WebResume, TypeOK, Status
<1>5. ASSUME NEW m \in Machines, NEW s \in Switches, PushRead(m, s) PROVE TypeOK'
  BY <1>5 DEF PushRead, TypeOK
<1>6. ASSUME NEW m \in Machines, PushWrite(m) \/ PushFails(m) PROVE TypeOK'
  <2>1. push[m] # NoPush => push[m].s \in Switches /\ push[m].status \in Status
    BY DEF TypeOK
  <2>2. push' = [push EXCEPT ![m] = NoPush] /\ push' \in [Machines -> [s : Switches, status : Status] \cup {NoPush}]
    BY <1>6 DEF PushWrite, PushFails, TypeOK
  <2>3. cloud' \in [Switches -> Status]
    BY <1>6, <2>1 DEF PushWrite, PushFails, TypeOK
  <2>4. jobs' \in [Machines -> SUBSET Switches]
    BY <1>6 DEF PushWrite, PushFails, TypeOK
  <2>5. failures' \in 0..MaxFailures[origin] /\ UNCHANGED <<origin, second, stamp, local, pull>>
    BY <1>1, <1>6 DEF PushWrite, PushFails, TypeOK
  <2> QED
    BY <2>2, <2>3, <2>4, <2>5 DEF TypeOK
<1>7. ASSUME NEW m \in Machines, PullStart(m) PROVE TypeOK'
  <2>1. Known(m) \cup {0} \subseteq 0..(2 * MaxSecond)
    BY KnownIsInTime
  <2>2. PICK t \in Known(m) \cup {0} :
          pull' = [pull EXCEPT ![m].pc = "since", ![m].since = t]
    BY <1>7 DEF PullStart
  <2>3. t \in 0..(2 * MaxSecond)
    BY <2>1
  <2>4. [pull[m] EXCEPT !.pc = "since", !.since = t] \in PullState
    BY <2>3 DEF TypeOK, PullState
  <2>5. pull' \in [Machines -> PullState]
    BY <2>2, <2>4 DEF TypeOK, PullState
  <2>6. UNCHANGED <<origin, second, stamp, local, cloud, jobs, push, failures>>
    BY <1>7 DEF PullStart
  <2> QED
    BY <2>5, <2>6 DEF TypeOK, PullState
<1>8. ASSUME NEW m \in Machines, PullSelect(m) PROVE TypeOK'
  <2>1. [s \in Switches |-> IF Newer(m, s) THEN cloud[s] ELSE "none"] \in [Switches -> Status]
    BY DEF TypeOK, Status
  <2> QED
    BY <1>8, <2>1 DEF PullSelect, TypeOK
<1>9. ASSUME NEW m \in Machines, PullFails(m) PROVE TypeOK'
  BY <1>1, <1>9 DEF PullFails, TypeOK, NoPull, Status
<1>10. ASSUME NEW m \in Machines, PullUpsert(m) PROVE TypeOK'
  <2>1. PICK lost :
          /\ local' = [local EXCEPT ![m] =
                         [s \in Switches |-> IF s \in {x \in Switches : pull[m].rows[x] # "none"} \ lost
                                             THEN pull[m].rows[s] ELSE local[m][s]]]
          /\ failures' \in 0..MaxFailures[origin]
    BY <1>1, <1>10 DEF PullUpsert, TypeOK
  <2>2. local' \in [Machines -> [Switches -> Status]]
    BY <2>1 DEF TypeOK
  <2> QED
    BY <1>10, <2>1, <2>2 DEF PullUpsert, TypeOK, NoPull, Status
<1>11. CASE Tick \/ UNCHANGED vars
  BY <1>11 DEF Tick, vars, TypeOK
<1> QED
  BY <1>2, <1>3, <1>4, <1>5, <1>6, <1>7, <1>8, <1>9, <1>10, <1>11 DEF Next, Push, Pull

-----------------------------------------------------------------------------
(* Kill switches: what --no-sync keeps.  The switch is in no job, no push   *)
(* and no pull, so that nothing can carry it away.                          *)

Unsynced == {x \in NoSync : origin[x] \in Machines}

LocalOnly ==
    \A s \in Unsynced :
        /\ cloud[s] = "none"
        /\ \A m \in Machines \ {origin[s]} : local[m][s] = "none"
        /\ \A m \in Machines : /\ s \notin jobs[m]
                               /\ push[m] # NoPush => push[m].s # s
                               /\ pull[m].rows[s] = "none"

LEMMA InitLocalOnly == Init => LocalOnly
BY OriginAssumption DEF Init, LocalOnly, Unsynced, NoPush, NoPull

LEMMA NextLocalOnly == TypeOK /\ LocalOnly /\ [Next]_vars => LocalOnly'
<1> SUFFICES ASSUME TypeOK, LocalOnly, [Next]_vars PROVE LocalOnly'
  OBVIOUS
<1>0. /\ origin \in [Switches -> Machines \cup {Web, Nobody}] /\ NoSync \subseteq Switches
      /\ Machines \cap {Web, Nobody} = {}
  BY OriginAssumption DEF TypeOK
<1>1. UNCHANGED origin
  BY DEF Next, Pause, Resume, Push, PushRead, PushWrite, PushFails, Pull, PullStart, PullSelect,
         PullFails, PullUpsert, WebPause, WebCommit, WebResume, Tick, vars
<1> SUFFICES ASSUME NEW s \in Switches, s \in NoSync, origin[s] \in Machines
             PROVE  /\ cloud'[s] = "none"
                    /\ \A m \in Machines \ {origin[s]} : local'[m][s] = "none"
                    /\ \A m \in Machines : /\ s \notin jobs'[m]
                                           /\ push'[m] # NoPush => push'[m].s # s
                                           /\ pull'[m].rows[s] = "none"
  BY <1>0, <1>1 DEF LocalOnly, Unsynced
<1>2. /\ cloud[s] = "none" /\ origin[s] \notin {Web, Nobody}
      /\ \A m \in Machines \ {origin[s]} : local[m][s] = "none"
      /\ \A m \in Machines : /\ s \notin jobs[m]
                             /\ push[m] # NoPush => push[m].s # s
                             /\ pull[m].rows[s] = "none"
  BY <1>0 DEF LocalOnly, Unsynced
<1>t. /\ local \in [Machines -> [Switches -> Status]] /\ cloud \in [Switches -> Status]
      /\ jobs \in [Machines -> SUBSET Switches]
      /\ push \in [Machines -> [s : Switches, status : Status] \cup {NoPush}]
      /\ pull \in [Machines -> PullState]
  BY DEF TypeOK, PullState
<1>3. ASSUME NEW m \in Machines, NEW x \in Switches, Pause(m, x)
      PROVE  /\ UNCHANGED <<cloud, push, pull>>
             /\ \A n \in Machines : s \notin jobs'[n] /\ (n # origin[s] => local'[n][s] = "none")
  <2>1. \A n \in Machines : s \notin jobs'[n]
    <3>1. jobs' = jobs \/ (x \notin NoSync /\ jobs' = [jobs EXCEPT ![m] = @ \cup {x}])
      BY <1>3 DEF Pause
    <3> QED
      BY <1>2, <1>t, <3>1
  <2>2. local' = [local EXCEPT ![m][x] = "active"] /\ origin[x] = m
    BY <1>3 DEF Pause
  <2>3. \A n \in Machines : n # origin[s] => local'[n][s] = "none"
    BY <1>2, <1>t, <2>2
  <2> QED
    BY <1>3, <2>1, <2>3 DEF Pause
<1>4. ASSUME NEW m \in Machines, NEW S \in SUBSET Switches, Resume(m, S)
      PROVE  /\ UNCHANGED <<cloud, push, pull, jobs>>
             /\ \A n \in Machines : n # origin[s] => local'[n][s] = "none"
  <2>1. m # origin[s] => s \notin S
    BY <1>2, <1>t, <1>4 DEF Resume
  <2> QED
    BY <1>2, <1>t, <1>4, <2>1 DEF Resume
<1>5. ASSUME NEW x \in Switches, WebPause(x) \/ WebCommit(x) \/ WebResume(x)
      PROVE  UNCHANGED <<local, push, pull, jobs>> /\ cloud'[s] = "none"
  <2>1. CASE WebPause(x)
    BY <1>2, <1>t, <2>1 DEF WebPause
  <2>2. CASE WebCommit(x) \/ WebResume(x)
    <3>1. x # s
      BY <1>2, <1>t, <2>2 DEF WebCommit, WebResume, Uncommitted
    <3> QED
      BY <1>2, <1>t, <2>2, <3>1 DEF WebCommit, WebResume
  <2> QED
    BY <1>5, <2>1, <2>2
<1>6. ASSUME NEW m \in Machines, NEW x \in Switches, PushRead(m, x)
      PROVE  /\ UNCHANGED <<cloud, local, pull, jobs>>
             /\ \A n \in Machines : push'[n] # NoPush => push'[n].s # s
  <2>1. x # s /\ push' = [push EXCEPT ![m] = [s |-> x, status |-> local[m][x]]]
    BY <1>2, <1>t, <1>6 DEF PushRead
  <2>2. \A n \in Machines : push'[n] # NoPush => push'[n].s # s
    BY <1>2, <1>t, <2>1
  <2> QED
    BY <1>6, <2>2 DEF PushRead
<1>7. ASSUME NEW m \in Machines, PushWrite(m) \/ PushFails(m)
      PROVE  /\ UNCHANGED <<local, pull>> /\ cloud'[s] = "none"
             /\ \A n \in Machines : s \notin jobs'[n] /\ (push'[n] # NoPush => push'[n].s # s)
  <2>1. push[m].s # s /\ push' = [push EXCEPT ![m] = NoPush]
    BY <1>2, <1>t, <1>7 DEF PushWrite, PushFails
  <2>2. \A n \in Machines : push'[n] # NoPush => push'[n].s # s
    BY <1>2, <1>t, <2>1
  <2>3. cloud' = cloud \/ cloud' = [cloud EXCEPT ![push[m].s] = push[m].status]
    BY <1>7 DEF PushWrite, PushFails
  <2>4. cloud'[s] = "none"
    BY <1>2, <1>t, <2>1, <2>3
  <2>5. jobs' = jobs \/ jobs' = [jobs EXCEPT ![m] = @ \ {push[m].s}]
    BY <1>7 DEF PushWrite, PushFails
  <2>6. \A n \in Machines : s \notin jobs'[n]
    BY <1>2, <1>t, <2>5
  <2> QED
    BY <1>7, <2>2, <2>4, <2>6 DEF PushWrite, PushFails
<1>8. ASSUME NEW m \in Machines, PullStart(m) \/ PullSelect(m) \/ PullFails(m)
      PROVE  /\ UNCHANGED <<cloud, local, push, jobs>>
             /\ \A n \in Machines : pull'[n].rows[s] = "none"
  <2>1. pull[m] \in PullState /\ pull[m].rows[s] = "none"
    BY <1>2, <1>t
  <2>2. PICK p : pull' = [pull EXCEPT ![m] = p] /\ p.rows[s] = "none"
    <3>1. CASE PullStart(m)
      <4>1. PICK t : pull' = [pull EXCEPT ![m] = [pull[m] EXCEPT !.pc = "since", !.since = t]]
        BY <3>1 DEF PullStart
      <4>2. [pull[m] EXCEPT !.pc = "since", !.since = t].rows = pull[m].rows
        BY <2>1 DEF PullState
      <4> QED
        BY <2>1, <4>1, <4>2
    <3>2. CASE PullSelect(m)
      <4> DEFINE r == [x \in Switches |-> IF Newer(m, x) THEN cloud[x] ELSE "none"]
      <4>1. r[s] = "none"
        BY <1>2
      <4>2. pull' = [pull EXCEPT ![m] = [pull[m] EXCEPT !.pc = "rows", !.rows = r]]
        BY <3>2 DEF PullSelect
      <4> HIDE DEF r
      <4>3. [pull[m] EXCEPT !.pc = "rows", !.rows = r].rows = r
        BY <2>1 DEF PullState
      <4> QED
        BY <4>1, <4>2, <4>3
    <3>3. CASE PullFails(m)
      <4>1. pull' = [pull EXCEPT ![m] = NoPull] /\ NoPull.rows[s] = "none"
        BY <3>3 DEF PullFails, NoPull
      <4> QED
        BY <4>1
    <3> QED
      BY <1>8, <3>1, <3>2, <3>3
  <2>3. \A n \in Machines : pull'[n].rows[s] = "none"
    BY <1>2, <1>t, <2>2
  <2> QED
    BY <1>8, <2>3 DEF PullStart, PullSelect, PullFails
<1>9. ASSUME NEW m \in Machines, PullUpsert(m)
      PROVE  /\ UNCHANGED <<cloud, push, jobs>>
             /\ \A n \in Machines : /\ pull'[n].rows[s] = "none"
                                    /\ n # origin[s] => local'[n][s] = "none"
  <2>1. PICK lost :
          local' = [local EXCEPT ![m] =
                      [x \in Switches |-> IF x \in {y \in Switches : pull[m].rows[y] # "none"} \ lost
                                          THEN pull[m].rows[x] ELSE local[m][x]]]
    BY <1>9 DEF PullUpsert
  <2>2. local'[m][s] = local[m][s] /\ \A n \in Machines \ {m} : local'[n] = local[n]
    BY <1>2, <1>t, <2>1
  <2>3. pull' = [pull EXCEPT ![m] = NoPull] /\ NoPull.rows[s] = "none"
    BY <1>9 DEF PullUpsert, NoPull
  <2>4. \A n \in Machines : pull'[n].rows[s] = "none"
    BY <1>2, <1>t, <2>3
  <2>5. \A n \in Machines : n # origin[s] => local'[n][s] = "none"
    BY <1>2, <1>t, <2>2
  <2> QED
    BY <1>9, <2>4, <2>5 DEF PullUpsert
<1>10. CASE Tick \/ UNCHANGED vars
  BY <1>2, <1>t, <1>10 DEF Tick, vars
<1> QED
  BY <1>2, <1>t, <1>3, <1>4, <1>5, <1>6, <1>7, <1>8, <1>9, <1>10 DEF Next, Push, Pull

-----------------------------------------------------------------------------
(* Kill switches: what the watermark hides.  While every pause is made in   *)
(* the web app and nothing fails, what a machine lacks is newer than what   *)
(* it has and than where its pull begins; that web pauses are committed in  *)
(* the second of their stamp is what makes a late commit newer too.         *)

Lacks(m, s) == cloud[s] # "none" /\ local[m][s] = "none"

\* What machine m lacks is newer than what it has, and than what its pull asks for and
\* brings.
PullOK(m) ==
    /\ \A s, x \in Switches : Lacks(m, s) /\ local[m][x] # "none" => stamp[s] > Floor(stamp[x])
    /\ pull[m].pc # "idle" =>
         /\ pull[m].since <= 2 * second
         /\ \A s \in Switches : Lacks(m, s) => stamp[s] > pull[m].since
    /\ pull[m].pc = "rows" =>
         /\ \A s \in Switches : pull[m].rows[s] # "none" => cloud[s] # "none"
         /\ \A s, x \in Switches :
              Lacks(m, s) /\ pull[m].rows[s] = "none" /\ pull[m].rows[x] # "none"
                => stamp[s] > Floor(stamp[x])

SwitchOK(s) ==
    /\ stamp[s] <= 2 * second + 1
    /\ cloud[s] # "none" => stamp[s] # 0
    /\ Uncommitted(s) => stamp[s] = 2 * second + 1

OnTheWeb ==
    /\ \A m \in Machines : jobs[m] = {} /\ push[m] = NoPush
    /\ \A s \in Switches : SwitchOK(s)
    /\ \A m \in Machines, s \in Switches : local[m][s] # "none" => cloud[s] # "none"
    /\ \A m \in Machines : PullOK(m)

WebInv == AllFromWeb /\ failures = 0 => OnTheWeb

LEMMA FloorIsEven ==
    ASSUME NEW t \in Nat, NEW n \in Nat, t <= 2 * n + 1 PROVE Floor(t) <= 2 * n
BY DEF Floor

LEMMA OnTheWebHidesNothing == TypeOK /\ WebInv => NothingHidden
<1> SUFFICES ASSUME TypeOK, OnTheWeb, NEW m \in Machines, NEW s \in Switches,
                    cloud[s] # "none", local[m][s] = "none", NEW t \in Known(m)
             PROVE  stamp[s] > t
  BY DEF WebInv, NothingHidden
<1>1. PICK x \in Switches : local[m][x] # "none" /\ t = Floor(stamp[x])
  BY DEF Known
<1> QED
  BY <1>1 DEF OnTheWeb, PullOK, Lacks

LEMMA InitWebInv == Init => WebInv
BY SyncBoundsAssumption
DEF Init, WebInv, OnTheWeb, PullOK, SwitchOK, Lacks, Uncommitted, New, NoPush, NoPull

LEMMA FailuresCount == TypeOK /\ [Next]_vars => UNCHANGED origin /\ (failures' = 0 => failures = 0)
<1> SUFFICES ASSUME TypeOK, [Next]_vars PROVE UNCHANGED origin /\ (failures' = 0 => failures = 0)
  OBVIOUS
<1>1. failures \in Nat
  BY SyncBoundsAssumption DEF TypeOK
<1>2. failures' = failures \/ failures' = failures + 1
  <2>1. ASSUME NEW m \in Machines, NEW s \in Switches, Pause(m, s) \/ PushRead(m, s)
        PROVE  failures' = failures \/ failures' = failures + 1
    BY <2>1 DEF Pause, PushRead, Fail
  <2>2. ASSUME NEW m \in Machines, PushWrite(m) \/ PushFails(m) \/ PullFails(m) \/ PullUpsert(m)
        PROVE  failures' = failures \/ failures' = failures + 1
    BY <2>2 DEF PushWrite, PushFails, PullFails, PullUpsert, Fail
  <2> QED
    BY <2>1, <2>2 DEF Next, Resume, Push, Pull, PullStart, PullSelect, WebPause, WebCommit,
                      WebResume, Tick, vars
<1>3. UNCHANGED origin
  BY DEF Next, Pause, Resume, Push, PushRead, PushWrite, PushFails, Pull, PullStart, PullSelect,
         PullFails, PullUpsert, WebPause, WebCommit, WebResume, Tick, vars
<1> QED
  BY <1>1, <1>2, <1>3

WebTypes ==
    /\ second \in Nat /\ second <= MaxSecond /\ stamp \in [Switches -> Nat]
    /\ local \in [Machines -> [Switches -> Status]] /\ cloud \in [Switches -> Status]
    /\ jobs \in [Machines -> SUBSET Switches]
    /\ pull \in [Machines -> PullState]
    /\ \A s \in Switches : origin[s] \in {Web, Nobody} /\ origin[s] \notin Machines

LEMMA OperatorsOnTheWeb ==
    ASSUME WebTypes, OnTheWeb,
           \/ \E m \in Machines, S \in SUBSET Switches : Resume(m, S)
           \/ \E s \in Switches : WebPause(s) \/ WebCommit(s) \/ WebResume(s)
           \/ PromptCommits /\ Tick
    PROVE  OnTheWeb'
<1> USE DEF WebTypes
<1>1. ASSUME NEW m \in Machines, NEW S \in SUBSET Switches, Resume(m, S) PROVE OnTheWeb'
  <2>1. \A n \in Machines, s \in Switches : local'[n][s] = "none" <=> local[n][s] = "none"
    BY <1>1 DEF Resume
  <2> QED
    BY <1>1, <2>1 DEF Resume, OnTheWeb, PullOK, SwitchOK, Lacks, Uncommitted, New
<1>2. ASSUME NEW s \in Switches, WebResume(s) PROVE OnTheWeb'
  <2>1. \A x \in Switches : cloud'[x] = "none" <=> cloud[x] = "none"
    BY <1>2 DEF WebResume
  <2> QED
    BY <1>2, <2>1 DEF WebResume, OnTheWeb, PullOK, SwitchOK, Lacks, Uncommitted, New
<1>3. ASSUME NEW s \in Switches, WebPause(s) PROVE OnTheWeb'
  <2>1. /\ stamp'[s] = 2 * second + 1 /\ \A x \in Switches \ {s} : stamp'[x] = stamp[x]
        /\ stamp[s] = 0 /\ cloud[s] = "none"
        /\ UNCHANGED <<origin, second, local, cloud, jobs, push, pull>>
    BY <1>3 DEF WebPause, New, OnTheWeb, SwitchOK
  <2>2. \A m \in Machines : /\ local[m][s] = "none"
                            /\ pull[m].pc = "rows" => pull[m].rows[s] = "none"
    BY <2>1 DEF OnTheWeb, PullOK
  <2>3. ASSUME NEW m \in Machines PROVE PullOK(m)'
    BY <2>1, <2>2 DEF OnTheWeb, PullOK, Lacks
  <2>4. ASSUME NEW x \in Switches PROVE SwitchOK(x)'
    BY <2>1 DEF OnTheWeb, SwitchOK, Uncommitted, New
  <2> QED
    BY <2>1, <2>3, <2>4 DEF OnTheWeb
<1>4. ASSUME NEW s \in Switches, WebCommit(s) PROVE OnTheWeb'
  <2>1. /\ cloud'[s] # "none" /\ \A x \in Switches \ {s} : cloud'[x] = cloud[x]
        /\ cloud[s] = "none" /\ stamp[s] = 2 * second + 1
        /\ UNCHANGED <<origin, second, stamp, local, jobs, push, pull>>
    BY <1>4 DEF WebCommit, Uncommitted, OnTheWeb, SwitchOK, New
  <2>2. \A x \in Switches : Floor(stamp[x]) <= 2 * second /\ Floor(stamp[x]) \in Nat
    BY FloorIsEven, FloorIsBelow DEF OnTheWeb, SwitchOK
  <2>3. ASSUME NEW m \in Machines PROVE PullOK(m)'
    <3>1. \A x \in Switches : stamp[s] > Floor(stamp[x])
      BY <2>1, <2>2
    <3>2. pull[m].since \in Nat
      BY DEF PullState
    <3> QED
      BY <2>1, <3>1, <3>2 DEF OnTheWeb, PullOK, Lacks
  <2>4. ASSUME NEW x \in Switches PROVE SwitchOK(x)'
    BY <2>1 DEF OnTheWeb, SwitchOK, Uncommitted, New
  <2> QED
    BY <2>1, <2>3, <2>4 DEF OnTheWeb
<1>5. CASE PromptCommits /\ Tick
  <2>1. /\ UNCHANGED <<origin, stamp, local, cloud, jobs, push, pull>> /\ second' = second + 1
        /\ \A s \in Switches : ~Uncommitted(s)
    BY <1>5 DEF Tick
  <2>2. ASSUME NEW m \in Machines PROVE PullOK(m)'
    <3>1. pull[m].since \in Nat
      BY DEF PullState
    <3> QED
      BY <2>1, <3>1 DEF OnTheWeb, PullOK, Lacks
  <2>3. ASSUME NEW x \in Switches PROVE SwitchOK(x)'
    BY <2>1 DEF OnTheWeb, SwitchOK, Uncommitted, New
  <2> QED
    BY <2>1, <2>2, <2>3 DEF OnTheWeb
<1> QED
  BY <1>1, <1>2, <1>3, <1>4, <1>5

LEMMA PullOnTheWeb ==
    ASSUME WebTypes, OnTheWeb, NEW m \in Machines, Pull(m), failures = 0, failures' = 0
    PROVE  OnTheWeb'
<1>1. /\ UNCHANGED <<origin, second, stamp, cloud, jobs, push>>
      /\ \A x \in Switches : UNCHANGED Uncommitted(x)
  BY DEF Pull, PullStart, PullSelect, PullFails, PullUpsert, Uncommitted, New
<1>2. \A x \in Switches : SwitchOK(x)'
  BY <1>1 DEF OnTheWeb, SwitchOK
<1>3. /\ pull[m] \in PullState /\ PullOK(m) /\ pull[m].since \in Nat /\ second \in Nat
      /\ stamp \in [Switches -> Nat]
  BY DEF WebTypes, OnTheWeb, PullState
<1>4. ASSUME NEW p \in PullState, pull' = [pull EXCEPT ![m] = p], UNCHANGED local,
             p.pc # "idle" => /\ p.since <= 2 * second
                              /\ \A s \in Switches : Lacks(m, s) => stamp[s] > p.since,
             p.pc = "rows" => /\ \A s \in Switches : p.rows[s] # "none" => cloud[s] # "none"
                              /\ \A s \in Switches : Lacks(m, s) => p.rows[s] # "none"
      PROVE  OnTheWeb'
  <2>1. pull'[m] = p /\ \A n \in Machines \ {m} : pull'[n] = pull[n]
    BY <1>4 DEF WebTypes
  <2>2. ASSUME NEW n \in Machines PROVE PullOK(n)'
    BY <1>1, <1>3, <1>4, <2>1 DEF OnTheWeb, PullOK, Lacks
  <2> QED
    BY <1>1, <1>2, <1>4, <2>2 DEF OnTheWeb
<1>5. CASE PullStart(m)
  <2>1. PICK t \in Known(m) \cup {0} :
          /\ pull' = [pull EXCEPT ![m] = [pull[m] EXCEPT !.pc = "since", !.since = t]]
          /\ UNCHANGED local
    BY <1>5 DEF PullStart
  <2>2. t \in Nat /\ t <= 2 * second /\ \A s \in Switches : Lacks(m, s) => stamp[s] > t
    <3>1. CASE t = 0
      BY <3>1 DEF WebTypes, OnTheWeb, SwitchOK, Lacks
    <3>2. CASE t \in Known(m)
      <4>1. PICK x \in Switches : local[m][x] # "none" /\ t = Floor(stamp[x])
        BY <3>2 DEF Known
      <4>2. t \in Nat /\ t <= 2 * second
        BY <4>1, FloorIsBelow, FloorIsEven DEF WebTypes, OnTheWeb, SwitchOK
      <4> QED
        BY <1>3, <4>1, <4>2 DEF PullOK
    <3> QED
      BY <3>1, <3>2
  <2>3. t \in 0..(2 * MaxSecond)
    BY <2>2, SyncBoundsAssumption DEF WebTypes
  <2>4. [pull[m] EXCEPT !.pc = "since", !.since = t] \in PullState
    BY <1>3, <2>3 DEF PullState
  <2> QED
    BY <1>3, <1>4, <2>1, <2>2, <2>4 DEF PullState
<1>6. CASE PullSelect(m)
  <2> DEFINE r == [s \in Switches |-> IF Newer(m, s) THEN cloud[s] ELSE "none"]
             p == [pull[m] EXCEPT !.pc = "rows", !.rows = r]
  <2>1. pull' = [pull EXCEPT ![m] = p] /\ UNCHANGED local /\ pull[m].pc = "since"
    BY <1>6 DEF PullSelect
  <2>2. r \in [Switches -> Status]
    BY DEF WebTypes, Status
  <2>3. \A s \in Switches : /\ r[s] # "none" => cloud[s] # "none"
                            /\ Lacks(m, s) => r[s] # "none"
    BY <1>3, <2>1 DEF PullOK, Newer, Lacks
  <2> HIDE DEF r
  <2> QED
    BY <1>3, <1>4, <2>1, <2>2, <2>3 DEF PullState, PullOK
<1>7. CASE PullFails(m)
  <2>1. pull' = [pull EXCEPT ![m] = NoPull] /\ UNCHANGED local /\ NoPull.pc = "idle"
    BY <1>7 DEF PullFails, NoPull
  <2>2. NoPull \in PullState
    BY SyncBoundsAssumption DEF NoPull, PullState, Status
  <2> QED
    BY <1>4, <2>1, <2>2
<1>8. CASE PullUpsert(m)
  <2> DEFINE rows_ == pull[m].rows
             got == {s \in Switches : rows_[s] # "none"}
  <2>1. /\ pull[m].pc = "rows" /\ pull' = [pull EXCEPT ![m] = NoPull]
        /\ local' = [local EXCEPT ![m] = [s \in Switches |-> IF s \in got THEN rows_[s]
                                                             ELSE local[m][s]]]
    <3>1. PICK lost \in SUBSET got :
            /\ local' = [local EXCEPT ![m] = [s \in Switches |-> IF s \in got \ lost THEN rows_[s]
                                                                 ELSE local[m][s]]]
            /\ lost = {} \/ Fail
      BY <1>8 DEF PullUpsert
    <3>2. lost = {}
      BY <3>1 DEF Fail
    <3> QED
      BY <1>8, <3>1, <3>2 DEF PullUpsert
  <2>2. /\ \A n \in Machines \ {m} : local'[n] = local[n] /\ pull'[n] = pull[n]
        /\ pull'[m] = NoPull /\ NoPull.pc = "idle"
        /\ \A s \in Switches : local'[m][s] = "none" <=> rows_[s] = "none" /\ local[m][s] = "none"
    BY <2>1 DEF WebTypes, NoPull
  <2>3. \A n \in Machines, s \in Switches : local'[n][s] # "none" => cloud'[s] # "none"
    BY <1>1, <1>3, <2>1, <2>2 DEF OnTheWeb, PullOK
  <2>4. ASSUME NEW n \in Machines \ {m} PROVE PullOK(n)'
    BY <1>1, <2>2 DEF OnTheWeb, PullOK, Lacks
  <2>5. PullOK(m)'
    BY <1>1, <1>3, <2>1, <2>2 DEF PullOK, Lacks
  <2> QED
    BY <1>1, <1>2, <2>3, <2>4, <2>5 DEF OnTheWeb
<1> QED
  BY <1>5, <1>6, <1>7, <1>8 DEF Pull

LEMMA NextWebInv ==
    ASSUME PromptCommits PROVE TypeOK /\ WebInv /\ [Next]_vars => WebInv'
<1> SUFFICES ASSUME TypeOK, WebInv, [Next]_vars, AllFromWeb', failures' = 0 PROVE OnTheWeb'
  BY DEF WebInv
<1>1. failures = 0 /\ UNCHANGED origin /\ OnTheWeb
  BY FailuresCount DEF WebInv, AllFromWeb
<1>2. WebTypes
  BY <1>1, OriginAssumption, SyncBoundsAssumption DEF TypeOK, WebTypes, AllFromWeb, PullState
<1>3. CASE UNCHANGED vars
  BY <1>1, <1>3 DEF vars, OnTheWeb, PullOK, SwitchOK, Lacks, Uncommitted, New
<1>4. ASSUME NEW m \in Machines PROVE ~Push(m) /\ \A s \in Switches : ~Pause(m, s)
  BY <1>1, <1>2 DEF OnTheWeb, WebTypes, Push, PushRead, PushWrite, PushFails, Pause
<1> QED
  BY <1>1, <1>2, <1>3, <1>4, OperatorsOnTheWeb, PullOnTheWeb DEF Next

-----------------------------------------------------------------------------
(* A daemon: what a shutdown has waited for stays so.                       *)

Flags == [timer : BOOLEAN, flight : BOOLEAN, stopped : BOOLEAN]

LastStep == IF kind = "bridge" THEN 4 ELSE 3

DaemonTypes ==
    /\ kind \in {"bridge", "mcp", "sync", "none"}
    /\ phase \in {"start", "opened", "working", "chained", "up", "dead"}
    /\ worker \in Flags /\ chain \in Flags
    /\ server \in {"none", "listening", "closing"}
    /\ down \in [Signals -> 0..5]

\* How far shutdown(s) is says what is stopped, and what has come to rest.
Stopping(s) ==
    /\ kind = "bridge" =>
         /\ down[s] >= 1 => server = "closing"
         /\ down[s] >= 2 => reqs \subseteq Stdio /\ worker.stopped
         /\ down[s] >= 3 => ~worker.flight /\ chain.stopped
         /\ down[s] >= 4 => ~chain.flight
    /\ kind = "mcp" =>
         /\ down[s] >= 1 => worker.stopped
         /\ down[s] >= 2 => ~worker.flight /\ server = "closing"
         /\ down[s] >= 3 => reqs \subseteq Stdio
    /\ kind = "sync" =>
         /\ down[s] >= 1 => worker.stopped
         /\ down[s] >= 2 => ~worker.flight

DaemonInv ==
    /\ DaemonTypes
    /\ kind = "none" => phase = "dead"
    /\ kind = "sync" => server = "none" /\ reqs \subseteq Stdio
    /\ phase \notin {"up", "dead"} => /\ db # "closed" /\ ~chain.stopped
                                     /\ \A s \in Signals : down[s] = 0
    /\ phase # "dead" => \A s \in Signals : down[s] <= LastStep
    /\ worker.stopped => ~worker.timer
    /\ chain.stopped => ~chain.timer
    /\ db = "closed" => \E s \in Signals : down[s] >= LastStep
    /\ \A s \in Signals : Stopping(s)

LEMMA DaemonInvIsQuiet == DaemonInv => ClosedDbIsQuiet
<1> SUFFICES ASSUME DaemonInv, phase # "dead", db = "closed"
             PROVE  /\ ~worker.flight /\ ~worker.timer
                    /\ reqs \subseteq Stdio
                    /\ kind = "bridge" => ~chain.flight /\ ~chain.timer
  BY DEF ClosedDbIsQuiet, D!ClosedDbIsQuiet, D!Alive
<1>1. PICK s \in Signals : down[s] >= LastStep
  BY DEF DaemonInv
<1>2. down[s] \in 0..5 /\ kind \in {"bridge", "mcp", "sync"} /\ Stopping(s)
  BY DEF DaemonInv, DaemonTypes
<1> QED
  BY <1>1, <1>2 DEF DaemonInv, Stopping, LastStep

LEMMA InitDaemonInv == (\E k \in {"bridge", "mcp", "sync", "none"} : D!Init(k)) => DaemonInv
BY DEF D!Init, D!Quiet, DaemonInv, DaemonTypes, Flags, Stopping, LastStep

\* The steps of each kind of process, in the order of its shutdown().
LEMMA StepsOfKinds ==
    /\ kind = "bridge" => /\ D!Step(1) = "server" /\ D!Step(2) = "worker" /\ D!Step(3) = "chain"
                          /\ D!Step(4) = "db" /\ D!Step(5) = "exit"
    /\ kind = "mcp" => /\ D!Step(1) = "worker" /\ D!Step(2) = "server" /\ D!Step(3) = "db"
                       /\ D!Step(4) = "exit"
    /\ kind = "sync" => /\ D!Step(1) = "worker" /\ D!Step(2) = "chain" /\ D!Step(3) = "db"
                        /\ D!Step(4) = "exit"
BY DEF D!Step, D!Steps

\* A shutdown goes on.
LEMMA EnterKeeps ==
    ASSUME DaemonInv, NEW s \in Signals, NEW i \in 1..5, i = down[s] + 1, phase = "up",
           down[s] > 0 => D!Waited(down[s]), D!Enter(s, i), UNCHANGED <<kind, reqs, rows>>
    PROVE  DaemonInv'
<1> USE DEF DaemonInv, DaemonTypes, Flags
<1>1. down' = [down EXCEPT ![s] = i] /\ i <= LastStep + 1 /\ kind \in {"bridge", "mcp", "sync"}
  BY DEF D!Enter, LastStep
<1>2. /\ D!Step(i) = "worker" =>
           worker' = [worker EXCEPT !.stopped = TRUE, !.timer = FALSE]
      /\ D!Step(i) # "worker" => worker' = worker
      /\ D!Step(i) = "chain" => chain' = [chain EXCEPT !.stopped = TRUE, !.timer = FALSE]
      /\ D!Step(i) # "chain" => chain' = chain
      /\ server' = IF D!Step(i) = "server" THEN "closing" ELSE server
      /\ db' = IF D!Step(i) = "db" THEN "closed" ELSE db
      /\ phase' = IF D!Step(i) = "exit" THEN "dead" ELSE "up"
  BY DEF D!Enter
<1>3. /\ worker' \in Flags /\ worker'.flight = worker.flight
      /\ worker'.stopped = (worker.stopped \/ D!Step(i) = "worker")
      /\ worker'.stopped => ~worker'.timer
  BY <1>2
<1>4. /\ chain' \in Flags /\ chain'.flight = chain.flight
      /\ chain'.stopped = (chain.stopped \/ D!Step(i) = "chain")
      /\ chain'.stopped => ~chain'.timer
  BY <1>2
<1>5. \A t \in Signals : down'[t] = IF t = s THEN i ELSE down[t]
  BY <1>1
<1>6. DaemonTypes'
  BY <1>1, <1>2, <1>3, <1>4
<1>7. ASSUME NEW t \in Signals PROVE Stopping(t)'
  <2>1. Stopping(s) /\ Stopping(t) /\ i \in 1..5 /\ down[s] \in 0..5 /\ down[t] \in 0..5
    OBVIOUS
  <2>2. CASE kind = "bridge"
    BY <1>1, <1>2, <1>3, <1>4, <1>5, <2>1, <2>2, StepsOfKinds DEF Stopping, D!Waited
  <2>3. CASE kind = "mcp"
    BY <1>1, <1>2, <1>3, <1>4, <1>5, <2>1, <2>3, StepsOfKinds DEF Stopping, D!Waited
  <2>4. CASE kind = "sync"
    BY <1>1, <1>2, <1>3, <1>4, <1>5, <2>1, <2>4, StepsOfKinds DEF Stopping, D!Waited
  <2> QED
    BY <1>1, <2>2, <2>3, <2>4
<1>8. phase' # "dead" => \A t \in Signals : down'[t] <= LastStep'
  BY <1>1, <1>2, <1>5, StepsOfKinds DEF LastStep
<1>9. db' = "closed" => \E t \in Signals : down'[t] >= LastStep'
  BY <1>1, <1>2, <1>5, StepsOfKinds DEF LastStep
<1>10. kind' = "sync" => server' = "none"
  BY <1>1, <1>2, StepsOfKinds DEF LastStep
<1> QED
  BY <1>1, <1>2, <1>3, <1>4, <1>6, <1>7, <1>8, <1>9, <1>10

LEMMA NextDaemonInv == DaemonInv /\ [D!Next]_daemonsVars => DaemonInv'
<1> SUFFICES ASSUME DaemonInv, [D!Next]_daemonsVars PROVE DaemonInv'
  OBVIOUS
<1>0. worker \in Flags /\ chain \in Flags /\ D!Arm(worker) \in Flags /\ \A s \in Signals : down[s] \in 0..5
  BY DEF DaemonInv, DaemonTypes, Flags, D!Arm
\* A step of the worker or of the other chain of a process that serves.
<1>a. ASSUME worker' \in Flags, chain' \in Flags, UNCHANGED <<kind, phase, server, reqs, db, down>>,
             worker'.stopped = worker.stopped, chain'.stopped = chain.stopped,
             worker.stopped => ~worker'.timer /\ (worker'.flight => worker.flight),
             chain.stopped => ~chain'.timer /\ (chain'.flight => chain.flight)
      PROVE  DaemonInv'
  <2>1. ASSUME NEW s \in Signals PROVE Stopping(s)'
    <3>1. Stopping(s) /\ down[s] \in 0..5
      BY <1>0 DEF DaemonInv
    <3> QED
      BY <1>a, <3>1 DEF Stopping
  <2>2. DaemonTypes' /\ LastStep' = LastStep
    BY <1>a DEF DaemonInv, DaemonTypes, LastStep
  <2> QED
    BY <1>a, <2>1, <2>2 DEF DaemonInv
<1>b. \A w \in Flags : /\ D!Arm(w) \in Flags /\ D!Arm(w).stopped = w.stopped
                      /\ D!Arm(w).timer = ~w.stopped /\ D!Arm(w).flight = w.flight
  BY DEF D!Arm, Flags
<1>c. \A w \in Flags : \A t, f \in BOOLEAN :
         /\ [w EXCEPT !.timer = t, !.flight = f] \in Flags
         /\ [w EXCEPT !.timer = t, !.flight = f].stopped = w.stopped
         /\ [w EXCEPT !.timer = t, !.flight = f].timer = t
         /\ [w EXCEPT !.timer = t, !.flight = f].flight = f
         /\ [w EXCEPT !.flight = f] \in Flags
         /\ [w EXCEPT !.flight = f].stopped = w.stopped
         /\ [w EXCEPT !.flight = f].timer = w.timer
         /\ [w EXCEPT !.flight = f].flight = f
  BY DEF Flags
<1>d. (worker.stopped => ~worker.timer) /\ (chain.stopped => ~chain.timer)
  BY DEF DaemonInv
<1>1. CASE D!Boot
  <2>1. CASE D!OpenDb
    BY <1>0, <2>1 DEF D!OpenDb, DaemonInv, DaemonTypes, Stopping, LastStep
  <2>2. CASE D!StartWorker
    BY <1>0, <1>b, <2>2 DEF D!StartWorker, DaemonInv, DaemonTypes, Stopping, LastStep
  <2>3. CASE D!StartChain
    <3>1. chain' \in Flags /\ chain'.stopped = chain.stopped /\ ~chain.stopped
      BY <1>0, <1>c, <2>3 DEF D!StartChain, DaemonInv
    <3> QED
      BY <1>0, <2>3, <3>1 DEF D!StartChain, DaemonInv, DaemonTypes, Stopping, LastStep
  <2>4. CASE D!Listen
    BY <1>0, <2>4 DEF D!Listen, DaemonInv, DaemonTypes, Stopping, LastStep
  <2> QED
    BY <1>1, <2>1, <2>2, <2>3, <2>4 DEF D!Boot
<1>2. CASE D!Fire
  <2>1. CASE worker.flight \/ rows = 0
    BY <1>0, <1>a, <1>b, <1>d, <1>2, <2>1 DEF D!Fire
  <2>2. CASE ~(worker.flight \/ rows = 0)
    <3>1. worker' = [worker EXCEPT !.timer = FALSE, !.flight = TRUE] /\ ~worker.stopped
      BY <1>d, <1>2, <2>2 DEF D!Fire
    <3>2. worker' \in Flags /\ worker'.stopped = worker.stopped
      BY <1>0, <3>1 DEF Flags
    <3> QED
      BY <1>0, <1>a, <1>d, <1>2, <2>2, <3>1, <3>2 DEF D!Fire
  <2> QED
    BY <2>1, <2>2
<1>3. CASE D!Settle
  <2>1. worker' = D!Arm([worker EXCEPT !.flight = FALSE])
    BY <1>3 DEF D!Settle
  <2>2. [worker EXCEPT !.flight = FALSE] \in Flags /\ [worker EXCEPT !.flight = FALSE].stopped = worker.stopped
        /\ [worker EXCEPT !.flight = FALSE].flight = FALSE
    BY <1>0 DEF Flags
  <2> DEFINE w == [worker EXCEPT !.flight = FALSE]
  <2> HIDE DEF w
  <2>3. worker' \in Flags /\ worker'.stopped = worker.stopped /\ worker'.timer = ~worker.stopped
        /\ worker'.flight = FALSE
    BY <1>b, <2>1, <2>2 DEF w
  <2> QED
    BY <1>0, <1>a, <1>d, <1>3, <2>3 DEF D!Settle
<1>4. CASE D!FireChain
  <2>1. chain' = [chain EXCEPT !.timer = (kind = "bridge"), !.flight = TRUE] /\ ~chain.stopped
    BY <1>d, <1>4 DEF D!FireChain
  <2>2. chain' \in Flags /\ chain'.stopped = chain.stopped
    BY <1>0, <2>1 DEF Flags
  <2> QED
    BY <1>0, <1>a, <1>d, <1>4, <2>1, <2>2 DEF D!FireChain
<1>5. CASE D!SettleChain
  <2>1. PICK c \in Flags : c = [chain EXCEPT !.flight = FALSE]
    BY <1>0, <1>c
  <2>2. c.stopped = chain.stopped /\ c.timer = chain.timer /\ c.flight = FALSE
    BY <1>0, <1>c, <2>1
  <2>3. chain' = IF kind = "sync" THEN D!Arm(c) ELSE c
    BY <1>5, <2>1 DEF D!SettleChain
  <2>4. chain' \in Flags /\ chain'.stopped = chain.stopped /\ (chain.stopped => ~chain'.timer)
        /\ chain'.flight = FALSE
    BY <1>b, <1>d, <2>2, <2>3
  <2> QED
    BY <1>0, <1>a, <1>d, <1>5, <2>4 DEF D!SettleChain
<1>6. CASE D!Crash \/ UNCHANGED daemonsVars
  BY <1>6 DEF D!Crash, daemonsVars, DaemonInv, DaemonTypes, Stopping, LastStep
<1>7. ASSUME NEW q \in Requests, D!Arrive(q) PROVE DaemonInv'
  BY <1>0, <1>7 DEF D!Arrive, D!Open, DaemonInv, DaemonTypes, Stopping, LastStep
<1>8. ASSUME NEW q \in Requests, D!Enqueue(q) \/ D!Respond(q) PROVE DaemonInv'
  <2>1. CASE D!Enqueue(q)
    BY <1>0, <1>a, <1>b, <1>d, <2>1 DEF D!Enqueue
  <2>2. CASE D!Respond(q)
    BY <1>0, <2>2 DEF D!Respond, DaemonInv, DaemonTypes, Stopping, LastStep
  <2> QED
    BY <1>8, <2>1, <2>2
<1>9. ASSUME NEW s \in Signals, D!Signal(s) \/ D!Proceed(s) PROVE DaemonInv'
  <2>1. /\ phase = "up" /\ down[s] + 1 \in 1..5 /\ D!Enter(s, down[s] + 1)
        /\ down[s] > 0 => D!Waited(down[s])
        /\ UNCHANGED <<kind, reqs, rows>>
    BY <1>0, <1>9 DEF D!Signal, D!Proceed, D!Alive, DaemonInv, DaemonTypes, LastStep
  <2> QED
    BY <2>1, EnterKeeps
<1> QED
  BY <1>1, <1>2, <1>3, <1>4, <1>5, <1>6, <1>7, <1>8, <1>9 DEF D!Next, D!Timers

-----------------------------------------------------------------------------
(* Readers: the pages of the context packs.                                 *)

Packs == [id : Ids, at : 1..LastSecond]
ListTypes ==
    /\ now \in 1..LastSecond /\ packs \in SUBSET Packs
    /\ \A p, q \in packs : p.id = q.id => p = q
    /\ walk \in [at : {"idle", "walking", "done"}, cursor : [at : Nat, id : Nat],
                 seen : SUBSET Packs, again : BOOLEAN, had : SUBSET Packs]

\* What was seen lies before the cursor; what there was and is, was seen or lies behind it.
ListInv ==
    /\ ListTypes /\ ~walk.again
    /\ walk.at = "idle" => walk.cursor = W!Newest /\ walk.seen = {}
    /\ walk.at = "walking" =>
          /\ walk.cursor.id # 0
          /\ \A p \in walk.seen : p = walk.cursor \/ W!Newer(p, walk.cursor)
          /\ walk.had \subseteq walk.seen \cup W!After(walk.cursor)
    /\ walk.at = "done" => walk.had \subseteq walk.seen

LEMMA CountsAgree == \A s : W!Cardinality(s) = Cardinality(s) /\ F!Cardinality(s) = Cardinality(s)
BY Zenon DEF W!Cardinality, F!Cardinality, Cardinality

LEMMA LeastIsThere ==
    ASSUME NEW S \in SUBSET Nat, S # {} PROVE \E m \in S : \A n \in S : m <= n
<1>1. IsWellFoundedOn(OpToRel(<, Nat), Nat)
  BY NatLessThanWellFounded
<1>2. PICK m \in S : \A n \in S : ~(<<n, m>> \in OpToRel(<, Nat))
  BY <1>1, WFMin
<1>3. \A n \in S : n < m => <<n, m>> \in OpToRel(<, Nat)
  BY <1>2 DEF OpToRel
<1>4. ASSUME NEW n \in S PROVE m <= n
  <2>1. m \in Nat /\ n \in Nat /\ ~(n < m)
    BY <1>2, <1>3
  <2> QED
    BY <2>1
<1> QED
  BY <1>2, <1>4

\* In a finite set with a strict order something has nothing before it.
LEMMA FirstIsThere ==
    ASSUME NEW S, IsFiniteSet(S), S # {}, NEW Rel,
           \A x \in S : <<x, x>> \notin Rel,
           \A x, y, z \in S : <<x, y>> \in Rel /\ <<y, z>> \in Rel => <<x, z>> \in Rel
    PROVE  \E x \in S : \A y \in S : <<y, x>> \notin Rel
<1> DEFINE Below == [x \in S |-> {y \in S : <<y, x>> \in Rel}]
           cnt == [x \in S |-> Cardinality(Below[x])]
           K == {k \in Nat : \E x \in S : cnt[x] = k}
<1>1. ASSUME NEW x \in S PROVE Below[x] \in SUBSET S /\ IsFiniteSet(Below[x]) /\ cnt[x] \in Nat
  BY FS_Subset, FS_CardinalityType
<1>2. \A x, y \in S : y \in Below[x] <=> <<y, x>> \in Rel
  OBVIOUS
<1>3. \A x \in S : cnt[x] = Cardinality(Below[x])
  OBVIOUS
<1> HIDE DEF Below, cnt
<1>4. K \in SUBSET Nat /\ K # {}
  BY <1>1
<1>5. PICK m \in K : \A k \in K : m <= k
  BY <1>4, LeastIsThere
<1>6. PICK x \in S : cnt[x] = m
  BY <1>5
<1>7. ASSUME NEW y \in S, <<y, x>> \in Rel PROVE FALSE
  <2>1. Below[y] \subseteq Below[x] /\ y \in Below[x] /\ y \notin Below[y]
    BY <1>1, <1>2, <1>7
  <2>2. /\ Cardinality(Below[y]) <= Cardinality(Below[x])
        /\ Cardinality(Below[x]) = Cardinality(Below[y]) => Below[x] = Below[y]
    BY <1>1, <2>1, FS_Subset
  <2>3. cnt[y] < cnt[x]
    BY <1>1, <1>3, <2>1, <2>2
  <2>4. cnt[y] \in K
    BY <1>1
  <2> QED
    BY <1>1, <1>5, <1>6, <2>3, <2>4
<1> QED
  BY <1>6, <1>7

LEMMA NewerIsOrder ==
    ASSUME ListTypes, NEW p \in packs, NEW q \in packs, NEW r \in packs
    PROVE  /\ ~W!Newer(p, p)
           /\ W!Newer(p, q) /\ W!Newer(q, r) => W!Newer(p, r)
           /\ p = q \/ W!Newer(p, q) \/ W!Newer(q, p)
<1>1. /\ p.at \in Nat /\ q.at \in Nat /\ r.at \in Nat
      /\ p.id \in Nat /\ q.id \in Nat /\ r.id \in Nat /\ (p.id = q.id => p = q)
  <2>1. p \in Packs /\ q \in Packs /\ r \in Packs /\ (p.id = q.id => p = q)
    BY DEF ListTypes
  <2>2. Ids \subseteq Nat /\ 1..LastSecond \subseteq Nat
    BY ReadersAssumption
  <2> QED
    BY <2>1, <2>2 DEF Packs
<1> QED
  BY <1>1 DEF W!Newer

LEMMA PacksAreFinite == ASSUME ListTypes PROVE IsFiniteSet(packs)
<1> DEFINE f == [p \in packs |-> p.id]
<1>1. f \in [packs -> Ids]
  BY DEF ListTypes, Packs
<1>2. \A p, q \in packs : f[p] = f[q] => p = q
  BY DEF ListTypes
<1> HIDE DEF f
<1>3. f \in Injection(packs, Ids)
  BY <1>1, <1>2 DEF Injection, IsInjective
<1> QED
  BY <1>3, ReadersAssumption, FS_Injection

\* A page holds the first of the list and has a last one; what is left is behind that.
LEMMA PagesAre ==
    ASSUME ListTypes, NEW list \in SUBSET packs
    PROVE  /\ W!Page(list) \subseteq list
           /\ ~(W!Cardinality(list) > Limit) => W!Page(list) = list
           /\ W!Cardinality(list) > Limit =>
                 /\ W!Oldest(W!Page(list)) \in W!Page(list)
                 /\ \A q \in W!Page(list) :
                       q = W!Oldest(W!Page(list)) \/ W!Newer(q, W!Oldest(W!Page(list)))
                 /\ \A x \in list \ W!Page(list) : W!Newer(W!Oldest(W!Page(list)), x)
<1> DEFINE page == W!Page(list)
           ahead == [p \in list |-> {q \in list : W!Newer(q, p)}]
           newer == {s \in list \X list : W!Newer(s[1], s[2])}
           older == {s \in list \X list : W!Newer(s[2], s[1])}
<1>1. IsFiniteSet(list) /\ Cardinality(list) \in Nat
  BY PacksAreFinite, FS_Subset, FS_CardinalityType
<1>2. \A p, q, r \in list : /\ ~W!Newer(p, p)
                            /\ W!Newer(p, q) /\ W!Newer(q, r) => W!Newer(p, r)
                            /\ p = q \/ W!Newer(p, q) \/ W!Newer(q, p)
  BY NewerIsOrder
<1>3. \A p, q \in list : (<<p, q>> \in newer <=> W!Newer(p, q)) /\ (<<p, q>> \in older <=> W!Newer(q, p))
  OBVIOUS
<1>4. \A p, q \in list : q \in ahead[p] <=> W!Newer(q, p)
  OBVIOUS
<1>5. page = {p \in list : Cardinality(ahead[p]) < Limit}
  <2>1. page = {p \in list : Cardinality({q \in list : W!Newer(q, p)}) < Limit}
    BY CountsAgree DEF W!Page
  <2>2. \A p \in list : ahead[p] = {q \in list : W!Newer(q, p)}
    OBVIOUS
  <2> QED
    BY <2>1, <2>2
<1>6. ASSUME NEW p \in list
      PROVE  ahead[p] \in SUBSET list /\ IsFiniteSet(ahead[p]) /\ Cardinality(ahead[p]) \in Nat
  BY <1>1, FS_Subset, FS_CardinalityType
<1> HIDE DEF ahead, newer, older, page
<1>7. page \in SUBSET list /\ IsFiniteSet(page)
  BY <1>1, <1>5, FS_Subset
<1>8. ASSUME ~(Cardinality(list) > Limit) PROVE page = list
  <2>1. ASSUME NEW p \in list PROVE Cardinality(ahead[p]) < Limit
    <3>1. ahead[p] # list
      BY <1>2, <1>4
    <3>2. Cardinality(ahead[p]) <= Cardinality(list) /\ Cardinality(ahead[p]) # Cardinality(list)
      BY <1>1, <1>6, <3>1, FS_Subset
    <3> QED
      BY <1>1, <1>6, <1>8, <3>2, ReadersAssumption
  <2> QED
    BY <1>5, <2>1
<1>9. ASSUME Cardinality(list) > Limit PROVE page # {}
  <2>1. list # {}
    BY <1>9, FS_EmptySet, ReadersAssumption
  <2>2. /\ \A x \in list : <<x, x>> \notin newer
        /\ \A x, y, z \in list : <<x, y>> \in newer /\ <<y, z>> \in newer => <<x, z>> \in newer
    BY <1>2, <1>3
  <2>3. \E p \in list : \A q \in list : <<q, p>> \notin newer
    BY <1>1, <2>1, <2>2, FirstIsThere
  <2>4. PICK p \in list : \A q \in list : <<q, p>> \notin newer
    BY <2>3
  <2>5. ahead[p] = {}
    BY <1>3, <1>4, <1>6, <2>4
  <2>6. Cardinality(ahead[p]) = 0
    BY <2>5, FS_EmptySet
  <2> QED
    BY <1>5, <2>4, <2>6, ReadersAssumption
<1>10. ASSUME page # {}
       PROVE  W!Oldest(page) \in page /\ \A q \in page : ~W!Newer(W!Oldest(page), q)
  <2>1. /\ \A x \in page : <<x, x>> \notin older
        /\ \A x, y, z \in page : <<x, y>> \in older /\ <<y, z>> \in older => <<x, z>> \in older
    BY <1>2, <1>3, <1>7
  <2>2. \E p \in page : \A q \in page : <<q, p>> \notin older
    BY <1>7, <1>10, <2>1, FirstIsThere
  <2>3. \E p \in page : \A q \in page : ~W!Newer(p, q)
    BY <1>3, <1>7, <2>2
  <2> QED
    BY <2>3 DEF W!Oldest
<1>11. ASSUME page # {}, NEW x \in list, x \notin page PROVE W!Newer(W!Oldest(page), x)
  <2> DEFINE o == W!Oldest(page)
  <2>1. o \in page /\ o \in list /\ o # x
    BY <1>7, <1>10, <1>11
  <2> HIDE DEF o
  <2>2. ASSUME W!Newer(x, o) PROVE FALSE
    <3>1. ahead[x] \in SUBSET ahead[o]
      BY <1>2, <1>4, <1>6, <2>1, <2>2
    <3>2. Cardinality(ahead[x]) <= Cardinality(ahead[o])
      BY <1>6, <2>1, <3>1, FS_Subset
    <3>3. Cardinality(ahead[o]) < Limit /\ ~(Cardinality(ahead[x]) < Limit)
      BY <1>5, <1>11, <2>1
    <3> QED
      BY <1>6, <2>1, <3>2, <3>3, ReadersAssumption
  <2> QED
    BY <1>2, <2>1, <2>2 DEF o
<1>12. \A q \in page : page # {} /\ (q = W!Oldest(page) \/ W!Newer(q, W!Oldest(page)))
  BY <1>2, <1>7, <1>10
<1> QED
  BY <1>7, <1>8, <1>9, <1>10, <1>11, <1>12, CountsAgree DEF page

LEMMA NextPageInv == ASSUME ListInv, W!NextPage PROVE ListInv'
<1> DEFINE list == W!After(walk.cursor)
           page == W!Page(list)
           more == W!Cardinality(list) > Limit
           o == W!Oldest(page)
<1>1. /\ walk.at \in {"idle", "walking"} /\ UNCHANGED <<now, packs>>
      /\ walk' = [at |-> IF more THEN "walking" ELSE "done",
                  cursor |-> IF more THEN o ELSE walk.cursor,
                  seen |-> walk.seen \cup page,
                  again |-> walk.again \/ walk.seen \cap page # {},
                  had |-> IF walk.at = "idle" THEN packs ELSE walk.had]
  BY DEF W!NextPage, W!Listing
<1>2. ListTypes /\ list \in SUBSET packs
  BY DEF ListInv, W!After
<1>3. /\ page \subseteq list
      /\ ~more => page = list
      /\ more => /\ o \in page
                 /\ \A q \in page : q = o \/ W!Newer(q, o)
                 /\ \A x \in list \ page : W!Newer(o, x)
  BY <1>2, PagesAre
<1>4. \A p \in packs : p \in list <=> walk.cursor = W!Newest \/ W!Newer(walk.cursor, p)
  BY DEF W!After
<1>5. more \in BOOLEAN
  OBVIOUS
<1> HIDE DEF list, page, more, o
<1>6. \A p \in packs : p \in Packs /\ p.at \in Nat /\ p.id \in Nat /\ p.id # 0
  <2>1. Ids \subseteq Nat \ {0} /\ 1..LastSecond \subseteq Nat
    BY ReadersAssumption
  <2> QED
    BY <1>2, <2>1 DEF ListTypes, Packs
<1>7. /\ walk'.seen = walk.seen \cup page
      /\ walk'.had = IF walk.at = "idle" THEN packs ELSE walk.had
      /\ more => walk'.at = "walking" /\ walk'.cursor = o
      /\ ~more => walk'.at = "done" /\ walk'.cursor = walk.cursor
  BY <1>1
<1>8. walk.seen \cap page = {}
  <2>1. CASE walk.at = "idle"
    BY <2>1 DEF ListInv
  <2>2. CASE walk.at = "walking"
    <3>1. ASSUME NEW p \in walk.seen, p \in page PROVE FALSE
      <4>1. p \in packs /\ p \in list
        BY <1>2, <1>3, <3>1
      <4>2. walk.cursor.id # 0 /\ (p = walk.cursor \/ W!Newer(p, walk.cursor))
        BY <2>2 DEF ListInv
      <4>3. W!Newer(walk.cursor, p)
        BY <1>4, <4>1, <4>2 DEF W!Newest
      <4>4. walk.cursor.at \in Nat /\ walk.cursor.id \in Nat /\ p.at \in Nat /\ p.id \in Nat
        BY <1>2, <1>6, <4>1 DEF ListTypes
      <4> QED
        BY <4>2, <4>3, <4>4 DEF W!Newer
    <3> QED
      BY <3>1
  <2> QED
    BY <1>1, <2>1, <2>2
<1>9. ~walk'.again
  BY <1>1, <1>8 DEF ListInv
<1>10. ListTypes'
  <2>1. o \in page => o \in [at : Nat, id : Nat]
    <3>1. o \in page => o \in Packs
      BY <1>2, <1>3, <1>6
    <3>2. Ids \subseteq Nat /\ 1..LastSecond \subseteq Nat
      BY ReadersAssumption
    <3> QED
      BY <3>1, <3>2 DEF Packs
  <2>2. walk.cursor \in [at : Nat, id : Nat] /\ walk.seen \in SUBSET Packs /\ walk.had \in SUBSET Packs
    BY <1>2 DEF ListTypes
  <2>3. page \in SUBSET Packs /\ packs \in SUBSET Packs
    BY <1>2, <1>3, <1>6
  <2> DEFINE at == IF more THEN "walking" ELSE "done"
             cursor == IF more THEN o ELSE walk.cursor
             seen == walk.seen \cup page
             again == walk.again \/ walk.seen \cap page # {}
             had == IF walk.at = "idle" THEN packs ELSE walk.had
  <2>4. /\ at \in {"idle", "walking", "done"} /\ cursor \in [at : Nat, id : Nat]
        /\ seen \in SUBSET Packs /\ had \in SUBSET Packs
    BY <1>3, <2>1, <2>2, <2>3
  <2>5. again \in BOOLEAN
    BY Zenon
  <2>6. walk' = [at |-> at, cursor |-> cursor, seen |-> seen, again |-> again, had |-> had]
    BY <1>1, Zenon
  <2> HIDE DEF at, cursor, seen, again, had
  <2>7. walk' \in [at : {"idle", "walking", "done"}, cursor : [at : Nat, id : Nat],
                   seen : SUBSET Packs, again : BOOLEAN, had : SUBSET Packs]
    BY <2>4, <2>5, <2>6
  <2> QED
    BY <1>1, <1>2, <2>7 DEF ListTypes
<1>11. walk'.had \subseteq walk.seen \cup list
  <2>1. CASE walk.at = "idle"
    BY <1>4, <1>7, <2>1 DEF ListInv
  <2>2. CASE walk.at = "walking"
    BY <1>7, <2>2 DEF ListInv, list
  <2> QED
    BY <1>1, <2>1, <2>2
<1>12. CASE ~more
  <2>1. walk'.had \subseteq walk'.seen /\ walk'.at = "done"
    BY <1>3, <1>7, <1>11, <1>12
  <2> QED
    BY <1>9, <1>10, <2>1 DEF ListInv
<1>13. CASE more
  <2>1. o \in page /\ o \in list /\ o \in packs
    BY <1>2, <1>3, <1>13
  <2>2. ASSUME NEW p \in walk.seen PROVE W!Newer(p, o)
    <3>1. walk.at = "walking"
      BY <1>1, <2>2 DEF ListInv
    <3>2. walk.cursor.id # 0 /\ (p = walk.cursor \/ W!Newer(p, walk.cursor))
      BY <3>1 DEF ListInv
    <3>3. W!Newer(walk.cursor, o)
      BY <1>4, <2>1, <3>2 DEF W!Newest
    <3>4. walk.cursor.at \in Nat /\ walk.cursor.id \in Nat /\ o.at \in Nat /\ o.id \in Nat
      BY <1>2, <1>6, <2>1 DEF ListTypes
    <3>5. p.at \in Nat /\ p.id \in Nat
      <4>1. p \in Packs
        BY <1>2 DEF ListTypes
      <4>2. Ids \subseteq Nat /\ 1..LastSecond \subseteq Nat
        BY ReadersAssumption
      <4> QED
        BY <4>1, <4>2 DEF Packs
    <3> QED
      BY <3>2, <3>3, <3>4, <3>5 DEF W!Newer
  <2>3. \A p \in walk'.seen : p = walk'.cursor \/ W!Newer(p, walk'.cursor)
    BY <1>3, <1>7, <1>13, <2>2
  <2>4. walk'.cursor.id # 0 /\ walk'.at = "walking"
    BY <1>6, <1>7, <1>13, <2>1
  <2>5. ASSUME NEW p \in list, p \notin page PROVE p \in W!After(walk.cursor)'
    BY <1>1, <1>2, <1>3, <1>7, <1>13, <2>5 DEF W!After, W!Newer
  <2>6. walk'.had \subseteq walk'.seen \cup W!After(walk.cursor)'
    BY <1>7, <1>11, <2>5
  <2> QED
    BY <1>9, <1>10, <2>3, <2>4, <2>6 DEF ListInv, W!Newer
<1> QED
  BY <1>12, <1>13

LEMMA NextListInv == ASSUME ListInv, [W!Next]_readersVars PROVE ListInv'
<1>0. 1..LastSecond \subseteq Nat /\ now \in 1..LastSecond
  BY ReadersAssumption DEF ListInv, ListTypes
<1>1. CASE UNCHANGED <<now, packs, walk>>
  BY <1>1 DEF ListInv, ListTypes, W!After, W!Newer, W!Newest
<1>2. CASE W!Tick
  <2>1. now' \in 1..LastSecond /\ UNCHANGED <<packs, walk>>
    BY <1>2, ReadersAssumption DEF W!Tick, W!Listing, ListInv, ListTypes
  <2> QED
    BY <2>1 DEF ListInv, ListTypes, W!After, W!Newer, W!Newest
<1>3. CASE W!SavePack
  <2>1. PICK i \in Ids : /\ \A p \in packs : p.id # i
                         /\ packs' = packs \cup {[id |-> i, at |-> now]}
    BY <1>3 DEF W!SavePack
  <2>2. UNCHANGED <<now, walk>>
    BY <1>3 DEF W!SavePack
  <2>3. [id |-> i, at |-> now] \in Packs
    BY <1>0 DEF Packs
  <2>4. ListTypes'
    BY <2>1, <2>2, <2>3 DEF ListInv, ListTypes
  <2>5. W!After(walk.cursor) \subseteq W!After(walk.cursor)'
    BY <2>1, <2>2 DEF W!After, W!Newer, W!Newest
  <2> QED
    BY <2>2, <2>4, <2>5 DEF ListInv, W!Newer, W!Newest
<1>4. CASE W!DeletePack
  <2>1. PICK p \in packs : packs' = packs \ {p} /\ walk' = [walk EXCEPT !.had = @ \ {p}]
    BY <1>4 DEF W!DeletePack
  <2>2. UNCHANGED now
    BY <1>4 DEF W!DeletePack
  <2>3. /\ walk'.at = walk.at /\ walk'.cursor = walk.cursor /\ walk'.seen = walk.seen
        /\ walk'.again = walk.again /\ walk'.had = walk.had \ {p}
    BY <2>1 DEF ListInv, ListTypes
  <2>4. ListTypes'
    BY <2>1, <2>2 DEF ListInv, ListTypes
  <2>5. W!After(walk.cursor) \ {p} \subseteq W!After(walk.cursor)'
    BY <2>1, <2>3 DEF W!After, W!Newer, W!Newest
  <2> QED
    BY <2>3, <2>4, <2>5 DEF ListInv, W!Newer, W!Newest
<1>5. CASE W!NextPage
  BY <1>5, NextPageInv
<1>6. W!Tick \/ W!SavePack \/ W!DeletePack \/ W!NextPage \/ UNCHANGED <<now, packs, walk>>
  <2>1. W!RunEvent \/ W!RunEnds \/ W!Ask \/ W!Serve => UNCHANGED <<now, packs, walk>>
    BY Zenon DEF W!RunEvent, W!RunEnds, W!Ask, W!Serve, W!Listing
  <2>2. W!Take \/ W!PollLost \/ W!Shown => UNCHANGED <<now, packs, walk>>
    BY Zenon DEF W!Take, W!PollLost, W!Shown, W!Listing
  <2>3. W!AppendLine \/ W!OpenFollow \/ W!Watch => UNCHANGED <<now, packs, walk>>
    BY Zenon DEF W!AppendLine, W!OpenFollow, W!Watch, W!Listing
  <2>4. ASSUME NEW r \in Reads, W!Changed(r) \/ W!Compare(r) \/ W!OpenRead(r) \/ W!ReadDone(r)
        PROVE  UNCHANGED <<now, packs, walk>>
    BY <2>4, Zenon DEF W!Changed, W!Compare, W!OpenRead, W!ReadDone, W!Reading, W!Listing
  <2>5. ASSUME NEW r \in Reads, W!ReadFails(r) PROVE UNCHANGED <<now, packs, walk>>
    BY <2>5, Zenon DEF W!ReadFails, W!Listing
  <2> QED
    BY <2>1, <2>2, <2>3, <2>4, <2>5 DEF W!Next, readersVars
<1> QED
  BY <1>1, <1>2, <1>3, <1>4, <1>5, <1>6

LEMMA InitListInv == ASSUME NEW k, W!Init(k) PROVE ListInv
<1>1. now \in 1..LastSecond /\ 1 \in 1..LastSecond
  BY ReadersAssumption DEF W!Init, W!Started
<1>2. packs \in SUBSET Packs /\ \A p, q \in packs : p.id = q.id => p = q
  <2>1. CASE packs = {}
    BY <2>1
  <2>2. CASE k = "pages"
    <3>1. PICK S \in SUBSET Ids : packs = {[id |-> i, at |-> 1] : i \in S}
      BY <2>2 DEF W!Init, W!Started
    <3>2. \A p \in packs : p.id \in Ids /\ p = [id |-> p.id, at |-> 1]
      BY <3>1
    <3>3. \A i \in Ids : [id |-> i, at |-> 1] \in Packs
      BY <1>1 DEF Packs
    <3> QED
      BY <3>1, <3>2, <3>3
  <2> QED
    BY <2>1, <2>2 DEF W!Init
<1>3. /\ walk.at = IF k = "pages" THEN "idle" ELSE "done"
      /\ walk.cursor = W!Newest /\ walk.seen = {} /\ walk.had = {} /\ walk.again = FALSE
  BY DEF W!Init
<1>4. W!Newest \in [at : Nat, id : Nat]
  BY ReadersAssumption DEF W!Newest
<1>5. walk \in [at : {"idle", "walking", "done"}, cursor : [at : Nat, id : Nat],
                seen : SUBSET Packs, again : BOOLEAN, had : SUBSET Packs]
  <2>1. walk = [at |-> IF k = "pages" THEN "idle" ELSE "done", cursor |-> W!Newest,
                seen |-> {}, again |-> FALSE, had |-> {}]
    BY DEF W!Init
  <2> QED
    BY <1>4, <2>1
<1> QED
  BY <1>1, <1>2, <1>3, <1>5 DEF ListInv, ListTypes

-----------------------------------------------------------------------------
(* Readers: logs --follow.                                                  *)

ReadStates == [at : {"idle", "stat", "open", "read"}, size : Nat, from : Nat]
Followers == [at : {"opens", "watches", "watching", "off"}, from : Nat, pos : Nat,
              printed : SUBSET Nat, heard : Nat, news : BOOLEAN, failed : BOOLEAN,
              reads : [Reads -> ReadStates]]

\* Every line since f opened, up to n, is printed.
PrintedTo(f, n) == (f.from + 1)..n \subseteq f.printed
Under(x) == x.at \in {"stat", "open", "read"}
HeardOut(f, l) == f.at = "watching" /\ f.heard = l /\ ~f.news /\ ~f.failed

\* A read prints from a position up to which all is printed, and so sets one; what was
\* heard of is printed or in the hands of a read that knows the size of the file.
FollowOK(f, l) ==
    /\ l \in Nat /\ f \in Followers
    /\ f.at # "watching" => f.heard = 0 /\ ~f.news /\ \A r \in Reads : ~Under(f.reads[r])
    /\ f.pos <= l /\ PrintedTo(f, f.pos)
    /\ \A r \in Reads : /\ Under(f.reads[r]) => f.reads[r].size <= l
                        /\ f.reads[r].at = "read" => PrintedTo(f, f.reads[r].from)
    /\ HeardOut(f, l) => \/ PrintedTo(f, l)
                         \/ \E r \in Reads : Under(f.reads[r]) /\ f.reads[r].size = l

FollowInv == FollowOK(follow, log)

LEMMA InitFollowInv == ASSUME NEW k, W!Init(k) PROVE FollowInv
<1>1. /\ log \in Nat /\ follow.from = 0 /\ follow.pos = 0 /\ follow.heard = 0 /\ follow.news = FALSE
      /\ follow.at \in {"opens", "off"} /\ \A r \in Reads : follow.reads[r] = W!Idle
  BY ReadersAssumption DEF W!Init
<1>2. follow \in Followers
  BY DEF W!Init, W!Idle, Followers, ReadStates
<1>3. (0 + 1)..0 = {}
  OBVIOUS
<1> QED
  BY <1>1, <1>2, <1>3 DEF FollowInv, FollowOK, PrintedTo, Under, HeardOut, W!Idle

\* The parts of a follower after a step of its read r.
LEMMA AfterRead ==
    ASSUME NEW f \in Followers, NEW g, NEW r \in Reads, NEW x \in ReadStates, g \in Followers,
           NEW h, h = [g EXCEPT !.reads[r] = x], g.reads = f.reads
    PROVE  /\ h \in Followers /\ h.at = g.at /\ h.from = g.from /\ h.pos = g.pos
           /\ h.printed = g.printed /\ h.heard = g.heard /\ h.news = g.news /\ h.failed = g.failed
           /\ h.reads[r] = x /\ \A q \in Reads : q # r => h.reads[q] = f.reads[q]
BY DEF Followers

LEMMA ReadInv ==
    ASSUME FollowInv, NEW r \in Reads,
           W!Changed(r) \/ W!Compare(r) \/ W!OpenRead(r) \/ W!ReadDone(r) \/ W!ReadFails(r)
    PROVE  FollowInv'
<1> DEFINE old == follow.reads[r]
<1>1. /\ log \in Nat /\ follow \in Followers /\ old \in ReadStates
      /\ follow.pos <= log /\ PrintedTo(follow, follow.pos)
      /\ follow.at # "watching" => follow.heard = 0 /\ ~follow.news /\ \A q \in Reads : ~Under(follow.reads[q])
      /\ \A q \in Reads : /\ Under(follow.reads[q]) => follow.reads[q].size <= log
                          /\ follow.reads[q].at = "read" => PrintedTo(follow, follow.reads[q].from)
      /\ HeardOut(follow, log) => \/ PrintedTo(follow, log)
                                  \/ \E q \in Reads : Under(follow.reads[q]) /\ follow.reads[q].size = log
  BY DEF FollowInv, FollowOK, Followers
<1>2. CASE W!Changed(r)
  <2> DEFINE g == [follow EXCEPT !.news = FALSE]
             x == [W!Idle EXCEPT !.at = "stat", !.size = log]
  <2>1. follow' = [g EXCEPT !.reads[r] = x] /\ log' = log /\ follow.news /\ old.at = "idle"
    BY <1>2 DEF W!Changed, W!ReadGoes, W!Reading, W!Read
  <2>2. g \in Followers /\ g.reads = follow.reads /\ x \in ReadStates /\ x.at = "stat" /\ x.size = log
        /\ g.at = follow.at /\ g.from = follow.from /\ g.pos = follow.pos
        /\ g.printed = follow.printed /\ g.heard = follow.heard /\ g.failed = follow.failed
    BY <1>1 DEF Followers, ReadStates, W!Idle
  <2> HIDE DEF g, x
  <2>3. /\ follow' \in Followers /\ follow'.at = follow.at /\ follow'.from = follow.from
        /\ follow'.pos = follow.pos /\ follow'.printed = follow.printed
        /\ follow'.reads[r] = x /\ \A q \in Reads : q # r => follow'.reads[q] = follow.reads[q]
    BY <1>1, <2>1, <2>2, AfterRead
  <2> QED
    BY <1>1, <2>1, <2>2, <2>3 DEF FollowInv, FollowOK, PrintedTo, Under, HeardOut
<1>3. CASE W!Compare(r)
  <2> DEFINE g == IF old.size < follow.pos THEN [follow EXCEPT !.pos = 0] ELSE follow
             x == IF old.size = g.pos THEN W!Idle ELSE [old EXCEPT !.at = "open"]
  <2>1. follow' = [g EXCEPT !.reads[r] = x] /\ log' = log /\ old.at = "stat"
    BY <1>3 DEF W!Compare, W!ReadGoes, W!Reading, W!Read
  <2>2. g \in Followers /\ g.reads = follow.reads /\ x \in ReadStates
        /\ g.at = follow.at /\ g.from = follow.from
        /\ g.pos = (IF old.size < follow.pos THEN 0 ELSE follow.pos) /\ g.news = follow.news
        /\ g.printed = follow.printed /\ g.heard = follow.heard /\ g.failed = follow.failed
    BY <1>1 DEF Followers, ReadStates, W!Idle
  <2>3. (old.size = g.pos /\ x.at = "idle") \/ (x.at = "open" /\ x.size = old.size)
    BY <1>1 DEF ReadStates, W!Idle
  <2> HIDE DEF g, x
  <2>4. /\ follow' \in Followers /\ follow'.at = follow.at /\ follow'.from = follow.from
        /\ follow'.pos = g.pos /\ follow'.printed = follow.printed
        /\ follow'.heard = follow.heard /\ follow'.news = follow.news /\ follow'.failed = follow.failed
        /\ follow'.reads[r] = x /\ \A q \in Reads : q # r => follow'.reads[q] = follow.reads[q]
    BY <1>1, <2>1, <2>2, AfterRead
  <2>5. follow'.pos \in Nat /\ follow'.pos <= log /\ PrintedTo(follow', follow'.pos)
    <3>1. follow.from \in Nat /\ follow.pos \in Nat
      BY <1>1 DEF Followers
    <3>2. (follow.from + 1)..0 = {}
      BY <3>1
    <3> QED
      BY <1>1, <2>2, <2>4, <3>1, <3>2 DEF PrintedTo
  <2>6. HeardOut(follow', log) /\ old.size = log /\ x.at = "idle" => PrintedTo(follow', log)
    BY <1>1, <2>2, <2>3, <2>4, <2>5
  <2> QED
    BY <1>1, <2>1, <2>3, <2>4, <2>5, <2>6 DEF FollowInv, FollowOK, PrintedTo, Under, HeardOut
<1>4. CASE W!OpenRead(r)
  <2> DEFINE x == IF old.size < follow.pos THEN W!Idle
                  ELSE [old EXCEPT !.at = "read", !.from = follow.pos]
  <2>1. follow' = [follow EXCEPT !.reads[r] = x] /\ log' = log /\ old.at = "open"
    BY <1>4 DEF W!OpenRead, W!ReadGoes, W!Reading, W!Read
  <2>2. follow.pos \in Nat /\ x \in ReadStates
    BY <1>1 DEF Followers, ReadStates, W!Idle
  <2>3. (old.size < follow.pos /\ x.at = "idle")
        \/ (x.at = "read" /\ x.size = old.size /\ x.from = follow.pos)
    BY <1>1 DEF ReadStates, W!Idle
  <2> HIDE DEF x
  <2>4. /\ follow' \in Followers /\ follow'.at = follow.at /\ follow'.from = follow.from
        /\ follow'.pos = follow.pos /\ follow'.printed = follow.printed
        /\ follow'.heard = follow.heard /\ follow'.news = follow.news /\ follow'.failed = follow.failed
        /\ follow'.reads[r] = x /\ \A q \in Reads : q # r => follow'.reads[q] = follow.reads[q]
    BY <1>1, <2>1, <2>2, AfterRead
  <2>5. old.size = log => x.at # "idle"
    BY <1>1, <2>2, <2>3
  <2> QED
    BY <1>1, <2>1, <2>3, <2>4, <2>5 DEF FollowInv, FollowOK, PrintedTo, Under, HeardOut
<1>5. CASE W!ReadDone(r)
  <2> DEFINE failed == follow.failed /\ old.size # log
             lines == follow.printed \cup (old.from + 1)..old.size
             g == [follow EXCEPT !.pos = old.size, !.printed = lines, !.failed = failed]
  <2>1. follow' = [g EXCEPT !.reads[r] = W!Idle] /\ log' = log /\ old.at = "read"
    BY <1>5 DEF W!ReadDone, W!ReadGoes, W!Reading, W!Read
  <2>2. /\ old.size \in Nat /\ old.from \in Nat /\ lines \in SUBSET Nat /\ W!Idle \in ReadStates
        /\ follow.from \in Nat
    BY <1>1 DEF Followers, ReadStates, W!Idle
  <2>3. failed \in BOOLEAN /\ (~failed => ~follow.failed \/ old.size = log)
    BY Zenon
  <2>4. follow.printed \subseteq lines /\ (old.from + 1)..old.size \subseteq lines
    OBVIOUS
  <2> HIDE DEF failed, lines
  <2>5. g \in Followers /\ g.reads = follow.reads
        /\ g.at = follow.at /\ g.from = follow.from /\ g.pos = old.size /\ g.news = follow.news
        /\ g.printed = lines /\ g.heard = follow.heard /\ g.failed = failed
    BY <1>1, <2>2, <2>3 DEF Followers
  <2> HIDE DEF g
  <2>6. /\ follow' \in Followers /\ follow'.at = follow.at /\ follow'.from = follow.from
        /\ follow'.pos = old.size /\ follow'.printed = lines
        /\ follow'.heard = follow.heard /\ follow'.news = follow.news /\ follow'.failed = failed
        /\ follow'.reads[r] = W!Idle /\ \A q \in Reads : q # r => follow'.reads[q] = follow.reads[q]
    BY <1>1, <2>1, <2>2, <2>5, AfterRead
  <2>7. PrintedTo(follow', old.size)
    <3>1. (follow.from + 1)..old.from \subseteq lines
      BY <1>1, <2>1, <2>4 DEF PrintedTo
    <3>2. (follow.from + 1)..old.size \subseteq ((follow.from + 1)..old.from) \cup ((old.from + 1)..old.size)
      BY <2>2
    <3> QED
      BY <2>4, <2>6, <3>1, <3>2 DEF PrintedTo
  <2>8. \A n : PrintedTo(follow, n) => PrintedTo(follow', n)
    BY <2>4, <2>6 DEF PrintedTo
  <2>9. Under(old) /\ ~Under(W!Idle) /\ W!Idle.at = "idle"
    BY <2>1 DEF Under, W!Idle
  <2>10. \A q \in Reads : /\ Under(follow'.reads[q]) => follow'.reads[q].size <= log
                          /\ follow'.reads[q].at = "read" => PrintedTo(follow', follow'.reads[q].from)
    BY <1>1, <2>6, <2>8, <2>9
  <2>11. HeardOut(follow', log) => \/ PrintedTo(follow', log)
                                   \/ \E q \in Reads : Under(follow'.reads[q]) /\ follow'.reads[q].size = log
    <3> SUFFICES ASSUME HeardOut(follow', log), old.size # log
                 PROVE  \/ PrintedTo(follow', log)
                        \/ \E q \in Reads : Under(follow'.reads[q]) /\ follow'.reads[q].size = log
      BY <2>7
    <3>1. HeardOut(follow, log)
      BY <2>3, <2>6 DEF HeardOut
    <3> QED
      BY <1>1, <2>6, <2>8, <3>1
  <2> QED
    BY <1>1, <2>1, <2>6, <2>7, <2>9, <2>10, <2>11 DEF FollowInv, FollowOK
<1>6. CASE W!ReadFails(r)
  <2> DEFINE g == [follow EXCEPT !.failed = TRUE]
  <2>1. follow' = [g EXCEPT !.reads[r] = W!Idle] /\ log' = log /\ old.at # "idle"
    BY <1>6 DEF W!ReadFails, W!ReadGoes, W!Read
  <2>2. g \in Followers /\ g.reads = follow.reads /\ W!Idle \in ReadStates /\ W!Idle.at = "idle"
        /\ g.at = follow.at /\ g.from = follow.from /\ g.pos = follow.pos /\ g.news = follow.news
        /\ g.printed = follow.printed /\ g.heard = follow.heard /\ g.failed = TRUE
    BY <1>1 DEF Followers, ReadStates, W!Idle
  <2> HIDE DEF g
  <2>3. /\ follow' \in Followers /\ follow'.at = follow.at /\ follow'.from = follow.from
        /\ follow'.pos = follow.pos /\ follow'.printed = follow.printed
        /\ follow'.heard = follow.heard /\ follow'.news = follow.news /\ follow'.failed = TRUE
        /\ follow'.reads[r] = W!Idle /\ \A q \in Reads : q # r => follow'.reads[q] = follow.reads[q]
    BY <1>1, <2>1, <2>2, AfterRead
  <2> QED
    BY <1>1, <2>1, <2>2, <2>3 DEF FollowInv, FollowOK, PrintedTo, Under, HeardOut
<1> QED
  BY <1>2, <1>3, <1>4, <1>5, <1>6

LEMMA NextFollowInv == ASSUME FollowInv, [W!Next]_readersVars PROVE FollowInv'
<1>1. CASE UNCHANGED <<log, follow>>
  BY <1>1 DEF FollowInv
<1>2. log \in Nat /\ follow \in Followers /\ follow.pos \in Nat /\ follow.pos <= log
  BY DEF FollowInv, FollowOK, Followers
<1>3. CASE W!AppendLine
  <2>1. /\ log' = log + 1
        /\ follow' = IF follow.at = "watching" THEN [follow EXCEPT !.news = TRUE, !.heard = log + 1]
                     ELSE follow
    BY <1>3 DEF W!AppendLine
  <2>2. /\ follow' \in Followers /\ follow'.at = follow.at /\ follow'.from = follow.from
        /\ follow'.pos = follow.pos /\ follow'.printed = follow.printed /\ follow'.reads = follow.reads
        /\ follow.at = "watching" => follow'.news = TRUE
        /\ follow.at # "watching" => follow' = follow
    <3>1. CASE follow.at = "watching"
      <4>1. follow' = [follow EXCEPT !.news = TRUE, !.heard = log + 1] /\ log + 1 \in Nat
        BY <1>2, <2>1, <3>1
      <4> QED
        BY <1>2, <3>1, <4>1 DEF Followers
    <3>2. CASE follow.at # "watching"
      BY <1>2, <2>1, <3>2
    <3> QED
      BY <3>1, <3>2
  <2>3. \A r \in Reads : follow.reads[r].size \in Nat
    BY <1>2 DEF Followers, ReadStates
  <2> QED
    BY <1>2, <2>1, <2>2, <2>3 DEF FollowInv, FollowOK, PrintedTo, HeardOut
<1>4. CASE W!OpenFollow
  <2>1. /\ follow' = [follow EXCEPT !.at = "watches", !.from = log, !.pos = log]
        /\ follow.at = "opens" /\ log' = log
    BY <1>4 DEF W!OpenFollow
  <2>2. /\ follow' \in Followers /\ follow'.at = "watches" /\ follow'.from = log /\ follow'.pos = log
        /\ follow'.heard = follow.heard /\ follow'.news = follow.news /\ follow'.reads = follow.reads
    BY <1>2, <2>1 DEF Followers
  <2>3. (log + 1)..log = {}
    BY <1>2
  <2> QED
    BY <1>2, <2>1, <2>2, <2>3 DEF FollowInv, FollowOK, PrintedTo, HeardOut, Under
<1>5. CASE W!Watch
  <2>1. follow' = [follow EXCEPT !.at = "watching"] /\ follow.at = "watches" /\ log' = log
    BY <1>5 DEF W!Watch
  <2>2. /\ follow' \in Followers /\ follow'.at = "watching" /\ follow'.from = follow.from
        /\ follow'.pos = follow.pos /\ follow'.heard = follow.heard /\ follow'.printed = follow.printed
        /\ follow'.reads = follow.reads /\ follow.heard = 0 /\ follow.from \in Nat
    BY <1>2, <2>1 DEF Followers, FollowInv, FollowOK
  <2>3. (follow.from + 1)..0 = {}
    BY <2>2
  <2> QED
    BY <1>2, <2>1, <2>2, <2>3 DEF FollowInv, FollowOK, PrintedTo, HeardOut
<1>6. \/ W!AppendLine \/ W!OpenFollow \/ W!Watch \/ UNCHANGED <<log, follow>>
      \/ \E r \in Reads : W!Changed(r) \/ W!Compare(r) \/ W!OpenRead(r) \/ W!ReadDone(r) \/ W!ReadFails(r)
  <2>1. W!RunEvent \/ W!RunEnds \/ W!Ask \/ W!Serve => UNCHANGED <<log, follow>>
    BY Zenon DEF W!RunEvent, W!RunEnds, W!Ask, W!Serve, W!Logging
  <2>2. W!Take \/ W!PollLost \/ W!Shown => UNCHANGED <<log, follow>>
    BY Zenon DEF W!Take, W!PollLost, W!Shown, W!Logging
  <2>3. W!Tick \/ W!SavePack \/ W!DeletePack \/ W!NextPage => UNCHANGED <<log, follow>>
    BY Zenon DEF W!Tick, W!SavePack, W!DeletePack, W!NextPage, W!Logging
  <2> QED
    BY <2>1, <2>2, <2>3 DEF W!Next, readersVars
<1> QED
  BY <1>1, <1>3, <1>4, <1>5, <1>6, ReadInv

-----------------------------------------------------------------------------
(* What a session is told of the features.                                  *)

FeatureFile == [text : Texts, upd : Nat] \cup {F!NoFeature}
Disks == [F!Features -> FeatureFile]
FeatureRows == [slug : F!Features, text : Texts, upd : Nat]
Walks == [at : {"idle", "list", "read", "json", "json same md"}, todo : SUBSET F!Features,
          rows : SUBSET FeatureRows, session : BOOLEAN, was : SUBSET FeatureRows,
          steady : SUBSET FeatureRows]

\* A row per slug.
Listed(R) ==
    /\ R \in SUBSET FeatureRows /\ IsFiniteSet(R)
    /\ \A q, r \in R : q.slug = r.slug => q = r

\* While a walk x goes on over disk d, it has the rows of what it has read and no other;
\* what is steady still is there, and has been read or will be.
WalkOK(x, d) ==
    /\ Listed(x.rows)
    /\ x.at = "list" => x.rows = {}
    /\ x.at = "read" => \A r \in x.rows : r.slug \notin x.todo
    /\ x.at \in {"json", "json same md"} => x.todo = {}
    /\ x.at \in {"read", "json", "json same md"} =>
          /\ x.rows \subseteq x.was /\ F!Rows(d) \subseteq x.was
          /\ x.steady \subseteq F!Rows(d)
          /\ \A r \in x.steady : r.slug \in x.todo \/ r \in x.rows

ToldOK == F!ToldWasThere /\ (told # F!Nothing => Listed(told.rows) /\ told.rows # {})

WalksInv ==
    /\ clock \in Nat /\ disk \in Disks /\ task \in [Tasks -> Walks]
    /\ \A t \in Tasks : WalkOK(task[t], disk)
    /\ ToldOK

LEMMA RowsAre ==
    ASSUME NEW d \in Disks
    PROVE  /\ F!Rows(d) \in SUBSET FeatureRows
           /\ \A r \in F!Rows(d) : r.slug \in F!Features /\ d[r.slug] # F!NoFeature /\ r = F!Row(r.slug, d)
           /\ \A f \in F!Features : d[f] # F!NoFeature => F!Row(f, d) \in F!Rows(d)
<1>1. \A f \in F!Features : d[f] # F!NoFeature => F!Row(f, d) \in FeatureRows /\ F!Row(f, d).slug = f
  BY DEF F!Row, Disks, FeatureFile, FeatureRows
<1>2. \A r \in F!Rows(d) : \E f \in F!Features : d[f] # F!NoFeature /\ r = F!Row(f, d)
  BY DEF F!Rows, F!Present
<1>3. \A f \in F!Features : d[f] # F!NoFeature => F!Row(f, d) \in F!Rows(d)
  BY DEF F!Rows, F!Present
<1> QED
  BY <1>1, <1>2, <1>3

LEMMA IdleWalks == F!Idle \in Walks /\ F!Generating \in Walks
                   /\ \A d : WalkOK(F!Idle, d) /\ WalkOK(F!Generating, d)
BY FS_EmptySet DEF F!Idle, F!Generating, Walks, WalkOK, Listed

LEMMA NoticedAre ==
    ASSUME WalksInv, NEW d \in Disks
    PROVE  /\ F!Noticed(d) \in [Tasks -> Walks]
           /\ \A t \in Tasks : WalkOK(F!Noticed(d)[t], d)
<1>1. ASSUME NEW t \in Tasks
      PROVE  F!Noticed(d)[t] \in Walks /\ WalkOK(F!Noticed(d)[t], d)
  <2> DEFINE x == task[t]
             y == [x EXCEPT !.was = @ \cup F!Rows(d), !.steady = {r \in @ : r \in F!Rows(d)}]
  <2>1. x \in Walks /\ WalkOK(x, disk)
    BY DEF WalksInv
  <2>2. F!Noticed(d)[t] = IF x = F!Idle THEN F!Idle ELSE y
    BY DEF F!Noticed
  <2>3. /\ y \in Walks /\ y.at = x.at /\ y.todo = x.todo /\ y.rows = x.rows
        /\ y.was = x.was \cup F!Rows(d) /\ y.steady = {r \in x.steady : r \in F!Rows(d)}
    BY <2>1, RowsAre DEF Walks
  <2>4. WalkOK(y, d)
    BY <2>1, <2>3 DEF WalkOK
  <2> QED
    BY <2>2, <2>3, <2>4, IdleWalks
<1>2. F!Noticed(d) = [t \in Tasks |-> F!Noticed(d)[t]]
  BY DEF F!Noticed
<1> QED
  BY <1>1, <1>2

LEMMA InitWalksInv == ASSUME NEW on \in BOOLEAN, F!Init(on) PROVE WalksInv
<1>1. clock \in Nat
  BY FeaturesAssumption DEF F!Init
<1>2. disk \in Disks
  BY FeaturesAssumption DEF F!Init, F!Features, Disks, FeatureFile
<1>3. task \in [Tasks -> Walks] /\ \A t \in Tasks : WalkOK(task[t], disk)
  BY IdleWalks DEF F!Init
<1> QED
  BY <1>1, <1>2, <1>3 DEF F!Init, F!Nothing, F!ToldWasThere, ToldOK, WalksInv

\* A step that leaves the disk alone and makes the walk of t go on to y.
LEMMA WalkGoesOn ==
    ASSUME WalksInv, NEW t \in Tasks, NEW y \in Walks, WalkOK(y, disk),
           disk' = disk, clock' \in Nat, task' = [task EXCEPT ![t] = y], ToldOK'
    PROVE  WalksInv'
<1>1. task' \in [Tasks -> Walks] /\ \A s \in Tasks : task'[s] = IF s = t THEN y ELSE task[s]
  BY DEF WalksInv
<1>2. \A s \in Tasks : WalkOK(task'[s], disk')
  BY <1>1, Zenon DEF WalksInv
<1> QED
  BY <1>1, <1>2 DEF WalksInv

LEMMA NothingIsThere == told' = F!Nothing => ToldOK'
BY DEF F!Nothing, F!ToldWasThere, ToldOK

LEMMA NextWalksInv == ASSUME WalksInv, [F!Next]_featuresVars PROVE WalksInv'
<1>0. clock \in Nat /\ clock + 1 \in Nat /\ disk \in Disks /\ task \in [Tasks -> Walks]
  BY DEF WalksInv
<1>1. CASE UNCHANGED featuresVars
  BY <1>1 DEF featuresVars, WalksInv, F!ToldWasThere, ToldOK
<1>2. ASSUME NEW f \in F!Features, NEW x \in FeatureFile, F!Put(f, x)
      PROVE  disk' \in Disks /\ clock' \in Nat
  BY <1>0, <1>2 DEF F!Put, Disks
<1>3. ASSUME NEW t \in Tasks, NEW f \in F!Features,
             F!Add(t, f) \/ F!Import(t, f) \/ F!Edit(t, f) \/ F!Upload(t, f) \/ F!Remove(t, f)
      PROVE  WalksInv'
  <2>1. \E x \in FeatureFile : F!Put(f, x)
    <3>1. ASSUME NEW texts \in SUBSET Texts, F!Changes(t, f, texts)
          PROVE  \E x \in FeatureFile : F!Put(f, x)
      <4>1. PICK s \in texts : F!Put(f, F!Text(s))
        BY <3>1, Zenon DEF F!Changes
      <4>2. F!Text(s) \in FeatureFile
        BY <1>0, <4>1 DEF F!Text, FeatureFile
      <4> QED
        BY <4>1, <4>2
    <3>2. F!NoFeature \in FeatureFile
      BY DEF FeatureFile
    <3>3. Texts \ {F!Bad} \in SUBSET Texts
          /\ (disk[f] # F!NoFeature => {disk[f].text} \in SUBSET Texts)
      BY <1>0 DEF FeatureFile, Disks
    <3>4. F!Remove(t, f) => F!Put(f, F!NoFeature)
      BY Zenon DEF F!Remove
    <3>5. F!Add(t, f) \/ F!Import(t, f) \/ F!Edit(t, f) => F!Changes(t, f, Texts \ {F!Bad})
      BY Zenon DEF F!Add, F!Import, F!Edit
    <3>6. F!Upload(t, f) => disk[f] # F!NoFeature /\ F!Changes(t, f, {disk[f].text})
      BY Zenon DEF F!Upload
    <3> QED
      BY <1>3, <3>1, <3>2, <3>3, <3>4, <3>5, <3>6
  <2>2. disk' \in Disks /\ clock' \in Nat
    BY <1>2, <2>1
  <2>3. task' = [F!Noticed(disk') EXCEPT ![t] = F!Generating] /\ told' = F!Nothing
    BY <1>3, Zenon DEF F!Add, F!Import, F!Edit, F!Upload, F!Remove, F!Changes, F!Starts
  <2>4. /\ task' \in [Tasks -> Walks]
        /\ \A s \in Tasks : task'[s] = IF s = t THEN F!Generating ELSE F!Noticed(disk')[s]
    BY <2>2, <2>3, NoticedAre, IdleWalks
  <2>5. \A s \in Tasks : WalkOK(task'[s], disk')
    BY <2>2, <2>4, NoticedAre, IdleWalks
  <2> QED
    BY <2>2, <2>3, <2>4, <2>5, NothingIsThere DEF WalksInv
<1>4. ASSUME NEW f \in F!Features, F!HandEdit(f) PROVE WalksInv'
  <2>1. PICK s \in Texts : F!Put(f, F!Text(s))
    BY <1>4, Zenon DEF F!HandEdit
  <2>2. F!Text(s) \in FeatureFile
    BY <1>0, <2>1 DEF F!Text, FeatureFile
  <2>3. disk' \in Disks /\ clock' \in Nat
    BY <1>2, <2>1, <2>2
  <2>4. task' = F!Noticed(disk') /\ told' = F!Nothing
    BY <1>4, Zenon DEF F!HandEdit
  <2> QED
    BY <2>3, <2>4, NoticedAre, NothingIsThere DEF WalksInv
<1>5. ASSUME NEW t \in Tasks, F!Reindex(t) \/ F!Session(t) PROVE WalksInv'
  <2> DEFINE y == [F!Generating EXCEPT !.session = TRUE]
  <2>1. y \in Walks /\ WalkOK(y, disk)
    BY FS_EmptySet DEF F!Generating, F!Idle, Walks, WalkOK, Listed
  <2>2. (task' = [task EXCEPT ![t] = F!Generating] \/ task' = [task EXCEPT ![t] = y])
        /\ told' = F!Nothing /\ UNCHANGED <<disk, clock>>
    BY <1>5, Zenon DEF F!Reindex, F!Session, F!Same
  <2> HIDE DEF y
  <2> QED
    BY <1>0, <2>1, <2>2, IdleWalks, WalkGoesOn, NothingIsThere
<1>6. ASSUME NEW t \in Tasks, F!Crash(t) PROVE WalksInv'
  <2>1. task' = [task EXCEPT ![t] = F!Idle] /\ told' = F!Nothing /\ disk' = disk /\ clock' \in Nat
    BY <1>0, <1>6 DEF F!Crash
  <2> QED
    BY <2>1, IdleWalks, WalkGoesOn, NothingIsThere
<1>7. ASSUME NEW t \in Tasks, F!List(t) PROVE WalksInv'
  <2> DEFINE y == [task[t] EXCEPT !.at = "read", !.todo = F!Present(disk),
                                  !.was = F!Rows(disk), !.steady = F!Rows(disk)]
  <2>1. task[t] \in Walks /\ task[t].at = "list" /\ task[t].rows = {} /\ Listed(task[t].rows)
    BY <1>7 DEF F!List, WalksInv, WalkOK
  <2>2. task' = [task EXCEPT ![t] = y] /\ told' = F!Nothing /\ UNCHANGED <<disk, clock>>
    BY <1>7 DEF F!List
  <2>3. F!Present(disk) \in SUBSET F!Features /\ F!Rows(disk) \in SUBSET FeatureRows
    BY <1>0, RowsAre DEF F!Present
  <2>4. /\ y \in Walks /\ y.at = "read" /\ y.todo = F!Present(disk) /\ y.rows = {}
        /\ y.was = F!Rows(disk) /\ y.steady = F!Rows(disk)
    BY <2>1, <2>3 DEF Walks
  <2> HIDE DEF y
  <2>5. WalkOK(y, disk)
    BY <1>0, <2>1, <2>4, RowsAre DEF WalkOK, F!Present
  <2> QED
    BY <1>0, <2>2, <2>4, <2>5, WalkGoesOn, NothingIsThere
<1>8. ASSUME NEW t \in Tasks, F!ReadFeature(t) PROVE WalksInv'
  <2> DEFINE x == task[t]
             f == F!Min(x.todo)
             list == IF disk[f] = F!NoFeature THEN x.rows ELSE x.rows \cup {F!Row(f, disk)}
             y == [x EXCEPT !.todo = @ \ {f}, !.rows = list]
  <2>1. x \in Walks /\ x.at = "read" /\ x.todo # {} /\ WalkOK(x, disk) /\ x.todo \in SUBSET Nat
    <3>1. x \in Walks /\ WalkOK(x, disk)
      BY Zenon DEF WalksInv
    <3>2. x.at = "read" /\ x.todo # {}
      BY <1>8, Zenon DEF F!ReadFeature
    <3>3. F!Features \subseteq Nat
      BY FeaturesAssumption DEF F!Features
    <3>4. x.todo \subseteq F!Features
      BY <3>1 DEF Walks
    <3> QED
      BY <3>1, <3>2, <3>3, <3>4
  <2>2. f \in x.todo /\ f \in F!Features
    <3>1. \E m \in x.todo : \A n \in x.todo : m <= n
      BY <2>1, LeastIsThere
    <3>2. f \in x.todo
      BY <3>1, Zenon DEF F!Min
    <3> QED
      BY <2>1, <3>2 DEF Walks
  <2>3. task' = [task EXCEPT ![t] = y] /\ told' = F!Nothing /\ UNCHANGED <<disk, clock>>
    BY <1>8 DEF F!ReadFeature, F!Same
  <2> HIDE DEF f
  <2>4. disk[f] # F!NoFeature => F!Row(f, disk) \in F!Rows(disk) /\ F!Row(f, disk) \in FeatureRows
    BY <1>0, <2>2, RowsAre
  <2>5. x.rows \in SUBSET FeatureRows /\ x.todo \in SUBSET F!Features
    BY <2>1 DEF Walks
  <2>6. list \in SUBSET FeatureRows
    BY <2>4, <2>5
  <2> HIDE DEF list
  <2>7. /\ y \in Walks /\ y.at = "read" /\ y.todo = x.todo \ {f} /\ y.rows = list
        /\ y.was = x.was /\ y.steady = x.steady
    BY <2>1, <2>5, <2>6 DEF Walks
  <2> HIDE DEF y
  <2>8. list \subseteq x.was
    BY <2>1, <2>4 DEF list, WalkOK
  <2>9. ASSUME NEW r \in x.steady PROVE r.slug \in y.todo \/ r \in list
    <3>1. r \in F!Rows(disk) /\ (r.slug \in x.todo \/ r \in x.rows)
      BY <2>1 DEF WalkOK
    <3>2. r.slug = f => disk[f] # F!NoFeature /\ r = F!Row(f, disk)
      BY <1>0, <3>1, RowsAre
    <3> QED
      BY <2>7, <3>1, <3>2 DEF list
  <2>10. Listed(list) /\ \A r \in list : r.slug \notin x.todo \ {f}
    <3>1. Listed(x.rows) /\ \A r \in x.rows : r.slug \notin x.todo
      BY <2>1 DEF WalkOK
    <3>2. IsFiniteSet(list)
      BY <3>1, FS_AddElement DEF list, Listed
    <3>3. F!Row(f, disk).slug = f
      BY DEF F!Row
    <3>4. \A r \in list : r \in x.rows \/ r = F!Row(f, disk)
      BY DEF list
    <3> QED
      BY <2>2, <2>6, <3>1, <3>2, <3>3, <3>4 DEF Listed
  <2>11. WalkOK(y, disk)
    BY <2>1, <2>7, <2>8, <2>9, <2>10 DEF WalkOK
  <2> QED
    BY <1>0, <2>3, <2>7, <2>11, WalkGoesOn, NothingIsThere
<1>9. ASSUME NEW t \in Tasks, F!WriteMd(t) PROVE WalksInv'
  <2> DEFINE x == task[t]
             at == IF md' = md THEN "json same md" ELSE "json"
             y == [x EXCEPT !.at = at]
  <2>1. x \in Walks /\ x.at = "read" /\ x.todo = {} /\ WalkOK(x, disk)
    BY <1>9 DEF F!WriteMd, WalksInv
  <2>2. task' = [task EXCEPT ![t] = y] /\ told' = F!Nothing /\ UNCHANGED <<disk, clock>>
    BY <1>9 DEF F!WriteMd, F!Same
  <2>3. at \in {"json", "json same md"}
    OBVIOUS
  <2> HIDE DEF at
  <2>4. /\ y \in Walks /\ y.at = at /\ y.todo = {} /\ y.rows = x.rows
        /\ y.was = x.was /\ y.steady = x.steady
    BY <2>1, <2>3 DEF Walks
  <2> HIDE DEF y
  <2>5. WalkOK(y, disk)
    BY <2>1, <2>3, <2>4 DEF WalkOK
  <2> QED
    BY <1>0, <2>2, <2>4, <2>5, WalkGoesOn, NothingIsThere
<1>10. ASSUME NEW t \in Tasks, F!WriteJson(t) PROVE WalksInv'
  <2> DEFINE x == task[t]
  <2>1. x \in Walks /\ x.at \in {"json", "json same md"} /\ WalkOK(x, disk)
    BY <1>10 DEF F!WriteJson, WalksInv
  <2>2. task' = [task EXCEPT ![t] = F!Idle] /\ UNCHANGED <<disk, clock>>
    BY <1>10 DEF F!WriteJson, F!Same
  <2>3. \/ told' = F!Nothing
        \/ told' = [rows |-> x.rows, was |-> x.was, steady |-> x.steady] /\ x.rows # {}
    BY <1>10 DEF F!WriteJson, F!Loaded
  <2>4. x.steady \subseteq x.rows /\ x.rows \subseteq x.was /\ Listed(x.rows)
    BY <2>1 DEF WalkOK
  <2> HIDE DEF x
  <2>5. ToldOK'
    BY <2>3, <2>4, NothingIsThere DEF F!ToldWasThere, ToldOK
  <2> QED
    BY <1>0, <2>2, <2>5, IdleWalks, WalkGoesOn
<1> QED
  BY <1>1, <1>3, <1>4, <1>5, <1>6, <1>7, <1>8, <1>9, <1>10 DEF F!Next, F!Generate, featuresVars

LEMMA BytesAre == ASSUME NEW R, Listed(R) PROVE F!Bytes(R) \in Nat
<1> DEFINE Of == [r \in R |-> {r} \X (1..Size[r.text])]
           all == UNION {Of[r] : r \in R}
<1>1. ASSUME NEW r \in R PROVE IsFiniteSet(Of[r])
  <2>1. Size[r.text] \in Nat
    BY FeaturesAssumption DEF Listed, FeatureRows
  <2>2. 1 \in Int /\ Size[r.text] \in Int
    BY <2>1
  <2>3. IsFiniteSet({r}) /\ IsFiniteSet(1..Size[r.text])
    BY <2>2, FS_Singleton, FS_Interval
  <2> QED
    BY <2>3, FS_Product
<1>2. IsFiniteSet({Of[r] : r \in R})
  <2>1. Of \in Surjection(R, {Of[r] : r \in R})
    BY DEF Surjection
  <2> HIDE DEF Of
  <2> QED
    BY <2>1, FS_Surjection DEF Listed
<1>3. F!Bytes(R) = Header + Cardinality(all)
  <2>1. all = UNION {{r} \X (1..Size[r.text]) : r \in R}
    OBVIOUS
  <2> HIDE DEF all
  <2>2. F!Cardinality(all) = Cardinality(all)
    BY CountsAgree
  <2> QED
    BY <2>1, <2>2 DEF F!Bytes
<1> HIDE DEF Of
<1>4. IsFiniteSet(all)
  BY <1>1, <1>2, FS_UNION
<1>5. Cardinality(all) \in Nat
  BY <1>4, FS_CardinalityType
<1> QED
  BY <1>3, <1>5, FeaturesAssumption

LEMMA NoBytes == F!Bytes({}) = Header
<1> DEFINE all == UNION {{r} \X (1..Size[r.text]) : r \in {}}
<1>1. all = {}
  OBVIOUS
<1>2. F!Cardinality(all) = 0
  BY <1>1, FS_EmptySet, CountsAgree
<1>3. F!Bytes({}) = Header + 0
  BY <1>2 DEF F!Bytes
<1> QED
  BY <1>3, FeaturesAssumption

\* The k newest are first in the order of dates and slugs.
LEMMA NewestAre ==
    ASSUME NEW R, Listed(R), R # {}
    PROVE  /\ \A k \in Nat : /\ F!Newest(R, k) \subseteq R
                             /\ \A r \in F!Newest(R, k), q \in R \ F!Newest(R, k) : F!Before(r, q)
           /\ F!Newest(R, 0) = {} /\ F!Newest(R, 1) # {}
           /\ \A k \in Nat \ {0} : F!Newest(R, 1) \subseteq F!Newest(R, k)
<1> DEFINE ahead == [p \in R |-> {q \in R : F!Before(q, p)}]
           before == {s \in R \X R : F!Before(s[1], s[2])}
<1>1. \A p, q, r \in R : /\ ~F!Before(p, p)
                         /\ F!Before(p, q) /\ F!Before(q, r) => F!Before(p, r)
                         /\ p = q \/ F!Before(p, q) \/ F!Before(q, p)
  <2>1. \A r \in R : r.slug \in Nat /\ r.upd \in Nat
    BY FeaturesAssumption DEF Listed, FeatureRows, F!Features
  <2>2. \A p, q \in R : p.slug = q.slug => p = q
    BY DEF Listed
  <2> QED
    BY <2>1, <2>2 DEF F!Before
<1>2. \A p, q \in R : <<p, q>> \in before <=> F!Before(p, q)
  OBVIOUS
<1>3. \A p, q \in R : q \in ahead[p] <=> F!Before(q, p)
  OBVIOUS
<1>4. ASSUME NEW p \in R
      PROVE  ahead[p] \in SUBSET R /\ IsFiniteSet(ahead[p]) /\ Cardinality(ahead[p]) \in Nat
  BY FS_Subset, FS_CardinalityType DEF Listed
<1>5. \A k : F!Newest(R, k) = {p \in R : Cardinality(ahead[p]) < k}
  <2>1. \A p \in R : ahead[p] = {q \in R : F!Before(q, p)}
    OBVIOUS
  <2>2. \A k : F!Newest(R, k) = {p \in R : Cardinality({q \in R : F!Before(q, p)}) < k}
    BY CountsAgree DEF F!Newest
  <2> QED
    BY <2>1, <2>2
<1> HIDE DEF ahead, before
<1>6. ASSUME NEW k \in Nat, NEW r \in F!Newest(R, k), NEW q \in R \ F!Newest(R, k)
      PROVE  F!Before(r, q)
  <2>1. r \in R /\ Cardinality(ahead[r]) < k /\ ~(Cardinality(ahead[q]) < k) /\ r # q
    BY <1>5
  <2>2. CASE F!Before(q, r)
    <3>1. ahead[q] \in SUBSET ahead[r]
      BY <1>1, <1>3, <1>4, <2>1, <2>2
    <3>2. Cardinality(ahead[q]) <= Cardinality(ahead[r])
      BY <1>4, <2>1, <3>1, FS_Subset
    <3> QED
      BY <1>4, <2>1, <3>2
  <2> QED
    BY <1>1, <2>1, <2>2
<1>7. PICK p \in R : \A q \in R : <<q, p>> \notin before
  <2>1. IsFiniteSet(R)
    BY DEF Listed
  <2>2. /\ \A x \in R : <<x, x>> \notin before
        /\ \A x, y, z \in R : <<x, y>> \in before /\ <<y, z>> \in before => <<x, z>> \in before
    BY <1>1, <1>2
  <2>3. \E x \in R : \A y \in R : <<y, x>> \notin before
    BY <2>1, <2>2, FirstIsThere
  <2> QED
    BY <2>3
<1>8. p \in F!Newest(R, 1)
  <2>1. ahead[p] = {}
    BY <1>2, <1>3, <1>4, <1>7
  <2>2. Cardinality(ahead[p]) = 0
    BY <2>1, FS_EmptySet
  <2> QED
    BY <1>5, <2>2
<1>9. F!Newest(R, 0) = {}
  BY <1>4, <1>5
<1>10. \A k \in Nat \ {0} : F!Newest(R, 1) \subseteq F!Newest(R, k)
  BY <1>4, <1>5
<1> QED
  BY <1>5, <1>6, <1>8, <1>9, <1>10

LEMMA GreatestIsThere ==
    ASSUME NEW n \in Nat, NEW S \in SUBSET (0..n), S # {} PROVE \E m \in S : \A k \in S : m >= k
<1> DEFINE T == {x \in 0..n : n - x \in S}
<1>1. T \in SUBSET Nat /\ \A k \in S : n - k \in T
  OBVIOUS
<1>2. PICK x \in T : \A y \in T : x <= y
  BY <1>1, LeastIsThere
<1>3. ASSUME NEW k \in S PROVE n - x >= k
  BY <1>1, <1>2
<1> QED
  BY <1>2, <1>3

LEMMA RecentAre ==
    ASSUME NEW R, Listed(R), R # {}
    PROVE  \E k \in Nat : /\ F!Recent(R) = F!Newest(R, k)
                          /\ k # 0 => F!Bytes(F!Recent(R)) <= F!EntryBudget
                          /\ k = 0 => F!Bytes(F!Newest(R, 1)) > F!EntryBudget
<1> DEFINE size == [k \in Nat |-> F!Bytes(F!Newest(R, k))]
           n == F!Cardinality(R)
           K == {k \in 0..n : \A j \in 1..k : size[j] <= F!EntryBudget}
           m == F!Max(K)
<1>1. n \in Nat /\ n # 0
  BY CountsAgree, FS_CardinalityType, FS_EmptySet DEF Listed
<1>2. F!Recent(R) = F!Newest(R, m)
  <2>1. K = {k \in 0..n : \A j \in 1..k : F!Bytes(F!Newest(R, j)) <= F!EntryBudget}
    <3>1. \A k \in 0..n : \A j \in 1..k : size[j] = F!Bytes(F!Newest(R, j))
      BY <1>1
    <3> HIDE DEF size, n
    <3> QED
      BY <3>1
  <2> HIDE DEF K
  <2> QED
    BY <2>1 DEF F!Recent
<1>3. \A k \in Nat : size[k] = F!Bytes(F!Newest(R, k)) /\ size[k] \in Nat
  <2>1. ASSUME NEW k \in Nat PROVE Listed(F!Newest(R, k))
    <3>1. F!Newest(R, k) \subseteq R
      BY NewestAre
    <3> QED
      BY <3>1, FS_Subset DEF Listed
  <2> QED
    BY <2>1, BytesAre
<1> HIDE DEF size, n
<1>4. K \in SUBSET (0..n) /\ 0 \in K
  BY <1>1
<1>5. m \in K /\ \A k \in K : m >= k
  <2>1. \E x \in K : \A k \in K : x >= k
    BY <1>1, <1>4, GreatestIsThere
  <2> HIDE DEF K
  <2> QED
    BY <2>1 DEF F!Max
<1> HIDE DEF m
<1>6. m \in Nat
  BY <1>1, <1>5
<1>7. ASSUME m # 0 PROVE size[m] <= F!EntryBudget
  BY <1>1, <1>5, <1>6, <1>7
<1>8. ASSUME m = 0 PROVE size[1] > F!EntryBudget
  <2>1. 1 \notin K
    BY <1>5, <1>8
  <2>2. ~(size[1] <= F!EntryBudget)
    BY <1>1, <2>1
  <2>3. F!EntryBudget \in Nat /\ size[1] \in Nat
    BY <1>3, FeaturesAssumption DEF F!EntryBudget, F!Larger
  <2> QED
    BY <2>2, <2>3
<1> QED
  BY <1>2, <1>3, <1>6, <1>7, <1>8

LEMMA WalksInvFits == WalksInv => F!InjectionFits
<1> SUFFICES ASSUME WalksInv, told # F!Nothing PROVE F!InjectionFits
  BY DEF F!InjectionFits
<1> DEFINE R == told.rows
           S == F!Recent(R)
           block == F!Inject(R)
<1>1. Listed(R) /\ R # {}
  BY DEF WalksInv, ToldOK
<1>2. F!Bytes(R) \in Nat
  BY <1>1, BytesAre
<1>3. PICK k \in Nat : /\ S = F!Newest(R, k)
                       /\ k # 0 => F!Bytes(S) <= F!EntryBudget
                       /\ k = 0 => F!Bytes(F!Newest(R, 1)) > F!EntryBudget
  BY <1>1, RecentAre
<1>4. /\ S \subseteq R /\ \A r \in S, q \in R \ S : F!Before(r, q)
      /\ k = 0 => S = {}
      /\ k # 0 => S # {}
  BY <1>1, <1>3, NewestAre
<1>5. F!Bytes(S) \in Nat /\ F!Bytes(S) + Footer <= MaxIndexBytes
  <2>1. Listed(S)
    BY <1>1, <1>4, FS_Subset DEF Listed
  <2>2. F!Bytes(S) \in Nat
    BY <2>1, BytesAre
  <2>3. F!EntryBudget \in Nat /\ F!EntryBudget + Footer <= MaxIndexBytes
    BY FeaturesAssumption DEF F!EntryBudget, F!Larger
  <2>4. k = 0 => F!Bytes(S) = Header
    BY <1>4, NoBytes
  <2> QED
    BY <1>3, <2>2, <2>3, <2>4, FeaturesAssumption
<1>6. CASE F!Bytes(R) <= MaxIndexBytes
  <2>1. block = [shown |-> R, bytes |-> F!Bytes(R)]
    BY <1>6 DEF F!Inject
  <2> QED
    BY <1>1, <1>6, <2>1 DEF F!InjectionFits
<1>7. CASE ~(F!Bytes(R) <= MaxIndexBytes)
  <2>1. block = [shown |-> S, bytes |-> F!Bytes(S) + Footer]
    BY <1>7 DEF F!Inject
  <2>2. block.shown = S /\ block.bytes = F!Bytes(S) + Footer
    BY <2>1
  <2> HIDE DEF block, S, R
  <2>3. block.shown # {} \/ F!Bytes(F!Newest(R, 1)) > F!EntryBudget
    BY <1>3, <1>4, <2>2
  <2> QED
    BY <1>4, <1>5, <2>2, <2>3 DEF F!InjectionFits, block, R
<1> QED
  BY <1>6, <1>7

-----------------------------------------------------------------------------
(* Theorems.  Each part of BackgroundSpec runs alone: a step of another part *)
(* leaves its variables as they are.                                         *)

LEMMA PartsSteps ==
    BackgroundNext \/ UNCHANGED allVars =>
        [Next]_vars /\ [D!Next]_daemonsVars /\ [F!Next]_featuresVars /\ [W!Next]_readersVars
BY DEF BackgroundNext, Only, allVars

\* The machines, the web app and the cloud of the background are those of
\* KillSwitchSync: whatever else runs, their tables change as its actions say.
THEOREM SwitchesRun == BackgroundSpec => Spec
<1>1. BackgroundInit => Init
  BY DEF BackgroundInit
<1>2. [BackgroundNext]_allVars => [Next]_vars
  BY PartsSteps
<1> QED
  BY <1>1, <1>2, PTL DEF BackgroundSpec, Spec

\* The tables, queues, stamps and cursors keep their types.
THEOREM SyncIsTyped == Spec => []TypeOK
<1> QED
  BY InitTypeOK, NextTypeOK, PTL DEF Spec

\* pause.ts, "--no-sync": a switch paused with it never reaches the cloud, nor another
\* developer's machine, whatever is pushed, pulled, paused or resumed and fails.
THEOREM NoSyncPausesStay == BackgroundSpec => []NoSyncStaysLocal
<1>1. TypeOK /\ LocalOnly => NoSyncStaysLocal
  BY DEF LocalOnly, Unsynced, NoSyncStaysLocal
<1> QED
  BY <1>1, SwitchesRun, SyncIsTyped, InitLocalOnly, NextLocalOnly, PTL DEF Spec

\* kill-switch-puller.ts: where the switches come from the web and nothing fails, the
\* cursor (the newest pause a machine has) hides no row of the cloud from it, if a pause
\* is committed in the second it is stamped.
THEOREM CursorHidesNothing ==
    ASSUME PromptCommits PROVE BackgroundSpec => []NothingHidden
<1>1. TypeOK /\ WebInv /\ [Next]_vars => WebInv'
  BY NextWebInv
<1> QED
  BY <1>1, SwitchesRun, SyncIsTyped, InitWebInv, OnTheWebHidesNothing, PTL DEF Spec

\* A daemon, whatever it is, keeps to the order of its shutdown(): what it has stopped
\* stays stopped, what it has waited for does not start again.
THEOREM ShutdownsKeepOrder == BackgroundSpec => []DaemonInv
<1>1. BackgroundInit => DaemonInv
  BY InitDaemonInv DEF BackgroundInit
<1>2. DaemonInv /\ [BackgroundNext]_allVars => DaemonInv'
  BY PartsSteps, NextDaemonInv
<1> QED
  BY <1>1, <1>2, PTL DEF BackgroundSpec

\* index.ts of the bridge, the MCP server and the sync daemon: while the process lives,
\* no tick, sweep or request over HTTP uses a database its shutdown has closed, with
\* any number of requests and of signals that interrupt one another.
THEOREM ClosedDbStaysQuiet == BackgroundSpec => []ClosedDbIsQuiet
  BY ShutdownsKeepOrder, DaemonInvIsQuiet, PTL

\* list-context-packs, logs.ts: with any packs and pages of any size, an agent that follows
\* the cursor to the end misses no pack and sees none twice; with any reads that overlap,
\* logs --follow prints every line it has been told of and no read of which failed.
THEOREM ReadersHold == BackgroundSpec => []ReadersMissNothing
<1>1. BackgroundInit => ListInv /\ FollowInv
  BY InitListInv, InitFollowInv DEF BackgroundInit
<1>2. ListInv /\ FollowInv /\ [BackgroundNext]_allVars => (ListInv /\ FollowInv)'
  BY PartsSteps, NextListInv, NextFollowInv
<1>3. ASSUME ListInv PROVE W!PagesAreWhole
  BY <1>3 DEF ListInv, W!PagesAreWhole
<1>4. ASSUME FollowInv PROVE W!FollowLosesNothing
  BY <1>4 DEF FollowInv, FollowOK, HeardOut, Under, PrintedTo, W!FollowLosesNothing, W!Read
<1>5. ListInv /\ FollowInv => ReadersMissNothing
  BY <1>3, <1>4 DEF ReadersMissNothing, W!ReadersMissNothing
<1> QED
  BY <1>1, <1>2, <1>5, PTL DEF BackgroundSpec

\* features-index-loader.ts: with any features, texts, sizes and generations, whoever
\* edits meanwhile, a session is told of every feature that stayed as it was while the
\* disk was walked and of none that was not there then; and what it is told fits, with
\* the newest first.
THEOREM FeaturesHold == BackgroundSpec => []FeaturesAreTold
<1>1. BackgroundInit => WalksInv
  <2>1. BackgroundInit => F!Init(part = "features") /\ (part = "features") \in BOOLEAN
    BY DEF BackgroundInit
  <2> QED
    BY <2>1, InitWalksInv
<1>2. WalksInv /\ [BackgroundNext]_allVars => WalksInv'
  BY PartsSteps, NextWalksInv
<1>3. WalksInv => FeaturesAreTold
  BY WalksInvFits DEF WalksInv, ToldOK, FeaturesAreTold, F!SessionsAreTold
<1> QED
  BY <1>1, <1>2, <1>3, PTL DEF BackgroundSpec

=============================================================================
