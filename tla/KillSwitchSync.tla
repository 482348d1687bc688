--------------------------- MODULE KillSwitchSync ---------------------------
(***************************************************************************)
(* Kill switches in team mode: the kill_switches table of every developer's *)
(* machine and the one in the cloud.  `contextos pause` and `resume` write  *)
(* the machine's table, the web app writes the cloud's; the sync daemon     *)
(* pushes what `pause` enqueued (dispatch.ts) and pulls what is newer than  *)
(* the newest pause it has (kill-switch-puller.ts).                         *)
(*                                                                          *)
(* A stamp is paused_at in half seconds: SQLite keeps whole seconds (even   *)
(* stamps), Postgres keeps the fraction of a web pause (odd stamps), and    *)
(* the puller floors it.  expires_at never changes after the insert and is  *)
(* left out; KillSwitchGate has it.                                         *)
(***************************************************************************)
EXTENDS Integers, FiniteSets

CONSTANTS
    Machines,
    Switches,    \* ids of the rows that may ever be inserted
    Web, Nobody, \* the origins of a switch paused in the web app, or never
    Origins,     \* who may pause what: s to the machine that pauses it, or Web
    NoSync,      \* the switches a machine pauses with --no-sync
    PromptCommits, \* a web pause is committed in the second it is stamped
    MaxIsDate,   \* MAX(paused_at) is the Date its type claims; it is not, in the code
    MaxSecond,   \* bound: the clock
    MaxFailures  \* bound: failed pushes, selects and upserts, by origin

ASSUME OriginAssumption ==
    /\ Machines \cap {Web, Nobody} = {} /\ Web # Nobody
    /\ Origins \subseteq [Switches -> Machines \cup {Web, Nobody}]
    /\ NoSync \subseteq Switches
ASSUME SyncBoundsAssumption ==
    /\ MaxSecond \in Nat \ {0} /\ MaxFailures \in [Origins -> Nat] /\ PromptCommits \in BOOLEAN
    /\ MaxIsDate \in BOOLEAN

VARIABLES
    origin,    \* origin[s]: where s is paused; chosen once
    second,    \* the clock
    stamp,     \* stamp[s]: paused_at of s where it was paused
    local,     \* local[m][s]: the row of s on machine m
    cloud,     \* cloud[s]: the row of s in Postgres
    jobs,      \* jobs[m]: the switches with a sync_to_cloud row on m
    push,      \* push[m]: the row syncKillSwitches has read
    pull,      \* pull[m]: where tickOnce is
    failures

vars == <<origin, second, stamp, local, cloud, jobs, push, pull, failures>>

Status == {"none", "active", "resumed"}
NoPush == [s |-> "none", status |-> "none"]
NoPull == [pc |-> "idle", since |-> 0, rows |-> [s \in Switches |-> "none"]]

Init ==
    /\ origin \in Origins
    /\ second = 1
    /\ stamp = [s \in Switches |-> 0]
    /\ local = [m \in Machines |-> [s \in Switches |-> "none"]]
    /\ cloud = [s \in Switches |-> "none"]
    /\ jobs = [m \in Machines |-> {}]
    /\ push = [m \in Machines |-> NoPush]
    /\ pull = [m \in Machines |-> NoPull]
    /\ failures = 0

Fail == failures < MaxFailures[origin] /\ failures' = failures + 1

-----------------------------------------------------------------------------
(* The operators.                                                           *)

New(s) == stamp[s] = 0

\* A mutant of Pause: --no-sync is not looked at.
PauseIgnoresNoSync(m, s) ==
    /\ origin[s] = m /\ New(s)
    /\ stamp' = [stamp EXCEPT ![s] = 2 * second]
    /\ local' = [local EXCEPT ![m][s] = "active"]
    /\ jobs' = [jobs EXCEPT ![m] = @ \cup {s}]
    /\ UNCHANGED <<origin, second, cloud, push, pull, failures>>

\* runPauseCommand: insertKillSwitch, then -- not for --no-sync -- the
\* sync_to_cloud row; a failure to enqueue is only reported.
Pause(m, s) ==
    /\ origin[s] = m /\ New(s)
    /\ stamp' = [stamp EXCEPT ![s] = 2 * second]
    /\ local' = [local EXCEPT ![m][s] = "active"]
    /\ \/ /\ jobs' = IF s \in NoSync THEN jobs
                     ELSE [jobs EXCEPT ![m] = @ \cup {s}]
          /\ UNCHANGED failures
       \/ /\ s \notin NoSync /\ Fail
          /\ UNCHANGED jobs
    /\ UNCHANGED <<origin, second, cloud, push, pull>>

\* runResumeCommand with --id, --scope or --all: the active rows of S; no
\* sync_to_cloud row.
Resume(m, S) ==
    /\ S # {} /\ \A s \in S : local[m][s] = "active"
    /\ local' = [local EXCEPT ![m] =
                   [s \in Switches |-> IF s \in S THEN "resumed" ELSE @[s]]]
    /\ UNCHANGED <<origin, second, stamp, cloud, jobs, push, pull, failures>>

\* pauseAction: in team mode createWebDb is the cloud database, and so is the
\* pending_jobs table insertKillSwitchWithSync enqueues to; no worker drains it.
\* Postgres stamps the row when the INSERT starts; others see it once committed.
WebPause(s) ==
    /\ origin[s] = Web /\ New(s)
    /\ stamp' = [stamp EXCEPT ![s] = 2 * second + 1]
    /\ UNCHANGED <<origin, second, local, cloud, jobs, push, pull, failures>>

Uncommitted(s) == origin[s] = Web /\ ~New(s) /\ cloud[s] = "none"

WebCommit(s) ==
    /\ Uncommitted(s)
    /\ cloud' = [cloud EXCEPT ![s] = "active"]
    /\ UNCHANGED <<origin, second, stamp, local, jobs, push, pull, failures>>

\* resumeAction: an UPDATE ... WHERE resumed_at IS NULL.
WebResume(s) ==
    /\ cloud[s] = "active"
    /\ cloud' = [cloud EXCEPT ![s] = "resumed"]
    /\ UNCHANGED <<origin, second, stamp, local, jobs, push, pull, failures>>

-----------------------------------------------------------------------------
(* The push: syncKillSwitches, from an at-least-once job (DurableWrite).    *)

PushRead(m, s) ==
    /\ s \in jobs[m] /\ push[m] = NoPush
    /\ push' = [push EXCEPT ![m] = [s |-> s, status |-> local[m][s]]]
    /\ UNCHANGED <<origin, second, stamp, local, cloud, jobs, pull, failures>>

\* INSERT ... ON CONFLICT (id) DO UPDATE SET resumed_at: the row as it was read.
\* The job is deleted, or -- a lost answer, a crash -- comes back.
PushWrite(m) ==
    LET s == push[m].s IN
    /\ push[m] # NoPush
    /\ cloud' = [cloud EXCEPT ![s] = push[m].status]
    /\ push' = [push EXCEPT ![m] = NoPush]
    /\ \/ jobs' = [jobs EXCEPT ![m] = @ \ {s}] /\ UNCHANGED failures
       \/ Fail /\ UNCHANGED jobs
    /\ UNCHANGED <<origin, second, stamp, local, pull>>

\* A mutant of PushFails: a job that failed is not retried.
PushFailsForGood(m) ==
    /\ push[m] # NoPush /\ Fail
    /\ push' = [push EXCEPT ![m] = NoPush]
    /\ jobs' = [jobs EXCEPT ![m] = @ \ {push[m].s}]
    /\ UNCHANGED <<origin, second, stamp, local, cloud, pull>>

PushFails(m) ==
    /\ push[m] # NoPush /\ Fail
    /\ push' = [push EXCEPT ![m] = NoPush]
    /\ UNCHANGED <<origin, second, stamp, local, cloud, jobs, pull>>

-----------------------------------------------------------------------------
(* The pull: tickOnce.                                                      *)

\* Mutants of Floor: the stamp is rounded up, or kept in milliseconds.
FloorRoundsUp(t) == ((t + 1) \div 2) * 2
Floor(t) == (t \div 2) * 2

\* The paused_at values of the local table, in SQLite's whole seconds.
Known(m) == {Floor(stamp[s]) : s \in {x \in Switches : local[m][x] # "none"}}

\* MAX(paused_at), or the epoch.
PullStart(m) ==
    /\ pull[m].pc = "idle"
    /\ \E t \in Known(m) \cup {0} :
         /\ \A u \in Known(m) : u <= t
         /\ pull' = [pull EXCEPT ![m].pc = "since", ![m].since = t]
    /\ UNCHANGED <<origin, second, stamp, local, cloud, jobs, push, failures>>

Newer(m, s) == stamp[s] > pull[m].since

\* MAX(paused_at) comes from a raw sql fragment, typed Date | null but mapped by
\* nothing: SQLite's number is no argument for the timestamp column, and only of an
\* empty table, where since is new Date(0), does the SELECT not throw.  (MaxIsDate is
\* FALSE in every run; the proofs hold for both.)
SinceIsDate(m) == MaxIsDate \/ pull[m].since = 0

\* SELECT ... FROM the cloud's table WHERE paused_at > since.
PullSelect(m) ==
    /\ pull[m].pc = "since" /\ SinceIsDate(m)
    /\ pull' = [pull EXCEPT
                  ![m].pc = "rows",
                  ![m].rows = [s \in Switches |->
                                 IF Newer(m, s) THEN cloud[s] ELSE "none"]]
    /\ UNCHANGED <<origin, second, stamp, local, cloud, jobs, push, failures>>

PullFails(m) ==
    /\ pull[m].pc = "since"
    /\ IF SinceIsDate(m) THEN Fail ELSE UNCHANGED failures
    /\ pull' = [pull EXCEPT ![m] = NoPull]
    /\ UNCHANGED <<origin, second, stamp, local, cloud, jobs, push>>

\* The loop of upserts, one synchronous statement each; cloud values win on
\* resumed_at.  A row whose upsert throws is logged and skipped.
PullUpsert(m) ==
    LET rows == pull[m].rows
        got == {s \in Switches : rows[s] # "none"}
    IN
    /\ pull[m].pc = "rows"
    /\ \E lost \in SUBSET got :
         /\ local' = [local EXCEPT ![m] =
                        [s \in Switches |-> IF s \in got \ lost
                                            THEN rows[s] ELSE @[s]]]
         /\ IF lost = {} THEN UNCHANGED failures ELSE Fail
    /\ pull' = [pull EXCEPT ![m] = NoPull]
    /\ UNCHANGED <<origin, second, stamp, cloud, jobs, push>>

-----------------------------------------------------------------------------
Tick ==
    /\ second < MaxSecond
    /\ PromptCommits => \A s \in Switches : ~Uncommitted(s)
    /\ second' = second + 1
    /\ UNCHANGED <<origin, stamp, local, cloud, jobs, push, pull, failures>>

Pull(m) == PullStart(m) \/ PullSelect(m) \/ PullFails(m) \/ PullUpsert(m)
Push(m) == PushWrite(m) \/ PushFails(m) \/ \E s \in Switches : PushRead(m, s)

Next ==
    \/ \E m \in Machines : \/ \E s \in Switches : Pause(m, s)
                           \/ \E S \in SUBSET Switches : Resume(m, S)
                           \/ Push(m) \/ Pull(m)
    \/ \E s \in Switches : WebPause(s) \/ WebCommit(s) \/ WebResume(s)
    \/ Tick

Spec == Init /\ [][Next]_vars

\* The daemon's two chains keep running; failures are bounded.
FairSpec == Spec /\ \A m \in Machines : WF_vars(Push(m)) /\ WF_vars(Pull(m))

-----------------------------------------------------------------------------
(* Properties.                                                              *)

TypeOK ==
    /\ origin \in Origins
    /\ second \in 1..MaxSecond
    /\ stamp \in [Switches -> 0..(2 * MaxSecond + 1)]
    /\ local \in [Machines -> [Switches -> Status]]
    /\ cloud \in [Switches -> Status]
    /\ jobs \in [Machines -> SUBSET Switches]
    /\ push \in [Machines -> [s : Switches, status : Status] \cup {NoPush}]
    /\ pull \in [Machines -> [pc : {"idle", "since", "rows"},
                              since : 0..(2 * MaxSecond),
                              rows : [Switches -> Status]]]
    /\ failures \in 0..MaxFailures[origin]

\* A switch paused with --no-sync is known to its machine alone.
NoSyncStaysLocal ==
    \A s \in {x \in NoSync : origin[x] \in Machines} :
        cloud[s] = "none" /\ \A m \in Machines \ {origin[s]} : local[m][s] = "none"

AllFromWeb == \A s \in Switches : origin[s] \in {Web, Nobody}

\* Where every pause is made in the web app and no upsert was lost, the watermark
\* hides nothing: a row the cloud has and a machine lacks is newer than
\* everything the machine knows, so the next pull finds it.
NothingHidden ==
    AllFromWeb /\ failures = 0 =>
        \A m \in Machines, s \in Switches :
            cloud[s] # "none" /\ local[m][s] = "none"
                => \A t \in Known(m) : stamp[s] > t

\* dispatch.ts, OutboxWorker: a queued push comes to the cloud, however often it fails.
PushesArrive ==
    \A s \in Switches : (\E m \in Machines : s \in jobs[m]) ~> cloud[s] # "none"

\* kill-switch-puller.ts: "will retry next tick".  To a machine that knows no switch comes
\* all that is in the cloud before its SELECT, if no upsert is lost and it pauses nothing
\* itself.  (After that nothing comes any more: SinceIsDate.)
FirstPullBringsAll ==
    \A m \in Machines, s \in Switches :
        (cloud[s] # "none" /\ Known(m) = {} /\ pull[m].pc # "rows")
        ~> \/ local[m][s] # "none" \/ failures > 0
           \/ \E x \in Switches : origin[x] = m /\ ~New(x)

\* kill-switch-puller.ts: "Next tick re-tries", spec 04-web-app section 10:
\* "No row is lost".  A pause in the cloud reaches every machine.
PausesReachEveryone ==
    \A m \in Machines, s \in Switches :
        cloud[s] = "active" ~> (local[m][s] # "none" \/ cloud[s] = "resumed")

=============================================================================
