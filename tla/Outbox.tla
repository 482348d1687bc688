------------------------------- MODULE Outbox -------------------------------
(***************************************************************************)
(* The durable outbox: the pending_jobs table and the OutboxWorkers that    *)
(* drain it (packages/cli/src/lib/outbox, packages/db/schedule-durable-     *)
(* write).  Several processes -- the hooks bridge, every MCP server, the    *)
(* sync daemon -- run one worker each over the same table; nothing but the  *)
(* single claiming UPDATE coordinates them.                                 *)
(*                                                                          *)
(* Time is relative, in the seconds the SQLite columns hold: a row keeps    *)
(* the seconds left until run_after ("due", negative once it is past) and   *)
(* the seconds since picked_at ("age").  Both saturate, at -Horizon and at  *)
(* Lease + 1, so that time itself is unbounded; a row never picked has the  *)
(* age of an expired lease.                                                 *)
(***************************************************************************)
EXTENDS Integers, FiniteSets

CONSTANTS
    Jobs,        \* ids of the rows that may ever be enqueued
    NoJob,       \* no row
    Malformed,   \* the jobs whose payload the worker or its handler refuses
    Workers,     \* one OutboxWorker per process
    Serves,      \* Serves[w]: the jobs whose queue is in w's queueFilter
    MaxAttempts, \* worker.ts maxAttempts
    Delay,       \* Delay[n]: the backoff after attempt n (RETRY_DELAYS_MS)
    Lease,       \* leaseMs, in seconds
    Horizon,     \* bound: how far in the past run_after is told apart
    MaxFaults,   \* bound: crashes and failed updates of the table
    MaxFailures  \* bound: dispatches that fail transiently

ASSUME JobsAssumption == Malformed \subseteq Jobs /\ NoJob \notin Jobs
ASSUME ServesAssumption == Serves \in [Workers -> SUBSET Jobs]
ASSUME AttemptsAssumption ==
    /\ MaxAttempts \in Nat \ {0}
    /\ Delay \in [1..(MaxAttempts - 1) -> Nat]
ASSUME BoundsAssumption ==
    /\ Lease \in Nat /\ Horizon \in Nat
    /\ MaxFaults \in Nat /\ MaxFailures \in Nat
ASSUME WorkersAssumption == IsFiniteSet(Workers)

VARIABLES
    row,       \* row[j]: the pending_jobs row of job j
    worker,    \* worker[w]: what process w is doing
    enqueued,  \* the jobs whose scheduleDurableWrite has returned
    landed,    \* the jobs whose destination write has been made
    retried,   \* the dead jobs an operator has put back from the web app
    faults,    \* crashes and failed updates so far
    failures   \* transient dispatch failures so far

vars == <<row, worker, enqueued, landed, retried, faults, failures>>

Row == [status : {"none", "pending", "picked", "dead"},
        attempts : Nat, due : Int, age : 0..(Lease + 1)]
NoRow == [status |-> "none", attempts |-> 0, due |-> 0, age |-> Lease + 1]

Outcome == {"none", "success", "transient_failure", "permanent_failure"}
Process == [pc : {"down", "idle", "dispatch", "settle"},
            job : Jobs \cup {NoJob}, attempts : Nat, outcome : Outcome]
Resting(pc) == [pc |-> pc, job |-> NoJob, attempts |-> 0, outcome |-> "none"]
Idle == Resting("idle")
Down == Resting("down")

Holds(w, j) == worker[w].job = j

Init ==
    /\ row = [j \in Jobs |-> NoRow]
    /\ worker = [w \in Workers |-> Idle]
    /\ enqueued = {}
    /\ landed = {}
    /\ retried = {}
    /\ faults = 0
    /\ failures = 0

-----------------------------------------------------------------------------
(* The callers.                                                             *)

\* scheduleDurableWrite: INSERT with status 'pending', runAfter now.
Enqueue(j) ==
    /\ j \notin enqueued
    /\ row' = [row EXCEPT ![j] = [NoRow EXCEPT !.status = "pending"]]
    /\ enqueued' = enqueued \cup {j}
    /\ UNCHANGED <<worker, landed, retried, faults, failures>>

\* retryDeadJob of the web app.  One retry of each job bounds the model.
OperatorRetry(j) ==
    /\ row[j].status = "dead"
    /\ j \notin retried
    /\ row' = [row EXCEPT ![j].status = "pending", ![j].attempts = 0]
    /\ retried' = retried \cup {j}
    /\ UNCHANGED <<worker, enqueued, landed, faults, failures>>

-----------------------------------------------------------------------------
(* The worker.                                                              *)

\* (mutant: orphans are never reclaimed)
ClaimableUnlessOrphan(w) ==
    {j \in Serves[w] : row[j].status = "pending" /\ row[j].due <= 0}

\* The WHERE clause of the claim: a due row, or an orphan past its lease.
Claimable(w) ==
    {j \in Serves[w] :
        \/ row[j].status = "pending" /\ row[j].due <= 0
        \/ row[j].status = "picked" /\ row[j].age > Lease}

\* (mutant: reclaiming an orphan does not count as an attempt)
ClaimOrphanUncounted(w) ==
    /\ worker[w].pc = "idle"
    /\ \E j \in Claimable(w) :
         LET n == IF row[j].status = "picked" THEN row[j].attempts
                                             ELSE row[j].attempts + 1
         IN  /\ \A k \in Claimable(w) : row[j].due <= row[k].due
             /\ row' = [row EXCEPT ![j].status = "picked",
                                   ![j].attempts = n, ![j].age = 0]
             /\ worker' = [worker EXCEPT ![w] =
                             [pc |-> "dispatch", job |-> j,
                              attempts |-> n, outcome |-> "none"]]
    /\ UNCHANGED <<enqueued, landed, retried, faults, failures>>

\* One UPDATE ... WHERE id = (SELECT ... ORDER BY run_after ASC LIMIT 1).
Claim(w) ==
    /\ worker[w].pc = "idle"
    /\ \E j \in Claimable(w) :
         /\ \A k \in Claimable(w) : row[j].due <= row[k].due
         /\ row' = [row EXCEPT ![j].status = "picked",
                               ![j].attempts = row[j].attempts + 1,
                               ![j].age = 0]
         /\ worker' = [worker EXCEPT ![w] =
                         [pc |-> "dispatch", job |-> j,
                          attempts |-> row[j].attempts + 1,
                          outcome |-> "none"]]
    /\ UNCHANGED <<enqueued, landed, retried, faults, failures>>

Report(w, o) ==
    worker' = [worker EXCEPT ![w].pc = "settle", ![w].outcome = o]

\* The handler ran its idempotent destination write.
DispatchSucceeds(w) ==
    /\ worker[w].pc = "dispatch"
    /\ worker[w].job \notin Malformed
    /\ landed' = landed \cup {worker[w].job}
    /\ Report(w, "success")
    /\ UNCHANGED <<row, enqueued, retried, faults, failures>>

\* The handler threw or reported a transient failure; over a network the
\* destination may have committed all the same.
DispatchFails(w) ==
    /\ worker[w].pc = "dispatch"
    /\ worker[w].job \notin Malformed
    /\ failures < MaxFailures
    /\ failures' = failures + 1
    /\ landed' \in {landed, landed \cup {worker[w].job}}
    /\ Report(w, "transient_failure")
    /\ UNCHANGED <<row, enqueued, retried, faults>>

\* Unparsable JSON, wrong version, missing field, unknown queue or table.
DispatchRefuses(w) ==
    /\ worker[w].pc = "dispatch"
    /\ worker[w].job \in Malformed
    /\ Report(w, "permanent_failure")
    /\ UNCHANGED <<row, enqueued, landed, retried, faults, failures>>

\* (mutant: gives up one attempt early)
shouldGiveUpEarly(attempts) == attempts + 1 >= MaxAttempts

shouldGiveUp(attempts) == attempts >= MaxAttempts

\* (mutant: a row given up is deleted instead of kept for the operator)
SettledDropsDead(r, outcome, attempts) ==
    IF outcome = "success" \/ outcome = "permanent_failure"
         \/ shouldGiveUp(attempts)
    THEN NoRow
    ELSE [r EXCEPT !.status = "pending", !.due = Delay[attempts]]

\* (mutant: a status the table does not know)
SettledFailedStatus(r, outcome, attempts) ==
    IF outcome = "success" THEN NoRow
    ELSE IF outcome = "permanent_failure" \/ shouldGiveUp(attempts)
         THEN [r EXCEPT !.status = "failed", !.due = 0, !.age = Lease + 1]
         ELSE [r EXCEPT !.status = "pending", !.due = Delay[attempts]]

\* The row after the outcome: #deleteJob, #markDead or #scheduleRetry.  All
\* three address the row by id alone, whatever became of it since the claim.
\* A dead row's times are never read again: they are dropped.  A retried row
\* keeps its picked_at.
Settled(r, outcome, attempts) ==
    IF outcome = "success" THEN NoRow
    ELSE IF outcome = "permanent_failure" \/ shouldGiveUp(attempts)
         THEN [r EXCEPT !.status = "dead", !.due = 0, !.age = Lease + 1]
         ELSE [r EXCEPT !.status = "pending", !.due = Delay[attempts]]

Settle(w) ==
    /\ worker[w].pc = "settle"
    /\ LET p == worker[w] IN
       row' = [row EXCEPT ![p.job] =
                 IF @.status = "none" THEN @
                 ELSE Settled(@, p.outcome, p.attempts)]
    /\ worker' = [worker EXCEPT ![w] = Idle]
    /\ UNCHANGED <<enqueued, landed, retried, faults, failures>>

\* The update of the row throws: logged, the row stays picked.
SettleFails(w) ==
    /\ worker[w].pc = "settle"
    /\ faults < MaxFaults
    /\ faults' = faults + 1
    /\ worker' = [worker EXCEPT ![w] = Idle]
    /\ UNCHANGED <<row, enqueued, landed, retried, failures>>

\* The process dies, or is shut down, wherever it is.
Crash(w) ==
    /\ worker[w].pc # "down"
    /\ faults < MaxFaults
    /\ faults' = faults + 1
    /\ worker' = [worker EXCEPT ![w] = Down]
    /\ UNCHANGED <<row, enqueued, landed, retried, failures>>

Restart(w) ==
    /\ worker[w].pc = "down"
    /\ worker' = [worker EXCEPT ![w] = Idle]
    /\ UNCHANGED <<row, enqueued, landed, retried, faults, failures>>

-----------------------------------------------------------------------------
\* One second passes.
Aged(r) ==
    IF r.status \notin {"pending", "picked"} THEN r
    ELSE [r EXCEPT !.due = IF @ > -Horizon THEN @ - 1 ELSE @,
                   !.age = IF @ <= Lease THEN @ + 1 ELSE @]

Tick ==
    /\ row' = [j \in Jobs |-> Aged(row[j])]
    /\ UNCHANGED <<worker, enqueued, landed, retried, faults, failures>>

WorkerStep(w) ==
    \/ Claim(w)
    \/ DispatchSucceeds(w) \/ DispatchFails(w) \/ DispatchRefuses(w)
    \/ Settle(w) \/ SettleFails(w)
    \/ Crash(w) \/ Restart(w)

Next ==
    \/ \E j \in Jobs : Enqueue(j) \/ OperatorRetry(j)
    \/ \E w \in Workers : WorkerStep(w)
    \/ Tick

Spec == Init /\ [][Next]_vars

\* The timer chain keeps a live worker claiming (OutboxTimer), awaited
\* dispatches and updates resolve, a dead process is started again, and the
\* clock runs.  Nothing obliges callers, failures, crashes or operators.
Dispatch(w) == DispatchSucceeds(w) \/ DispatchFails(w) \/ DispatchRefuses(w)

Fairness ==
    /\ \A w \in Workers :
         WF_vars(Claim(w)) /\ WF_vars(Dispatch(w))
           /\ WF_vars(Settle(w)) /\ WF_vars(Restart(w))
    /\ WF_vars(Tick)

FairSpec == Spec /\ Fairness

-----------------------------------------------------------------------------
(* Properties.                                                              *)

\* Every variable keeps its shape: rows and claims as the table has them.
TypeOK ==
    /\ row \in [Jobs -> Row]
    /\ worker \in [Workers -> Process]
    /\ enqueued \subseteq Jobs
    /\ landed \subseteq Jobs
    /\ retried \subseteq Jobs
    /\ faults \in Nat
    /\ failures \in Nat

\* "Crash safety" of worker.ts: a write whose enqueue returned is in the table
\* or in its destination, whatever crashed, expired or was dispatched twice.
NoWriteLost ==
    \A j \in enqueued : row[j].status = "none" => j \in landed

\* No two workers hold the same attempt of a job, though leases expire under
\* slow dispatches and stale workers settle late: the attempts column numbers
\* the claims.  (A row put back by the operator starts again from zero.)
ClaimsAreNumbered ==
    \A v, w \in Workers : \A j \in Jobs \ retried :
        Holds(v, j) /\ Holds(w, j) /\ v # w
          => worker[v].attempts # worker[w].attempts

\* The workers that hold j and have not yet reported a failure of it.
Trying(j) ==
    {w \in Workers : Holds(w, j) /\ worker[w].outcome # "transient_failure"}

\* attempts counts claims, not failures (#claim increments it); each one is
\* accounted for by a failure, a fault, or a worker still at it.
AttemptsAccounted ==
    \A j \in Jobs \ (retried \cup Malformed) :
        row[j].attempts <= failures + faults + Cardinality(Trying(j))

\* A well-formed write is given up only after real trouble: with n workers at
\* least MaxAttempts - (n - 1) failures and faults came before.
DeadIsEarned ==
    \A j \in Jobs \ (retried \cup Malformed) :
        row[j].status = "dead"
          => MaxAttempts < failures + faults + Cardinality(Workers)

\* The inductive invariant behind the three: what a busy worker knows of the
\* row it claimed.
ClaimsOK ==
    \A w \in Workers :
        LET p == worker[w] IN
        /\ p.pc \in {"down", "idle"} <=> p.job = NoJob
        /\ p.pc = "settle" <=> p.outcome # "none"
        /\ p.job # NoJob =>
             /\ p.attempts > 0
             /\ p.job \in enqueued
             /\ p.outcome = "success" => p.job \in landed
             /\ p.outcome = "permanent_failure" => p.job \in Malformed
             /\ p.job \in Malformed
                  => p.outcome \in {"none", "permanent_failure"}
             /\ p.job \notin retried /\ row[p.job].status # "none"
                  => p.attempts <= row[p.job].attempts

RowsOK ==
    \A j \in Jobs :
        /\ j \notin enqueued => row[j].status = "none"
        /\ row[j].status = "none" => row[j].attempts = 0
        /\ row[j].status = "dead" => j \in enqueued

IInv ==
    /\ TypeOK /\ ClaimsOK /\ RowsOK /\ NoWriteLost
    /\ ClaimsAreNumbered /\ AttemptsAccounted /\ DeadIsEarned

Served(j) == \E w \in Workers : j \in Serves[w]

\* Every enqueued row some worker serves is delivered or ends up in front of
\* the operator; none is claimed, dropped and claimed again for ever.
JobsSettle ==
    \A j \in Jobs : (j \in enqueued /\ Served(j))
                      ~> row[j].status \in {"none", "dead"}

\* worker.ts, leaseMs: "how long a row counts as actively in flight before
\* another worker may reclaim it".  A stale worker's late retry makes the row
\* pending under the feet of the worker that holds the running lease.
LeaseHonoured ==
    [][\A v, w \in Workers : \A j \in Jobs :
         /\ v # w
         /\ Holds(v, j) /\ worker[v].attempts = row[j].attempts
         /\ worker[w].job # j /\ worker'[w].job = j
         => row[j].age > Lease]_vars

\* What the table promises its callers, however it is drained: DurableWrite,
\* with a write's state read off the table.
WriteState(j) ==
    IF j \notin enqueued THEN "new"
    ELSE IF row[j].status \in {"pending", "picked"} THEN "open"
    ELSE IF row[j].status = "dead" THEN "dead"
    ELSE "done"

writeState == [j \in Jobs |-> WriteState(j)]
DW == INSTANCE DurableWrite
        WITH writes <- Jobs, delivered <- landed, state <- writeState
ImplementsDurableWrite == DW!Spec

=============================================================================
