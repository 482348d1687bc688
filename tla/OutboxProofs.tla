---------------------------- MODULE OutboxProofs ----------------------------
(* Proofs about Outbox, for any number of jobs and workers.                 *)
EXTENDS Outbox, FiniteSetTheorems, TLAPS

-----------------------------------------------------------------------------
(* Type correctness.                                                        *)

LEMMA InitTypeOK == Init => TypeOK
BY BoundsAssumption
DEF Init, TypeOK, Row, NoRow, Process, Idle, Resting, Outcome

LEMMA RowUpdate ==
    ASSUME NEW r \in Row, NEW d \in Int, NEW a \in 0..(Lease + 1),
           NEW s \in {"none", "pending", "picked", "dead"}
    PROVE  [r EXCEPT !.status = s, !.due = d, !.age = a] \in Row
BY DEF Row

LEMMA SettledType ==
    ASSUME NEW r \in Row, NEW o \in Outcome, NEW n \in Nat \ {0}
    PROVE  Settled(r, o, n) \in Row
<1>1. CASE o = "success"
  BY <1>1, BoundsAssumption DEF Settled, NoRow, Row
<1>2. CASE o # "success" /\ (o = "permanent_failure" \/ shouldGiveUp(n))
  <2>1. Lease + 1 \in 0..(Lease + 1) /\ 0 \in Int
    BY BoundsAssumption
  <2>2. [r EXCEPT !.status = "dead", !.due = 0, !.age = Lease + 1] \in Row
    BY <2>1, RowUpdate
  <2> QED
    BY <1>2, <2>2, Zenon DEF Settled
<1>3. CASE o # "success" /\ ~ (o = "permanent_failure" \/ shouldGiveUp(n))
  <2>1. Delay[n] \in Int
    BY <1>3, AttemptsAssumption DEF shouldGiveUp
  <2>2. [r EXCEPT !.status = "pending", !.due = Delay[n]] \in Row
    BY <2>1 DEF Row
  <2> QED
    BY <1>3, <2>2, Zenon DEF Settled
<1> QED
  BY <1>1, <1>2, <1>3, Zenon

LEMMA BusyWorker ==
    ASSUME TypeOK, ClaimsOK, NEW w \in Workers,
           worker[w].pc \in {"dispatch", "settle"}
    PROVE  /\ worker[w].job \in Jobs
           /\ worker[w].attempts \in Nat \ {0}
           /\ worker[w].outcome \in Outcome
BY DEF TypeOK, ClaimsOK, Process

LEMMA NextTypeOK == TypeOK /\ ClaimsOK /\ [Next]_vars => TypeOK'
<1> SUFFICES ASSUME TypeOK, ClaimsOK, [Next]_vars PROVE TypeOK'
  OBVIOUS
<1> USE BoundsAssumption DEF TypeOK
<1>1. ASSUME NEW j \in Jobs, Enqueue(j) PROVE TypeOK'
  BY <1>1 DEF Enqueue, Row, NoRow
<1>2. ASSUME NEW j \in Jobs, OperatorRetry(j) PROVE TypeOK'
  BY <1>2 DEF OperatorRetry, Row
<1>3. ASSUME NEW w \in Workers, Claim(w) PROVE TypeOK'
  <2>1. PICK j \in Claimable(w) :
          /\ row' = [row EXCEPT ![j].status = "picked",
                                ![j].attempts = row[j].attempts + 1,
                                ![j].age = 0]
          /\ worker' = [worker EXCEPT ![w] =
                          [pc |-> "dispatch", job |-> j,
                           attempts |-> row[j].attempts + 1,
                           outcome |-> "none"]]
    BY <1>3 DEF Claim
  <2>2. j \in Jobs
    BY ServesAssumption DEF Claimable
  <2>3. row[j].attempts + 1 \in Nat
    BY <2>2 DEF Row
  <2>4. row' \in [Jobs -> Row]
    BY <2>1, <2>2, <2>3 DEF Row
  <2>5. worker' \in [Workers -> Process]
    BY <2>1, <2>2, <2>3 DEF Process, Outcome
  <2> QED
    BY <1>3, <2>4, <2>5 DEF Claim
<1>4. ASSUME NEW w \in Workers, DispatchSucceeds(w) PROVE TypeOK'
  BY <1>4, BusyWorker DEF DispatchSucceeds, Report, Process, Outcome
<1>5. ASSUME NEW w \in Workers, DispatchFails(w) PROVE TypeOK'
  <2>1. worker' \in [Workers -> Process]
    BY <1>5, BusyWorker DEF DispatchFails, Report, Process, Outcome
  <2>2. landed' \subseteq Jobs /\ failures' \in Nat
    BY <1>5, BusyWorker DEF DispatchFails
  <2> QED
    BY <1>5, <2>1, <2>2 DEF DispatchFails
<1>6. ASSUME NEW w \in Workers, DispatchRefuses(w) PROVE TypeOK'
  BY <1>6, BusyWorker DEF DispatchRefuses, Report, Process, Outcome
<1>7. ASSUME NEW w \in Workers, Settle(w) PROVE TypeOK'
  <2> DEFINE p == worker[w]
  <2>1. Settled(row[p.job], p.outcome, p.attempts) \in Row
    BY <1>7, BusyWorker, SettledType DEF Settle
  <2>2. row' \in [Jobs -> Row]
    BY <1>7, <2>1 DEF Settle
  <2>3. worker' \in [Workers -> Process]
    BY <1>7 DEF Settle, Idle, Resting, Process, Outcome
  <2> QED
    BY <1>7, <2>2, <2>3 DEF Settle
<1>8. ASSUME NEW w \in Workers, SettleFails(w) PROVE TypeOK'
  BY <1>8 DEF SettleFails, Idle, Resting, Process, Outcome
<1>9. ASSUME NEW w \in Workers, Crash(w) PROVE TypeOK'
  BY <1>9 DEF Crash, Down, Resting, Process, Outcome
<1>10. ASSUME NEW w \in Workers, Restart(w) PROVE TypeOK'
  BY <1>10 DEF Restart, Idle, Resting, Process, Outcome
<1>11. CASE Tick
  <2>1. ASSUME NEW r \in Row PROVE Aged(r) \in Row
    <3> DEFINE d == IF r.due > -Horizon THEN r.due - 1 ELSE r.due
               a == IF r.age <= Lease THEN r.age + 1 ELSE r.age
    <3>1. d \in Int /\ a \in 0..(Lease + 1)
      BY DEF Row
    <3>2. [r EXCEPT !.due = d, !.age = a] \in Row
      BY <3>1 DEF Row
    <3> QED
      BY <3>2 DEF Aged
  <2> QED
    BY <1>11, <2>1 DEF Tick
<1>12. CASE UNCHANGED vars
  BY <1>12 DEF vars
<1> QED
  BY <1>1, <1>2, <1>3, <1>4, <1>5, <1>6, <1>7, <1>8, <1>9, <1>10, <1>11,
     <1>12 DEF Next, WorkerStep

-----------------------------------------------------------------------------
(* What an action does to the row and the worker it concerns.               *)

LEMMA ClaimEffect ==
    ASSUME TypeOK, NEW w \in Workers, Claim(w)
    PROVE  \E j \in Jobs :
             /\ row[j].status \in {"pending", "picked"}
             /\ worker[w].pc = "idle"
             /\ row'[j].status = "picked"
             /\ row'[j].attempts = row[j].attempts + 1
             /\ \A k \in Jobs \ {j} : row'[k] = row[k]
             /\ worker'[w] = [pc |-> "dispatch", job |-> j,
                              attempts |-> row[j].attempts + 1,
                              outcome |-> "none"]
             /\ \A v \in Workers \ {w} : worker'[v] = worker[v]
             /\ UNCHANGED <<enqueued, landed, retried, faults, failures>>
<1>1. PICK j \in Claimable(w) :
        /\ row' = [row EXCEPT ![j].status = "picked",
                              ![j].attempts = row[j].attempts + 1,
                              ![j].age = 0]
        /\ worker' = [worker EXCEPT ![w] =
                        [pc |-> "dispatch", job |-> j,
                         attempts |-> row[j].attempts + 1,
                         outcome |-> "none"]]
  BY DEF Claim
<1>2. j \in Jobs /\ row[j].status \in {"pending", "picked"}
  BY ServesAssumption DEF Claimable
<1>3. row[j] \in Row
  BY <1>2 DEF TypeOK
<1>4. row'[j].status = "picked" /\ row'[j].attempts = row[j].attempts + 1
  BY <1>1, <1>2, <1>3 DEF TypeOK, Row
<1>5. \A k \in Jobs \ {j} : row'[k] = row[k]
  BY <1>1 DEF TypeOK
<1>6. worker'[w] = [pc |-> "dispatch", job |-> j,
                   attempts |-> row[j].attempts + 1, outcome |-> "none"]
  BY <1>1 DEF TypeOK
<1>7. \A v \in Workers \ {w} : worker'[v] = worker[v]
  BY <1>1 DEF TypeOK
<1> QED
  BY <1>2, <1>4, <1>5, <1>6, <1>7 DEF Claim

LEMMA SettledEffect ==
    ASSUME NEW r \in Row, NEW o \in Outcome, NEW n \in Nat \ {0}
    PROVE  LET s == Settled(r, o, n) IN
           /\ s.attempts = IF o = "success" THEN 0 ELSE r.attempts
           /\ s.status = "none" <=> o = "success"
           /\ s.status = "dead" <=>
                 o # "success" /\ (o = "permanent_failure" \/ n >= MaxAttempts)
BY DEF Settled, shouldGiveUp, NoRow, Row

LEMMA SettleEffect ==
    ASSUME TypeOK, ClaimsOK, NEW w \in Workers, Settle(w)
    PROVE  LET j == worker[w].job
               o == worker[w].outcome IN
           /\ j \in Jobs /\ worker[w].pc = "settle"
           /\ IF row[j].status = "none" \/ o = "success"
              THEN row'[j].status = "none"
                   /\ row'[j].attempts
                        = IF o = "success" /\ row[j].status # "none"
                          THEN 0 ELSE row[j].attempts
              ELSE /\ row'[j].status # "none"
                   /\ row'[j].attempts = row[j].attempts
                   /\ row'[j].status = "dead" <=>
                         \/ o = "permanent_failure"
                         \/ worker[w].attempts >= MaxAttempts
           /\ \A k \in Jobs \ {j} : row'[k] = row[k]
           /\ worker'[w] = Idle
           /\ \A v \in Workers \ {w} : worker'[v] = worker[v]
           /\ UNCHANGED <<enqueued, landed, retried, faults, failures>>
<1> DEFINE p == worker[w]
<1>1. p.job \in Jobs /\ p.attempts \in Nat \ {0} /\ p.outcome \in Outcome
  BY BusyWorker DEF Settle
<1>2. row[p.job] \in Row
  BY <1>1 DEF TypeOK
<1>3. row'[p.job] = IF row[p.job].status = "none" THEN row[p.job]
                    ELSE Settled(row[p.job], p.outcome, p.attempts)
  BY <1>1 DEF Settle, TypeOK
<1>4. \A k \in Jobs \ {p.job} : row'[k] = row[k]
  BY <1>1 DEF Settle, TypeOK
<1>5. worker'[w] = Idle /\ \A v \in Workers \ {w} : worker'[v] = worker[v]
  BY DEF Settle, TypeOK
<1>6. UNCHANGED <<enqueued, landed, retried, faults, failures>>
  BY DEF Settle
<1>7. CASE row[p.job].status = "none"
  BY <1>1, <1>3, <1>4, <1>5, <1>6, <1>7 DEF Settle
<1>8. CASE row[p.job].status # "none"
  <2> DEFINE s == Settled(row[p.job], p.outcome, p.attempts)
  <2>1. /\ s.attempts = IF p.outcome = "success" THEN 0
                        ELSE row[p.job].attempts
        /\ s.status = "none" <=> p.outcome = "success"
        /\ s.status = "dead" <=>
              /\ p.outcome # "success"
              /\ p.outcome = "permanent_failure" \/ p.attempts >= MaxAttempts
    BY <1>1, <1>2, SettledEffect
  <2>2. row'[p.job] = s
    BY <1>3, <1>8
  <2> HIDE DEF s
  <2> QED
    BY <1>1, <1>4, <1>5, <1>6, <1>8, <2>1, <2>2 DEF Settle
<1> QED
  BY <1>7, <1>8

LEMMA RestEffect ==
    ASSUME TypeOK, NEW w \in Workers,
           SettleFails(w) \/ Crash(w) \/ Restart(w)
    PROVE  /\ worker'[w] \in {Idle, Down}
           /\ \A v \in Workers \ {w} : worker'[v] = worker[v]
           /\ worker[w].pc = "down" \/ faults' = faults + 1
           /\ worker[w].pc = "down" => faults' = faults
           /\ UNCHANGED <<row, enqueued, landed, retried, failures>>
BY DEF SettleFails, Crash, Restart, TypeOK

LEMMA DispatchEffect ==
    ASSUME TypeOK, ClaimsOK, NEW w \in Workers, Dispatch(w)
    PROVE  /\ worker[w].pc = "dispatch"
           /\ worker'[w].pc = "settle"
           /\ worker'[w].job = worker[w].job
           /\ worker'[w].attempts = worker[w].attempts
           /\ \A v \in Workers \ {w} : worker'[v] = worker[v]
           /\ \/ /\ worker'[w].outcome = "success"
                 /\ worker[w].job \notin Malformed
                 /\ worker[w].job \in landed'
                 /\ failures' = failures
              \/ /\ worker'[w].outcome = "transient_failure"
                 /\ worker[w].job \notin Malformed
                 /\ failures' = failures + 1
              \/ /\ worker'[w].outcome = "permanent_failure"
                 /\ worker[w].job \in Malformed
                 /\ failures' = failures
           /\ landed \subseteq landed'
           /\ UNCHANGED <<row, enqueued, retried, faults>>
<1> USE BusyWorker DEF TypeOK, Process, Report
<1>1. CASE DispatchSucceeds(w)
  BY <1>1 DEF DispatchSucceeds
<1>2. CASE DispatchFails(w)
  BY <1>2 DEF DispatchFails
<1>3. CASE DispatchRefuses(w)
  BY <1>3 DEF DispatchRefuses
<1> QED
  BY <1>1, <1>2, <1>3 DEF Dispatch

LEMMA TickEffect ==
    ASSUME TypeOK, Tick
    PROVE  /\ \A j \in Jobs : /\ row'[j].status = row[j].status
                             /\ row'[j].attempts = row[j].attempts
           /\ UNCHANGED <<worker, enqueued, landed, retried, faults, failures>>
<1>1. ASSUME NEW r \in Row
      PROVE  Aged(r).status = r.status /\ Aged(r).attempts = r.attempts
  BY DEF Aged, Row
<1> QED
  BY <1>1 DEF Tick, TypeOK

LEMMA EnqueueEffect ==
    ASSUME TypeOK, NEW j \in Jobs, Enqueue(j)
    PROVE  /\ j \notin enqueued /\ enqueued' = enqueued \cup {j}
           /\ row'[j].status = "pending" /\ row'[j].attempts = 0
           /\ \A k \in Jobs \ {j} : row'[k] = row[k]
           /\ UNCHANGED <<worker, landed, retried, faults, failures>>
BY DEF Enqueue, NoRow, TypeOK

LEMMA RetryEffect ==
    ASSUME TypeOK, NEW j \in Jobs, OperatorRetry(j)
    PROVE  /\ row[j].status = "dead" /\ row'[j].status = "pending"
           /\ retried' = retried \cup {j}
           /\ \A k \in Jobs \ {j} : row'[k] = row[k]
           /\ UNCHANGED <<worker, enqueued, landed, faults, failures>>
BY DEF OperatorRetry, TypeOK, Row

-----------------------------------------------------------------------------
(* Counting the workers that hold a job.                                    *)

LEMMA SomeWorkers ==
    ASSUME NEW S \in SUBSET Workers
    PROVE  /\ IsFiniteSet(S) /\ Cardinality(S) \in Nat
           /\ Cardinality(S) <= Cardinality(Workers)
           /\ Cardinality(Workers) \in Nat
BY WorkersAssumption, FS_Subset, FS_CardinalityType

LEMMA OneMoreWorker ==
    ASSUME NEW S \in SUBSET Workers, NEW w \in Workers \ S
    PROVE  Cardinality(S \cup {w}) = Cardinality(S) + 1
BY SomeWorkers, FS_AddElement

LEMMA OneWorkerLess ==
    ASSUME NEW S \in SUBSET Workers, NEW w
    PROVE  /\ Cardinality(S \ {w}) \in Nat
           /\ Cardinality(S) <= Cardinality(S \ {w}) + 1
           /\ w \in S => Cardinality(S \ {w}) = Cardinality(S) - 1
<1>1. CASE w \in S
  BY <1>1, SomeWorkers, FS_RemoveElement
<1>2. CASE w \notin S
  <2>1. S \ {w} = S
    BY <1>2
  <2> QED
    BY <1>2, <2>1, SomeWorkers
<1> QED
  BY <1>1, <1>2

-----------------------------------------------------------------------------
(* The inductive invariant, conjunct by conjunct.                           *)

LEMMA ClaimsOKNext == IInv /\ [Next]_vars => ClaimsOK'
<1> SUFFICES ASSUME IInv, [Next]_vars PROVE ClaimsOK'
  OBVIOUS
<1> USE DEF IInv
<1>1. ASSUME NEW j \in Jobs, Enqueue(j) PROVE ClaimsOK'
  <2>1. \A w \in Workers : worker[w].job # NoJob => worker[w].job # j
    BY <1>1, EnqueueEffect DEF ClaimsOK
  <2> QED
    BY <1>1, <2>1, EnqueueEffect DEF ClaimsOK, TypeOK, Process
<1>2. ASSUME NEW j \in Jobs, OperatorRetry(j) PROVE ClaimsOK'
  BY <1>2, RetryEffect DEF ClaimsOK, TypeOK, Process
<1>3. ASSUME NEW w \in Workers, Claim(w) PROVE ClaimsOK'
  <2>1. PICK j \in Jobs :
          /\ row[j].status \in {"pending", "picked"}
          /\ row'[j].attempts = row[j].attempts + 1
          /\ \A k \in Jobs \ {j} : row'[k] = row[k]
          /\ worker'[w] = [pc |-> "dispatch", job |-> j,
                           attempts |-> row[j].attempts + 1,
                           outcome |-> "none"]
          /\ \A v \in Workers \ {w} : worker'[v] = worker[v]
          /\ UNCHANGED <<enqueued, landed, retried>>
    BY <1>3, ClaimEffect
  <2>2. row[j].attempts \in Nat /\ j \in enqueued /\ j # NoJob
    BY <2>1, JobsAssumption DEF TypeOK, Row, RowsOK
  <2>3. \A v \in Workers : /\ worker[v].attempts \in Nat
                          /\ worker[v].job \in Jobs \cup {NoJob}
    BY DEF TypeOK, Process
  <2> QED
    BY <2>1, <2>2, <2>3 DEF ClaimsOK
<1>4. ASSUME NEW w \in Workers, Dispatch(w) PROVE ClaimsOK'
  BY <1>4, DispatchEffect DEF ClaimsOK
<1>5. ASSUME NEW w \in Workers, Settle(w) PROVE ClaimsOK'
  BY <1>5, SettleEffect DEF ClaimsOK, Idle, Resting, TypeOK, Process
<1>6. ASSUME NEW w \in Workers, SettleFails(w) \/ Crash(w) \/ Restart(w)
      PROVE ClaimsOK'
  BY <1>6, RestEffect DEF ClaimsOK, Idle, Down, Resting
<1>7. CASE Tick
  BY <1>7, TickEffect DEF ClaimsOK, TypeOK, Process
<1>8. CASE UNCHANGED vars
  BY <1>8 DEF vars, ClaimsOK
<1> QED
  BY <1>1, <1>2, <1>3, <1>4, <1>5, <1>6, <1>7, <1>8
  DEF Next, WorkerStep, Dispatch

LEMMA RowsOKNext == IInv /\ [Next]_vars => RowsOK' /\ NoWriteLost'
<1> SUFFICES ASSUME IInv, [Next]_vars PROVE RowsOK' /\ NoWriteLost'
  OBVIOUS
<1> USE DEF IInv, RowsOK, NoWriteLost
<1>1. ASSUME NEW j \in Jobs, Enqueue(j) PROVE RowsOK' /\ NoWriteLost'
  BY <1>1, EnqueueEffect DEF TypeOK
<1>2. ASSUME NEW j \in Jobs, OperatorRetry(j) PROVE RowsOK' /\ NoWriteLost'
  BY <1>2, RetryEffect DEF TypeOK
<1>3. ASSUME NEW w \in Workers, Claim(w) PROVE RowsOK' /\ NoWriteLost'
  <2>1. PICK j \in Jobs :
          /\ row[j].status \in {"pending", "picked"}
          /\ row'[j].status = "picked"
          /\ \A k \in Jobs \ {j} : row'[k] = row[k]
          /\ UNCHANGED <<enqueued, landed>>
    BY <1>3, ClaimEffect
  <2> QED
    BY <2>1 DEF TypeOK
<1>4. ASSUME NEW w \in Workers, Dispatch(w) PROVE RowsOK' /\ NoWriteLost'
  BY <1>4, DispatchEffect
<1>5. ASSUME NEW w \in Workers, Settle(w) PROVE RowsOK' /\ NoWriteLost'
  <2> DEFINE j == worker[w].job
  <2>1. j \in enqueued /\ (worker[w].outcome = "success" => j \in landed)
    BY <1>5, SettleEffect, JobsAssumption DEF ClaimsOK
  <2> QED
    BY <1>5, <2>1, SettleEffect DEF TypeOK
<1>6. ASSUME NEW w \in Workers, SettleFails(w) \/ Crash(w) \/ Restart(w)
      PROVE RowsOK' /\ NoWriteLost'
  BY <1>6, RestEffect
<1>7. CASE Tick
  BY <1>7, TickEffect DEF TypeOK
<1>8. CASE UNCHANGED vars
  BY <1>8 DEF vars
<1> QED
  BY <1>1, <1>2, <1>3, <1>4, <1>5, <1>6, <1>7, <1>8
  DEF Next, WorkerStep, Dispatch

LEMMA NumberedNext == IInv /\ [Next]_vars => ClaimsAreNumbered'
<1> SUFFICES ASSUME IInv, [Next]_vars PROVE ClaimsAreNumbered'
  OBVIOUS
<1> USE DEF IInv, ClaimsAreNumbered, Holds
<1>1. ASSUME NEW j \in Jobs, Enqueue(j) PROVE ClaimsAreNumbered'
  BY <1>1, EnqueueEffect
<1>2. ASSUME NEW j \in Jobs, OperatorRetry(j) PROVE ClaimsAreNumbered'
  BY <1>2, RetryEffect
<1>3. ASSUME NEW w \in Workers, Claim(w) PROVE ClaimsAreNumbered'
  <2>1. PICK j \in Jobs :
          /\ row[j].status \in {"pending", "picked"}
          /\ worker'[w] = [pc |-> "dispatch", job |-> j,
                           attempts |-> row[j].attempts + 1,
                           outcome |-> "none"]
          /\ \A v \in Workers \ {w} : worker'[v] = worker[v]
          /\ UNCHANGED retried
    BY <1>3, ClaimEffect
  <2>2. ASSUME NEW v \in Workers \ {w}, Holds(v, j), j \notin retried
        PROVE  worker[v].attempts # row[j].attempts + 1
    <3>1. worker[v].attempts <= row[j].attempts
      BY <2>1, <2>2, JobsAssumption DEF ClaimsOK
    <3> QED
      BY <3>1 DEF TypeOK, Row, Process
  <2> QED
    BY <2>1, <2>2
<1>4. ASSUME NEW w \in Workers, Dispatch(w) PROVE ClaimsAreNumbered'
  BY <1>4, DispatchEffect
<1>5. ASSUME NEW w \in Workers, Settle(w) PROVE ClaimsAreNumbered'
  BY <1>5, SettleEffect, JobsAssumption DEF Idle, Resting
<1>6. ASSUME NEW w \in Workers, SettleFails(w) \/ Crash(w) \/ Restart(w)
      PROVE ClaimsAreNumbered'
  BY <1>6, RestEffect, JobsAssumption DEF Idle, Down, Resting
<1>7. CASE Tick
  BY <1>7, TickEffect
<1>8. CASE UNCHANGED vars
  BY <1>8 DEF vars
<1> QED
  BY <1>1, <1>2, <1>3, <1>4, <1>5, <1>6, <1>7, <1>8
  DEF Next, WorkerStep, Dispatch

LEMMA AccountedNext == IInv /\ [Next]_vars => AttemptsAccounted'
<1> SUFFICES ASSUME IInv, [Next]_vars,
                    NEW k \in Jobs, k \notin retried', k \notin Malformed
             PROVE  row'[k].attempts
                      <= failures' + faults' + Cardinality(Trying(k)')
  BY DEF AttemptsAccounted
<1> DEFINE T == Trying(k)
           Goal == row'[k].attempts
                     <= failures' + faults' + Cardinality(T')
<1> USE DEF IInv
<1>a. /\ T \in SUBSET Workers /\ T' \in SUBSET Workers
      /\ Cardinality(T) \in Nat /\ Cardinality(T') \in Nat
  BY SomeWorkers DEF Trying
<1>b. /\ failures \in Nat /\ faults \in Nat /\ row[k].attempts \in Nat
      /\ k # NoJob
  BY JobsAssumption DEF TypeOK, Row
<1>c. k \notin retried => row[k].attempts <= failures + faults + Cardinality(T)
  BY DEF AttemptsAccounted
<1>d. ASSUME /\ k \notin retried /\ row'[k].attempts = row[k].attempts
             /\ T' = T /\ failures' \in Nat /\ faults' \in Nat
             /\ failures <= failures' /\ faults <= faults'
      PROVE Goal
  BY <1>a, <1>b, <1>c, <1>d
<1> HIDE DEF T
<1>1. ASSUME NEW j \in Jobs, Enqueue(j) PROVE Goal
  <2>1. T' = T
    BY <1>1, EnqueueEffect DEF T, Trying, Holds
  <2>2. CASE j = k
    BY <1>1, <1>a, <1>b, <2>2, EnqueueEffect
  <2>3. CASE j # k
    BY <1>1, <1>b, <1>d, <2>1, <2>3, EnqueueEffect
  <2> QED
    BY <2>2, <2>3
<1>2. ASSUME NEW j \in Jobs, OperatorRetry(j) PROVE Goal
  <2>1. T' = T
    BY <1>2, RetryEffect DEF T, Trying, Holds
  <2>2. k \notin retried /\ j # k
    BY <1>2, RetryEffect
  <2> QED
    BY <1>2, <1>b, <1>d, <2>1, <2>2, RetryEffect
<1>3. ASSUME NEW w \in Workers, Claim(w) PROVE Goal
  <2>1. PICK j \in Jobs :
          /\ worker[w].pc = "idle"
          /\ row'[j].attempts = row[j].attempts + 1
          /\ \A i \in Jobs \ {j} : row'[i] = row[i]
          /\ worker'[w] = [pc |-> "dispatch", job |-> j,
                           attempts |-> row[j].attempts + 1,
                           outcome |-> "none"]
          /\ \A v \in Workers \ {w} : worker'[v] = worker[v]
          /\ UNCHANGED <<retried, faults, failures>>
    BY <1>3, ClaimEffect
  <2>2. w \notin T
    BY <1>b, <2>1 DEF T, Trying, Holds, ClaimsOK
  <2>3. CASE j = k
    <3>1. T' = T \cup {w}
      BY <2>1, <2>3 DEF T, Trying, Holds
    <3>2. Cardinality(T') = Cardinality(T) + 1
      BY <1>a, <2>2, <3>1, OneMoreWorker
    <3> QED
      BY <1>a, <1>b, <1>c, <2>1, <2>3, <3>2
  <2>4. CASE j # k
    <3>1. T' = T
      BY <2>1, <2>2, <2>4 DEF T, Trying, Holds
    <3> QED
      BY <1>b, <1>d, <2>1, <2>4, <3>1
  <2> QED
    BY <2>3, <2>4
<1>4. ASSUME NEW w \in Workers, Dispatch(w) PROVE Goal
  <2>1. k \notin retried /\ row' = row /\ faults' = faults
    BY <1>4, DispatchEffect
  <2>2. CASE worker'[w].outcome = "transient_failure"
    <3>1. failures' = failures + 1
      BY <1>4, <2>2, DispatchEffect
    <3>2. T' = T \ {w}
      BY <1>4, <2>2, DispatchEffect DEF T, Trying, Holds
    <3>3. Cardinality(T) <= Cardinality(T') + 1
      BY <1>a, <3>2, OneWorkerLess
    <3> QED
      BY <1>a, <1>b, <1>c, <2>1, <3>1, <3>3
  <2>3. CASE worker'[w].outcome # "transient_failure"
    <3>1. failures' = failures
      BY <1>4, <2>3, DispatchEffect
    <3>2. worker[w].outcome # "transient_failure"
      BY <1>4, DispatchEffect DEF ClaimsOK
    <3>3. T' = T
      BY <1>4, <2>3, <3>2, DispatchEffect DEF T, Trying, Holds
    <3> QED
      BY <1>b, <1>d, <2>1, <3>1, <3>3
  <2> QED
    BY <2>2, <2>3
<1>5. ASSUME NEW w \in Workers, Settle(w) PROVE Goal
  <2> DEFINE p == worker[w]
  <2>1. /\ k \notin retried /\ faults' = faults /\ failures' = failures
        /\ p.job \in Jobs /\ p.pc = "settle"
        /\ worker'[w] = Idle
        /\ \A v \in Workers \ {w} : worker'[v] = worker[v]
    BY <1>5, SettleEffect
  <2>2. CASE p.job # k
    <3>1. row'[k] = row[k]
      BY <1>5, <2>2, SettleEffect
    <3>2. T' = T
      BY <1>b, <2>1, <2>2 DEF T, Trying, Holds, Idle, Resting
    <3> QED
      BY <1>b, <1>d, <2>1, <3>1, <3>2
  <2>3. CASE p.job = k /\ (row[k].status = "none" \/ p.outcome = "success")
    <3>1. row'[k].attempts = 0
      BY <1>5, <2>3, SettleEffect DEF RowsOK
    <3> QED
      BY <1>a, <1>b, <2>1, <3>1
  <2>4. CASE p.job = k /\ row[k].status # "none" /\ p.outcome # "success"
    <3>1. row'[k].attempts = row[k].attempts
      BY <1>5, <2>4, SettleEffect
    <3>2. p.outcome = "transient_failure"
      BY <1>b, <2>1, <2>4 DEF ClaimsOK, TypeOK, Process, Outcome
    <3>3. T' = T
      BY <1>b, <2>1, <2>4, <3>2 DEF T, Trying, Holds, Idle, Resting
    <3> QED
      BY <1>b, <1>d, <2>1, <3>1, <3>3
  <2> QED
    BY <2>2, <2>3, <2>4
<1>6. ASSUME NEW w \in Workers, SettleFails(w) \/ Crash(w) \/ Restart(w)
      PROVE Goal
  <2>1. k \notin retried /\ row' = row /\ failures' = failures
    BY <1>6, RestEffect
  <2>2. T' = T \ {w}
    BY <1>6, <1>b, RestEffect DEF T, Trying, Holds, Idle, Down, Resting
  <2>3. CASE worker[w].pc = "down"
    <3>1. w \notin T
      BY <1>b, <2>3 DEF T, Trying, Holds, ClaimsOK
    <3>2. T' = T /\ faults' = faults
      BY <1>6, <2>2, <2>3, <3>1, RestEffect
    <3> QED
      BY <1>b, <1>d, <2>1, <3>2
  <2>4. CASE worker[w].pc # "down"
    <3>1. faults' = faults + 1
      BY <1>6, <2>4, RestEffect
    <3>2. Cardinality(T) <= Cardinality(T') + 1
      BY <1>a, <2>2, OneWorkerLess
    <3> QED
      BY <1>a, <1>b, <1>c, <2>1, <3>1, <3>2
  <2> QED
    BY <2>3, <2>4
<1>7. ASSUME Tick PROVE Goal
  <2>1. T' = T
    BY <1>7, TickEffect DEF T, Trying, Holds
  <2>2. /\ row'[k].attempts = row[k].attempts /\ k \notin retried
        /\ failures' = failures /\ faults' = faults
    BY <1>7, TickEffect
  <2> QED
    BY <1>b, <1>d, <2>1, <2>2
<1>8. ASSUME UNCHANGED vars PROVE Goal
  <2>1. T' = T
    BY <1>8 DEF T, Trying, Holds, vars
  <2>2. /\ row' = row /\ k \notin retried
        /\ failures' = failures /\ faults' = faults
    BY <1>8 DEF vars
  <2> QED
    BY <1>b, <1>d, <2>1, <2>2
<1> HIDE DEF Goal
<1>9. Goal
  BY <1>1, <1>2, <1>3, <1>4, <1>5, <1>6, <1>7, <1>8
  DEF Next, WorkerStep, Dispatch
<1> QED
  BY <1>9 DEF Goal, T

LEMMA EarnedNext == IInv /\ [Next]_vars => DeadIsEarned'
<1> SUFFICES ASSUME IInv, [Next]_vars,
                    NEW k \in Jobs, k \notin retried', k \notin Malformed,
                    row'[k].status = "dead"
             PROVE  MaxAttempts < failures' + faults' + Cardinality(Workers)
  BY DEF DeadIsEarned
<1> DEFINE Goal == MaxAttempts < failures' + faults' + Cardinality(Workers)
<1> USE DEF IInv
<1>a. /\ failures \in Nat /\ faults \in Nat /\ row[k].attempts \in Nat
      /\ MaxAttempts \in Nat /\ Cardinality(Workers) \in Nat
      /\ k # NoJob
  BY JobsAssumption, AttemptsAssumption, SomeWorkers DEF TypeOK, Row
<1>b. ASSUME /\ k \notin retried /\ row[k].status = "dead"
             /\ failures' \in Nat /\ faults' \in Nat
             /\ failures <= failures' /\ faults <= faults'
      PROVE Goal
  BY <1>a, <1>b DEF DeadIsEarned
<1>1. ASSUME NEW j \in Jobs, Enqueue(j) PROVE Goal
  BY <1>1, <1>a, <1>b, EnqueueEffect
<1>2. ASSUME NEW j \in Jobs, OperatorRetry(j) PROVE Goal
  BY <1>2, <1>a, <1>b, RetryEffect
<1>3. ASSUME NEW w \in Workers, Claim(w) PROVE Goal
  <2>1. PICK j \in Jobs :
          /\ row'[j].status = "picked"
          /\ \A i \in Jobs \ {j} : row'[i] = row[i]
          /\ UNCHANGED <<retried, faults, failures>>
    BY <1>3, ClaimEffect
  <2> QED
    BY <1>a, <1>b, <2>1
<1>4. ASSUME NEW w \in Workers, Dispatch(w) PROVE Goal
  BY <1>4, <1>a, <1>b, DispatchEffect
<1>5. ASSUME NEW w \in Workers, Settle(w) PROVE Goal
  <2> DEFINE p == worker[w]
  <2>1. /\ k \notin retried /\ faults' = faults /\ failures' = failures
        /\ p.job \in Jobs /\ p.pc = "settle"
    BY <1>5, SettleEffect
  <2>2. CASE p.job # k
    BY <1>5, <1>a, <1>b, <2>1, <2>2, SettleEffect
  <2>3. CASE p.job = k
    <3>1. /\ row[k].status # "none" /\ p.outcome # "success"
          /\ p.outcome = "permanent_failure" \/ p.attempts >= MaxAttempts
      BY <1>5, <2>3, SettleEffect
    <3>2. p.outcome = "transient_failure"
      BY <1>a, <2>1, <2>3, <3>1 DEF ClaimsOK, TypeOK, Process, Outcome
    <3>3. MaxAttempts <= row[k].attempts
      <4>1. p.attempts <= row[k].attempts
        BY <1>a, <2>1, <2>3, <3>1 DEF ClaimsOK
      <4>2. p.attempts \in Nat
        BY DEF TypeOK, Process
      <4> QED
        BY <1>a, <3>1, <3>2, <4>1, <4>2
    <3>4. row[k].attempts <= failures + faults + Cardinality(Trying(k))
      BY <2>1 DEF AttemptsAccounted
    <3>5. Trying(k) \subseteq Workers \ {w}
      BY <3>2 DEF Trying
    <3>6. Cardinality(Trying(k)) <= Cardinality(Workers \ {w})
      BY <3>5, SomeWorkers, FS_Subset
    <3>7. Cardinality(Workers \ {w}) = Cardinality(Workers) - 1
      BY OneWorkerLess
    <3>8. Cardinality(Trying(k)) \in Nat
      BY SomeWorkers DEF Trying
    <3> QED
      BY <1>a, <2>1, <3>3, <3>4, <3>6, <3>7, <3>8
  <2> QED
    BY <2>2, <2>3
<1>6. ASSUME NEW w \in Workers, SettleFails(w) \/ Crash(w) \/ Restart(w)
      PROVE Goal
  BY <1>6, <1>a, <1>b, RestEffect
<1>7. CASE Tick
  BY <1>7, <1>a, <1>b, TickEffect
<1>8. CASE UNCHANGED vars
  BY <1>8, <1>a, <1>b DEF vars
<1> QED
  BY <1>1, <1>2, <1>3, <1>4, <1>5, <1>6, <1>7, <1>8
  DEF Next, WorkerStep, Dispatch

LEMMA InitIInv == Init => IInv
<1> SUFFICES ASSUME Init PROVE IInv
  OBVIOUS
<1>1. TypeOK
  BY InitTypeOK
<1>2. ClaimsOK /\ RowsOK /\ NoWriteLost
  BY DEF Init, ClaimsOK, RowsOK, NoWriteLost, NoRow, Idle, Resting
<1>3. ClaimsAreNumbered /\ DeadIsEarned
  BY JobsAssumption
  DEF Init, ClaimsAreNumbered, DeadIsEarned, Holds, NoRow, Idle, Resting
<1>4. AttemptsAccounted
  <2>1. \A j \in Jobs : Cardinality(Trying(j)) \in Nat
    BY SomeWorkers DEF Trying
  <2> QED
    BY <2>1 DEF Init, AttemptsAccounted, NoRow
<1> QED
  BY <1>1, <1>2, <1>3, <1>4 DEF IInv

-----------------------------------------------------------------------------

\* The inductive invariant holds in every reachable state.
THEOREM InductiveInvariant == Spec => []IInv
<1>1. IInv /\ [Next]_vars => IInv'
  BY NextTypeOK, ClaimsOKNext, RowsOKNext, NumberedNext, AccountedNext,
     EarnedNext DEF IInv
<1> QED
  BY InitIInv, <1>1, PTL DEF Spec

\* Type correctness of the table and of the workers.
THEOREM TypeCorrect == Spec => []TypeOK
<1>1. IInv => TypeOK
  BY DEF IInv
<1> QED
  BY <1>1, InductiveInvariant, PTL

\* A write whose enqueue returned is in the table or in its destination,
\* whatever workers crash, stall past their lease or race (worker.ts, "Crash
\* safety").
THEOREM WritesAreNeverLost == Spec => []NoWriteLost
<1>1. IInv => NoWriteLost
  BY DEF IInv
<1> QED
  BY <1>1, InductiveInvariant, PTL

\* No two workers ever hold the same attempt of a row that no operator reset.
THEOREM ClaimNumbering == Spec => []ClaimsAreNumbered
<1>1. IInv => ClaimsAreNumbered
  BY DEF IInv
<1> QED
  BY <1>1, InductiveInvariant, PTL

\* A row's attempts are all accounted for, and a well-formed write is given up
\* only after MaxAttempts - (n - 1) failures and faults with n workers.
THEOREM GivingUpIsEarned == Spec => [](AttemptsAccounted /\ DeadIsEarned)
<1>1. IInv => AttemptsAccounted /\ DeadIsEarned
  BY DEF IInv
<1> QED
  BY <1>1, InductiveInvariant, PTL

-----------------------------------------------------------------------------
(* The table implements DurableWrite.                                       *)

LEMMA InitRefines == Init => DW!Init
BY DEF Init, DW!Init, writeState, WriteState

LEMMA OneWriteChanges ==
    ASSUME NEW j \in Jobs, \A k \in Jobs \ {j} : WriteState(k)' = WriteState(k)
    PROVE  /\ writeState' = [writeState EXCEPT ![j] = WriteState(j)']
           /\ WriteState(j)' = WriteState(j) => writeState' = writeState
           /\ writeState[j] = WriteState(j)
BY DEF writeState

LEMMA NoWriteChanges ==
    ASSUME \A k \in Jobs : WriteState(k)' = WriteState(k)
    PROVE  writeState' = writeState
BY DEF writeState

LEMMA NextRefines ==
    IInv /\ TypeOK' /\ [Next]_vars => [DW!Next]_<<writeState, landed>>
<1> SUFFICES ASSUME IInv, TypeOK', [Next]_vars
             PROVE  DW!Next \/ UNCHANGED <<writeState, landed>>
  BY Zenon
<1> USE DEF IInv
<1>1. ASSUME NEW j \in Jobs, Enqueue(j) PROVE DW!Next
  <2>1. WriteState(j) = "new" /\ WriteState(j)' = "open"
    BY <1>1, EnqueueEffect DEF WriteState
  <2>2. \A k \in Jobs \ {j} : WriteState(k)' = WriteState(k)
    BY <1>1, EnqueueEffect DEF WriteState
  <2>3. DW!Accept(j)
    BY <1>1, <2>1, <2>2, EnqueueEffect, OneWriteChanges
    DEF DW!Accept, DW!Becomes
  <2> QED
    BY <2>3 DEF DW!Next
<1>2. ASSUME NEW j \in Jobs, OperatorRetry(j) PROVE DW!Next
  <2>1. WriteState(j) = "dead" /\ WriteState(j)' = "open"
    BY <1>2, RetryEffect DEF WriteState, RowsOK
  <2>2. \A k \in Jobs \ {j} : WriteState(k)' = WriteState(k)
    BY <1>2, RetryEffect DEF WriteState
  <2>3. DW!Reopen(j)
    BY <1>2, <2>1, <2>2, RetryEffect, OneWriteChanges
    DEF DW!Reopen, DW!Becomes
  <2> QED
    BY <2>3 DEF DW!Next
<1>3. ASSUME NEW w \in Workers, Claim(w)
      PROVE  UNCHANGED <<writeState, landed>>
  <2>1. PICK j \in Jobs :
          /\ row[j].status \in {"pending", "picked"}
          /\ row'[j].status = "picked"
          /\ \A k \in Jobs \ {j} : row'[k] = row[k]
          /\ UNCHANGED <<enqueued, landed>>
    BY <1>3, ClaimEffect
  <2>2. \A k \in Jobs : WriteState(k)' = WriteState(k)
    BY <2>1 DEF WriteState
  <2> QED
    BY <2>1, <2>2, NoWriteChanges
<1>4. ASSUME NEW w \in Workers, Dispatch(w)
      PROVE  DW!Next \/ UNCHANGED <<writeState, landed>>
  <2> DEFINE j == worker[w].job
  <2>1. \A k \in Jobs : WriteState(k)' = WriteState(k)
    BY <1>4, DispatchEffect DEF WriteState
  <2>2. writeState' = writeState
    BY <2>1, NoWriteChanges
  <2>3. j \in Jobs /\ WriteState(j) # "new"
    BY <1>4, DispatchEffect, BusyWorker, JobsAssumption
    DEF ClaimsOK, WriteState
  <2>4. landed' = landed \/ landed' = landed \cup {j}
    BY <1>4 DEF Dispatch, DispatchSucceeds, DispatchFails, DispatchRefuses
  <2>5. ASSUME landed' = landed \cup {j} PROVE DW!Deliver(j)
    BY <2>2, <2>3, <2>5 DEF DW!Deliver, writeState
  <2> QED
    BY <2>2, <2>3, <2>4, <2>5 DEF DW!Next
<1>5. ASSUME NEW w \in Workers, Settle(w)
      PROVE  DW!Next \/ UNCHANGED <<writeState, landed>>
  <2> DEFINE o == worker[w].outcome
  <2>j. PICK j \in Jobs : j = worker[w].job
    BY <1>5, SettleEffect
  <2>1. /\ j \in enqueued
        /\ o = "success" => j \in landed
        /\ UNCHANGED <<enqueued, landed>>
    BY <1>5, <2>j, SettleEffect, JobsAssumption DEF ClaimsOK
  <2>2. \A k \in Jobs \ {j} : WriteState(k)' = WriteState(k)
    BY <1>5, <2>j, SettleEffect DEF WriteState
  <2>3. CASE row[j].status = "none"
    <3>1. WriteState(j)' = WriteState(j)
      BY <1>5, <2>j, <2>1, <2>3, SettleEffect DEF WriteState
    <3> QED
      BY <2>1, <2>2, <3>1, OneWriteChanges
  <2>4. CASE row[j].status # "none" /\ o = "success"
    <3>1. WriteState(j) \in {"open", "dead"} /\ WriteState(j)' = "done"
      BY <1>5, <2>j, <2>1, <2>4, SettleEffect DEF WriteState, TypeOK, Row
    <3>2. DW!Complete(j)
      BY <2>1, <2>2, <2>4, <3>1, OneWriteChanges
      DEF DW!Complete, DW!Becomes
    <3> QED
      BY <2>1, <3>2 DEF DW!Next
  <2>5. CASE row[j].status # "none" /\ o # "success"
    <3>1. WriteState(j) \in {"open", "dead"} /\ WriteState(j)' \in {"open", "dead"}
      BY <1>5, <2>j, <2>1, <2>5, SettleEffect DEF WriteState, TypeOK, Row
    <3>2. CASE WriteState(j)' = WriteState(j)
      BY <2>1, <2>2, <3>2, OneWriteChanges
    <3>3. CASE WriteState(j) = "open" /\ WriteState(j)' = "dead"
      <4>1. DW!GiveUp(j)
        BY <2>1, <2>2, <3>3, OneWriteChanges DEF DW!GiveUp, DW!Becomes
      <4> QED
        BY <2>1, <4>1 DEF DW!Next
    <3>4. CASE WriteState(j) = "dead" /\ WriteState(j)' = "open"
      <4>1. DW!Reopen(j)
        BY <2>1, <2>2, <3>4, OneWriteChanges DEF DW!Reopen, DW!Becomes
      <4> QED
        BY <2>1, <4>1 DEF DW!Next
    <3> QED
      BY <3>1, <3>2, <3>3, <3>4
  <2> QED
    BY <2>3, <2>4, <2>5
<1>6. ASSUME NEW w \in Workers, SettleFails(w) \/ Crash(w) \/ Restart(w)
      PROVE  UNCHANGED <<writeState, landed>>
  <2>1. \A k \in Jobs : WriteState(k)' = WriteState(k)
    BY <1>6, RestEffect DEF WriteState
  <2> QED
    BY <1>6, <2>1, NoWriteChanges, RestEffect
<1>7. ASSUME Tick PROVE UNCHANGED <<writeState, landed>>
  <2>1. \A k \in Jobs : WriteState(k)' = WriteState(k)
    BY <1>7, TickEffect DEF WriteState
  <2> QED
    BY <1>7, <2>1, NoWriteChanges, TickEffect
<1>8. ASSUME UNCHANGED vars PROVE UNCHANGED <<writeState, landed>>
  BY <1>8 DEF vars, writeState, WriteState
<1> QED
  BY <1>1, <1>2, <1>3, <1>4, <1>5, <1>6, <1>7, <1>8
  DEF Next, WorkerStep, Dispatch

\* The outbox keeps the promise DurableWrite states: an accepted write is open
\* until delivered or dead, and leaves the table only when delivered.
THEOREM Refinement == Spec => ImplementsDurableWrite
<1>1. Init => DW!Init
  BY InitRefines
<1>2. IInv /\ IInv' /\ [Next]_vars => [DW!Next]_<<writeState, landed>>
  BY NextRefines DEF IInv
<1> QED
  BY <1>1, <1>2, InductiveInvariant, PTL
  DEF Spec, ImplementsDurableWrite, DW!Spec
=============================================================================
