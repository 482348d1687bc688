------------------------- MODULE SessionAuditProofs -------------------------
(* Proofs about SessionAudit, for any number of sessions and events.        *)
EXTENDS SessionAudit, TLAPS

-----------------------------------------------------------------------------
(* What a step may do to the runs table.                                    *)

Run == [id : Ids \cup {NoId}, status : Statuses]

\* A row has an id, and only a row has one.
RowHasId == \A s \in Sessions : HasRun(s) <=> runs[s].id # NoId

\* A row stays and keeps its id, unless a reset ends and meets it.
KeepsRuns ==
    /\ UNCHANGED resets
         => \A s \in Sessions : HasRun(s) => HasRun(s)' /\ runs'[s].id = runs[s].id
    /\ \A s \in Sessions :
         HasRun(s) => (HasRun(s)' /\ runs'[s].id = runs[s].id) \/ s \in wiped'

\* The statements that write the table, or an operator's cancelling.
RunsChange ==
    \/ /\ UNCHANGED cancelling
       /\ \/ UNCHANGED runs
          \/ \E s \in Sessions, i \in Ids : runs' = Inserted(s, i)
          \/ \E s \in Sessions : runs' = Completed(s)
          \/ \E S \in SUBSET Sessions, how \in {"abandoned", "cancelled"} :
                 runs' = Discarded(S, how)
          \/ /\ runs' = [s \in Sessions |-> NoRun] /\ wiped' = wiped \cup WithRun
             /\ resets' # resets
    \/ \E s \in Sessions :
          /\ runs[s].status = "in_progress" /\ UNCHANGED runs
          /\ cancelling' = [cancelling EXCEPT ![s] = runs[s].id]
    \/ \E s \in Sessions :
          /\ cancelling[s] # NoId /\ runs' = Cancelled(s, cancelling[s])
          /\ cancelling' = [cancelling EXCEPT ![s] = NoId]
          /\ runs[s].status = "completed" /\ runs' # runs => s \in overruled'

LEMMA StepChangesRuns == resets \in Nat /\ [Next]_vars => RunsChange
<1> SUFFICES ASSUME resets \in Nat, [Next]_vars PROVE RunsChange
  OBVIOUS
<1>0. resets \in Nat
  OBVIOUS
<1> USE DEF RunsChange, memory, admin, history
<1>1. ASSUME NEW s \in Sessions, SessionStart(s) PROVE RunsChange
  BY <1>1 DEF SessionStart
<1>2. ASSUME NEW s \in Sessions, ImplicitInsert(s) PROVE RunsChange
  BY <1>2, <1>0 DEF ImplicitInsert, Ids
<1>3. ASSUME NEW s \in Sessions, SessionEnd(s) PROVE RunsChange
  BY <1>3 DEF SessionEnd
<1>4. ASSUME NEW s \in Sessions, FlipAtEnd(s) PROVE RunsChange
  BY <1>4 DEF FlipAtEnd
<1>5. ASSUME NEW s \in Sessions, GetRunId(s) PROVE RunsChange
  BY <1>5, <1>0 DEF GetRunId, Ids
<1>6. ASSUME NEW s \in Sessions, SaveContextPack(s) PROVE RunsChange
  BY <1>6 DEF SaveContextPack
<1>7. ASSUME NEW e \in Events, ToolUse(e) PROVE RunsChange
  BY <1>7 DEF ToolUse
<1>8. ASSUME NEW e \in Events, EnqueueEvent(e) PROVE RunsChange
  BY <1>8 DEF EnqueueEvent
<1>9. ASSUME NEW s \in Sessions, DispatchOpen(s) PROVE RunsChange
  BY <1>9 DEF DispatchOpen, Explicit, Ids
<1>10. ASSUME NEW s \in Sessions, DispatchClose(s) PROVE RunsChange
  BY <1>10 DEF DispatchClose
<1>11. ASSUME NEW e \in Events, DispatchEvent(e) PROVE RunsChange
  BY <1>11 DEF DispatchEvent
<1>12. ASSUME NEW job \in queue, GiveUp(job) PROVE RunsChange
  BY <1>12 DEF GiveUp
<1>13. ASSUME NEW S \in SUBSET Sessions, Sweep(S) PROVE RunsChange
  BY <1>13 DEF Sweep
<1>14. CASE Crash
  BY <1>14 DEF Crash
<1>15. CASE UNCHANGED vars
  BY <1>15 DEF vars
<1>16. ASSUME NEW s \in Sessions, LookToCancel(s) PROVE RunsChange
  BY <1>16 DEF LookToCancel
<1>17. ASSUME NEW s \in Sessions, CancelRun(s) PROVE RunsChange
  BY <1>17 DEF CancelRun
<1>18. CASE ResetTrail
  BY <1>18 DEF ResetTrail
<1>19. CASE DeleteRuns
  BY <1>0, <1>19 DEF DeleteRuns
<1> QED
  BY <1>1, <1>2, <1>3, <1>4, <1>5, <1>6, <1>7, <1>8, <1>9, <1>10, <1>11, <1>12, <1>13,
     <1>14, <1>15, <1>16, <1>17, <1>18, <1>19 DEF Next, Dispatch

LEMMA RunsStep ==
    ASSUME runs \in [Sessions -> Run], RowHasId, RunsChange
    PROVE  runs' \in [Sessions -> Run] /\ RowHasId' /\ KeepsRuns
<1> USE NoIdAssumption DEF RowHasId, KeepsRuns, HasRun, Run, Statuses, NoRun
<1>1. ASSUME NEW s \in Sessions, NEW i \in Ids, runs' = Inserted(s, i)
      PROVE  runs' \in [Sessions -> Run] /\ RowHasId' /\ KeepsRuns
  <2>1. CASE HasRun(s)
    BY <1>1, <2>1 DEF Inserted
  <2>2. CASE ~ HasRun(s)
    <3>1. runs' = [runs EXCEPT ![s] = [id |-> i, status |-> "in_progress"]]
      BY <1>1, <2>2 DEF Inserted
    <3> QED
      BY <2>2, <3>1
  <2> QED
    BY <2>1, <2>2
<1>2. ASSUME NEW s \in Sessions, runs' = Completed(s)
      PROVE  runs' \in [Sessions -> Run] /\ RowHasId' /\ KeepsRuns
  BY <1>2 DEF Completed
<1>3. ASSUME NEW S \in SUBSET Sessions, NEW how \in {"abandoned", "cancelled"},
             runs' = Discarded(S, how)
      PROVE  runs' \in [Sessions -> Run] /\ RowHasId' /\ KeepsRuns
  BY <1>3 DEF Discarded
<1>4. CASE UNCHANGED runs
  BY <1>4
<1>5. CASE /\ runs' = [s \in Sessions |-> NoRun] /\ wiped' = wiped \cup WithRun
           /\ resets' # resets
  BY <1>5 DEF WithRun
<1>6. ASSUME NEW s \in Sessions, runs' = Cancelled(s, cancelling[s]), cancelling[s] # NoId
      PROVE  runs' \in [Sessions -> Run] /\ RowHasId' /\ KeepsRuns
  BY <1>6 DEF Cancelled
<1> QED
  BY <1>1, <1>2, <1>3, <1>4, <1>5, <1>6 DEF RunsChange

-----------------------------------------------------------------------------
(* The inductive invariant.                                                 *)

Exempt(s) == s \in started \cup failed \cup wiped

\* An opened session has its run, is getting it, or is exempt.
OpenedHasRun == \A s \in opened : HasRun(s) \/ s \in inflight \/ Exempt(s)

\* A job in the queue was accepted.
QueuedIsAccepted == \A e \in Events : EventJob(e) \in queue => event[e] = "accepted"

IInv ==
    /\ TypeOK
    /\ RowHasId
    /\ RunIdsAgree
    /\ OpenedHasRun
    /\ AcceptedHasRun
    /\ QueuedIsAccepted
    /\ UnlinkedIsExplained
    /\ EventsAccounted

LEMMA InitIInv == Init => IInv
<1> SUFFICES ASSUME Init PROVE IInv
  OBVIOUS
<1>1. NoRun \in Run
  BY DEF NoRun, Run, Statuses
<1>2. TypeOK
  BY <1>1 DEF Init, TypeOK, Run
<1>3. RowHasId
  BY DEF Init, RowHasId, HasRun, NoRun
<1>4. RunIdsAgree /\ UnlinkedIsExplained
  BY NoIdAssumption DEF Init, RunIdsAgree, UnlinkedIsExplained
<1>5. OpenedHasRun /\ AcceptedHasRun /\ QueuedIsAccepted /\ EventsAccounted
  BY DEF Init, OpenedHasRun, AcceptedHasRun, QueuedIsAccepted, EventsAccounted
<1> QED
  BY <1>2, <1>3, <1>4, <1>5 DEF IInv

\* Nothing takes an exemption back.
Advances ==
    /\ troubles' \in Nat
    /\ started \subseteq started' /\ started' \subseteq Sessions
    /\ failed \subseteq failed' /\ failed' \subseteq Sessions
    /\ wiped \subseteq wiped' /\ wiped' \subseteq Sessions
    /\ resets' \in Nat

LEMMA StepAdvances == TypeOK /\ [Next]_vars => Advances
<1> SUFFICES ASSUME TypeOK, [Next]_vars PROVE Advances
  OBVIOUS
<1> USE DEF Advances, TypeOK, memory, admin, history, Trouble, Enqueued, Dropped, Done,
            WithRun
<1>1. ASSUME NEW s \in Sessions, SessionStart(s) PROVE Advances
  BY <1>1 DEF SessionStart
<1>2. ASSUME NEW s \in Sessions, ImplicitInsert(s) PROVE Advances
  BY <1>2 DEF ImplicitInsert
<1>3. ASSUME NEW s \in Sessions, SessionEnd(s) PROVE Advances
  BY <1>3 DEF SessionEnd
<1>4. ASSUME NEW s \in Sessions, FlipAtEnd(s) PROVE Advances
  BY <1>4 DEF FlipAtEnd
<1>5. ASSUME NEW s \in Sessions, GetRunId(s) PROVE Advances
  BY <1>5 DEF GetRunId
<1>6. ASSUME NEW s \in Sessions, SaveContextPack(s) PROVE Advances
  BY <1>6 DEF SaveContextPack
<1>7. ASSUME NEW e \in Events, ToolUse(e) PROVE Advances
  BY <1>7 DEF ToolUse
<1>8. ASSUME NEW e \in Events, EnqueueEvent(e) PROVE Advances
  BY <1>8 DEF EnqueueEvent
<1>9. ASSUME NEW s \in Sessions, DispatchOpen(s) PROVE Advances
  BY <1>9 DEF DispatchOpen
<1>10. ASSUME NEW s \in Sessions, DispatchClose(s) PROVE Advances
  BY <1>10 DEF DispatchClose
<1>11. ASSUME NEW e \in Events, DispatchEvent(e) PROVE Advances
  BY <1>11, SessionAssumption DEF DispatchEvent
<1>12. ASSUME NEW job \in queue, GiveUp(job) PROVE Advances
  BY <1>12 DEF GiveUp
<1>13. ASSUME NEW S \in SUBSET Sessions, Sweep(S) PROVE Advances
  BY <1>13 DEF Sweep
<1>14. CASE Crash
  BY <1>14 DEF Crash
<1>15. CASE UNCHANGED vars
  BY <1>15 DEF vars
<1>16. ASSUME NEW s \in Sessions, LookToCancel(s) PROVE Advances
  BY <1>16 DEF LookToCancel
<1>17. ASSUME NEW s \in Sessions, CancelRun(s) PROVE Advances
  BY <1>17 DEF CancelRun
<1>18. CASE ResetTrail
  BY <1>18 DEF ResetTrail
<1>19. CASE DeleteRuns
  BY <1>19 DEF DeleteRuns
<1> QED
  BY <1>1, <1>2, <1>3, <1>4, <1>5, <1>6, <1>7, <1>8, <1>9, <1>10, <1>11, <1>12, <1>13,
     <1>14, <1>15, <1>16, <1>17, <1>18, <1>19 DEF Next, Dispatch

LEMMA RecordedStays ==
    ASSUME TypeOK, NEW e \in Events, NEW i \in Ids \cup {NoId}, rows' = RowWritten(e, i)
    PROVE  /\ rows' \in [Events -> Ids \cup {Missing, NoId}]
           /\ \A f \in Events : rows'[f] = rows[f] \/ (f = e /\ rows'[f] = i)
           /\ Recorded(e)' /\ \A f \in Events : Recorded(f) => Recorded(f)'
<1>1. e \in SameRow(e)
  BY DEF SameRow
<1>2. rows \in [Events -> Ids \cup {Missing, NoId}]
  BY DEF TypeOK
<1>3. i # Missing
  BY NoIdAssumption
<1>4. CASE Recorded(e)
  BY <1>2, <1>4 DEF RowWritten, Recorded
<1>5. CASE ~ Recorded(e)
  <2>1. rows' = [rows EXCEPT ![e] = i]
    BY <1>5 DEF RowWritten
  <2>2. \A f \in SameRow(e) : rows[f] = Missing
    BY <1>5 DEF Recorded
  <2>3. \A f \in Events : rows[f] # Missing => rows'[f] # Missing
    BY <1>2, <1>3, <2>1
  <2>4. Recorded(e)'
    BY <1>1, <1>2, <1>3, <2>1 DEF Recorded
  <2>5. \A f \in Events : SameRow(f) \subseteq Events
    BY DEF SameRow
  <2> QED
    BY <1>2, <2>1, <2>3, <2>4, <2>5 DEF Recorded
<1> QED
  BY <1>4, <1>5

LEMMA NextIInv == IInv /\ [Next]_vars => IInv'
<1> SUFFICES ASSUME IInv, [Next]_vars PROVE IInv'
  OBVIOUS
<1>1. Advances
  BY StepAdvances DEF IInv
<1>2. runs' \in [Sessions -> Run] /\ RowHasId' /\ KeepsRuns
  <2>1. runs \in [Sessions -> Run]
    BY DEF IInv, TypeOK, Run
  <2> QED
    BY <2>1, StepChangesRuns, RunsStep DEF IInv, TypeOK
<1> DEFINE I == /\ TypeOK /\ RunIdsAgree /\ OpenedHasRun /\ AcceptedHasRun
                /\ QueuedIsAccepted /\ UnlinkedIsExplained /\ EventsAccounted
<1>0. UNCHANGED rows => \A e \in Events : Recorded(e)' = Recorded(e)
  BY DEF Recorded
<1> USE <1>0, <1>1, <1>2, SessionAssumption, NoIdAssumption
    DEF Advances, KeepsRuns, Run, IInv, TypeOK, RowHasId, RunIdsAgree,
        OpenedHasRun, AcceptedHasRun, QueuedIsAccepted, UnlinkedIsExplained,
        EventsAccounted, Exempt, HasRun, memory, admin, history,
        Job, OpenJob, CloseJob, EventJob
<1>3. ASSUME NEW s \in Sessions, SessionStart(s) PROVE I'
  BY <1>3, SMTT(60) DEF SessionStart, Enqueued, Dropped, Trouble
<1>4. ASSUME NEW s \in Sessions, ImplicitInsert(s) PROVE I'
  BY <1>4, SMTT(60) DEF ImplicitInsert, Released, Trouble, Inserted, Ids
<1>5. ASSUME NEW s \in Sessions, SessionEnd(s) PROVE I'
  BY <1>5, SMTT(60) DEF SessionEnd, Enqueued, Dropped, Trouble
<1>6. ASSUME NEW s \in Sessions, FlipAtEnd(s) PROVE I'
  BY <1>6, SMTT(60) DEF FlipAtEnd
<1>7. ASSUME NEW s \in Sessions, GetRunId(s) PROVE I'
  BY <1>7, SMTT(60) DEF GetRunId, Inserted
<1>8. ASSUME NEW s \in Sessions, SaveContextPack(s) PROVE I'
  BY <1>8, SMTT(60) DEF SaveContextPack
<1>9. ASSUME NEW e \in Events, ToolUse(e) PROVE I'
  BY <1>9, SMTT(60) DEF ToolUse, Held
<1>10. ASSUME NEW e \in Events, EnqueueEvent(e) PROVE I'
  BY <1>10, SMTT(60) DEF EnqueueEvent, Enqueued, Dropped, Trouble
<1>11. ASSUME NEW s \in Sessions, DispatchOpen(s) PROVE I'
  BY <1>11, SMTT(60) DEF DispatchOpen, Done, Trouble
<1>12. ASSUME NEW s \in Sessions, DispatchClose(s) PROVE I'
  BY <1>12, SMTT(60) DEF DispatchClose, Done, Trouble
<1>13. ASSUME NEW e \in Events, DispatchEvent(e) PROVE I'
  <2> DEFINE t == SessionOf[e]
  <2>1. /\ UNCHANGED <<session, runs, handed, opened, inflight, closing, event,
                       cancelling, resetting, resets, wiped, overruled, started, givenUp>>
        /\ EventJob(e) \in queue
        /\ queue' \subseteq queue
    BY <1>13 DEF DispatchEvent, Done, Trouble
  <2>2. t \in Sessions /\ (HasRun(t) \/ Exempt(t)')
    BY <2>1
  <2>3. PICK i \in {Link(t), NoId} :
          /\ rows' = RowWritten(e, i)
          /\ i = NoId => Exempt(t)'
          /\ queue' = queue \/ queue' = queue \ {EventJob(e)}
    <3>1. CASE /\ rows' = RowWritten(e, Link(t))
               /\ Done(EventJob(e)) /\ UNCHANGED failed
      <4>1. Link(t) = NoId => Exempt(t)'
        BY <2>2 DEF Link
      <4> QED
        BY <3>1, <4>1 DEF Done
    <3>2. CASE /\ rows' = RowWritten(e, NoId)
               /\ queue' = queue \ {EventJob(e)}
               /\ Trouble /\ failed' = failed \cup {SessionOf[e]}
      <4>1. Exempt(t)'
        BY <3>2
      <4> QED
        BY <3>2, <4>1
    <3> QED
      BY <1>13, <3>1, <3>2 DEF DispatchEvent
  <2>4. i \in Ids \cup {NoId} /\ (i \in Ids => i = runs[t].id)
    BY <2>2, <2>3 DEF Link
  <2>5. /\ rows' \in [Events -> Ids \cup {Missing, NoId}]
        /\ \A f \in Events : rows'[f] = rows[f] \/ (f = e /\ rows'[f] = i)
        /\ Recorded(e)' /\ \A f \in Events : Recorded(f) => Recorded(f)'
    BY <2>3, <2>4, RecordedStays
  <2>6. TypeOK'
    BY <2>1, <2>3, <2>5
  <2>7. RunIdsAgree'
    BY <2>1, <2>2, <2>4, <2>5
  <2>8. OpenedHasRun' /\ AcceptedHasRun' /\ QueuedIsAccepted'
    BY <2>1
  <2>9. UnlinkedIsExplained'
    BY <2>1, <2>2, <2>3, <2>5
  <2>10. EventsAccounted'
    BY <2>1, <2>3, <2>5
  <2> QED
    BY <2>6, <2>7, <2>8, <2>9, <2>10, Zenon
<1>14. ASSUME NEW job \in queue, GiveUp(job) PROVE I'
  BY <1>14, SMTT(60) DEF GiveUp, Trouble
<1>15. ASSUME NEW S \in SUBSET Sessions, Sweep(S) PROVE I'
  BY <1>15, SMTT(60) DEF Sweep
<1>16. CASE Crash
  BY <1>16, SMTT(60) DEF Crash, Trouble
<1>17. CASE UNCHANGED vars
  BY <1>17 DEF vars
<1>18. ASSUME NEW s \in Sessions, LookToCancel(s) PROVE I'
  BY <1>18, SMTT(60) DEF LookToCancel, Trouble
<1>19. ASSUME NEW s \in Sessions, CancelRun(s) PROVE I'
  BY <1>19, SMTT(60) DEF CancelRun, Cancelled
<1>r. \A e, f \in Events : f \in SameRow(e) => SessionOf[f] = SessionOf[e]
  BY DEF SameRow, RowId
<1>20. CASE ResetTrail
  <2>1. /\ UNCHANGED <<session, runs, handed, opened, inflight, closing, event, queue,
                       cancelling, resets, overruled, started, failed, givenUp>>
        /\ rows' = [e \in Events |-> IF rows[e] = NoId THEN NoId ELSE Missing]
        /\ resetting' = TRUE /\ wiped' = wiped \cup WithRun
    BY <1>20 DEF ResetTrail
  <2>2. \A e \in Events : rows[e] \in Ids => SessionOf[e] \in wiped'
    BY <2>1 DEF WithRun
  <2>3. TypeOK'
    BY <2>1
  <2>4. RunIdsAgree' /\ OpenedHasRun' /\ AcceptedHasRun' /\ QueuedIsAccepted'
    BY <2>1
  <2>5. UnlinkedIsExplained'
    BY <2>1
  <2>6. ASSUME NEW e \in Events, Recorded(e) PROVE Recorded(e)' \/ SessionOf[e] \in wiped'
    <3>1. PICK f \in SameRow(e) : rows[f] # Missing
      BY <2>6 DEF Recorded
    <3>2. f \in Events /\ SessionOf[f] = SessionOf[e]
      BY <1>r, <3>1 DEF SameRow
    <3>3. CASE rows[f] = NoId
      BY <2>1, <3>1, <3>2, <3>3 DEF Recorded
    <3>4. CASE rows[f] \in Ids
      BY <2>2, <3>2, <3>4
    <3> QED
      BY <3>1, <3>2, <3>3, <3>4
  <2>7. EventsAccounted'
    BY <2>1, <2>6
  <2> QED
    BY <2>3, <2>4, <2>5, <2>7, Zenon
<1>21. CASE DeleteRuns
  <2>1. /\ UNCHANGED <<session, handed, opened, inflight, closing, event, queue,
                       cancelling, overruled, started, failed, givenUp>>
        /\ resetting' = FALSE
    BY <1>21 DEF DeleteRuns
  <2>2. CASE UNCHANGED <<runs, rows, wiped, resets>>
    <3>1. \A e \in Events : Recorded(e)' = Recorded(e)
      BY <2>2
    <3>2. TypeOK'
      BY <2>1, <2>2
    <3>3. RunIdsAgree' /\ OpenedHasRun' /\ AcceptedHasRun' /\ QueuedIsAccepted'
      BY <2>1, <2>2
    <3>4. UnlinkedIsExplained' /\ EventsAccounted'
      BY <2>1, <2>2, <3>1
    <3> QED
      BY <3>2, <3>3, <3>4, Zenon
  <2>3. CASE /\ runs' = [s \in Sessions |-> NoRun]
             /\ rows' = [e \in Events |-> IF rows[e] = Missing THEN Missing ELSE NoId]
             /\ wiped' = wiped \cup WithRun
    <3>1. \A s \in Sessions : HasRun(s) => s \in wiped'
      BY <2>3 DEF WithRun
    <3>2. TypeOK'
      BY <2>1, <2>3
    <3>3. \A s \in Sessions : handed[s] # NoId => s \in wiped'
      BY <2>3, <3>1
    <3>4. RunIdsAgree'
      BY <2>1, <2>3, <3>3
    <3>5. OpenedHasRun' /\ AcceptedHasRun' /\ QueuedIsAccepted'
      BY <2>1, <2>3, <3>1
    <3>6. UnlinkedIsExplained'
      BY <2>1, <2>3, <3>1
    <3>7. \A e \in Events : Recorded(e)' = Recorded(e)
      BY <2>3 DEF Recorded, SameRow
    <3>8. EventsAccounted'
      BY <2>1, <2>3, <3>7
    <3> QED
      BY <3>2, <3>4, <3>5, <3>6, <3>8, Zenon
  <2> QED
    BY <1>21, <2>2, <2>3 DEF DeleteRuns
<1> QED
  BY <1>3, <1>4, <1>5, <1>6, <1>7, <1>8, <1>9, <1>10, <1>11, <1>12, <1>13, <1>14,
     <1>15, <1>16, <1>17, <1>18, <1>19, <1>20, <1>21 DEF Next, Dispatch

-----------------------------------------------------------------------------
(* The theorems.                                                            *)

\* What holds of the queue, the tables and the bridge's memory together.
THEOREM InductiveInvariant == Spec => []IInv
<1>1. Init => IInv
  BY InitIInv
<1>2. IInv /\ [Next]_vars => IInv'
  BY NextIInv
<1> QED
  BY <1>1, <1>2, PTL DEF Spec

\* The tables and the bridge's memory keep their shapes.
THEOREM TypeCorrect == Spec => []TypeOK
<1>1. IInv => TypeOK
  BY DEF IInv
<1> QED
  BY <1>1, InductiveInvariant, PTL

\* Whoever wins the race to open a run, every link leads to the row there is.
THEOREM OneRunForAll == Spec => []RunIdsAgree
<1>1. IInv => RunIdsAgree
  BY DEF IInv
<1> QED
  BY <1>1, InductiveInvariant, PTL

\* The wait of enqueueRunEvent is enough: without a failure, an event of an
\* implicit session is linked.
THEOREM WaitingLinks == Spec => [](AcceptedHasRun /\ UnlinkedIsExplained)
<1>1. IInv => AcceptedHasRun /\ UnlinkedIsExplained
  BY DEF IInv
<1> QED
  BY <1>1, InductiveInvariant, PTL

\* An accepted event waits, is given up or deleted with its session, or there is a
\* row of its id.
THEOREM EventsAreAccountedFor == Spec => []EventsAccounted
<1>1. IInv => EventsAccounted
  BY DEF IInv
<1> QED
  BY <1>1, InductiveInvariant, PTL

LEMMA InitRefines == Init => RL!Init
BY DEF Init, RL!Init, runId, runStatus, NoRun

\* The columns of the table after a write to one row.
LEMMA RowColumns ==
    ASSUME runs \in [Sessions -> Run], NEW s \in Sessions, NEW r \in Run,
           runs' = [runs EXCEPT ![s] = r]
    PROVE  /\ runId' = [runId EXCEPT ![s] = r.id]
           /\ runStatus' = [runStatus EXCEPT ![s] = r.status]
<1>1. \A t \in Sessions : runs'[t] = IF t = s THEN r ELSE runs[t]
  OBVIOUS
<1> QED
  BY <1>1 DEF runId, runStatus

\* ... to its status alone.
LEMMA StatusColumn ==
    ASSUME runs \in [Sessions -> Run], NEW s \in Sessions, NEW how,
           runs' = [runs EXCEPT ![s].status = how]
    PROVE  runId' = runId /\ runStatus' = [runStatus EXCEPT ![s] = how]
<1>1. \A t \in Sessions :
        /\ runs'[t].id = runs[t].id
        /\ runs'[t].status = IF t = s THEN how ELSE runs[t].status
  BY DEF Run
<1> QED
  BY <1>1 DEF runId, runStatus

LEMMA StepRefines ==
    ASSUME TypeOK, RowHasId, RunsChange
    PROVE  [RL!Next]_<<runId, runStatus, cancelling>>
<1> DEFINE rlVars == <<runId, runStatus, cancelling>>
<1>0. runs \in [Sessions -> Run] /\ cancelling \in [Sessions -> Ids \cup {NoId}]
  BY DEF TypeOK, Run
<1>c. \A s \in Sessions : runId[s] = runs[s].id /\ runStatus[s] = runs[s].status
  BY DEF runId, runStatus
<1>1. ASSUME NEW s \in Sessions, NEW i \in Ids, runs' = Inserted(s, i), UNCHANGED cancelling
      PROVE  RL!Open(s, runId'[s]) \/ UNCHANGED rlVars
  <2>1. CASE HasRun(s)
    BY <1>1, <2>1 DEF Inserted, runId, runStatus
  <2>2. CASE ~ HasRun(s)
    <3>1. runs' = [runs EXCEPT ![s] = [id |-> i, status |-> "in_progress"]]
      BY <1>1, <2>2 DEF Inserted
    <3>2. [id |-> i, status |-> "in_progress"] \in Run
      BY DEF Run, Statuses
    <3>3. /\ runId' = [runId EXCEPT ![s] = i]
          /\ runStatus' = [runStatus EXCEPT ![s] = "in_progress"]
      BY <1>0, <3>1, <3>2, RowColumns
    <3>4. runId'[s] = i
      BY <3>3 DEF runId
    <3> QED
      BY <1>1, <1>c, <2>2, <3>3, <3>4 DEF RL!Open, HasRun
  <2> QED
    BY <2>1, <2>2
<1>2. ASSUME NEW s \in Sessions, runs' = Completed(s), UNCHANGED cancelling
      PROVE  RL!Complete(s) \/ UNCHANGED rlVars
  <2>1. CASE HasRun(s)
    <3>1. runs' = [runs EXCEPT ![s].status = "completed"]
      BY <1>2, <2>1 DEF Completed
    <3> QED
      BY <1>0, <1>2, <1>c, <2>1, <3>1, StatusColumn DEF RL!Complete, HasRun
  <2>2. CASE ~ HasRun(s)
    BY <1>2, <2>2 DEF Completed, runId, runStatus
  <2> QED
    BY <2>1, <2>2
<1>3. ASSUME NEW S \in SUBSET Sessions, NEW how \in {"abandoned", "cancelled"},
             runs' = Discarded(S, how), UNCHANGED cancelling
      PROVE  RL!Discard({s \in S : runs[s].status = "in_progress"}, how)
  <2> DEFINE T == {s \in S : runs[s].status = "in_progress"}
  <2>1. \A s \in Sessions :
          /\ runs'[s].id = runs[s].id
          /\ runs'[s].status = IF s \in T THEN how ELSE runs[s].status
    BY <1>0, <1>3 DEF Discarded, Run
  <2>2. /\ runId' = runId
        /\ runStatus' = [s \in Sessions |-> IF s \in T THEN how ELSE runStatus[s]]
    BY <1>c, <2>1 DEF runId, runStatus
  <2>3. \A s \in T : runStatus[s] = "in_progress"
    BY <1>c
  <2> QED
    BY <1>3, <2>2, <2>3 DEF RL!Discard
<1>4. CASE UNCHANGED <<runs, cancelling>>
  BY <1>4 DEF runId, runStatus
<1>5. ASSUME runs' = [s \in Sessions |-> NoRun], UNCHANGED cancelling PROVE RL!Reset
  <2>1. \A s \in Sessions : runs'[s].id = NoId /\ runs'[s].status = "none"
    BY <1>5 DEF NoRun
  <2>2. runId' = [s \in Sessions |-> NoId] /\ runStatus' = [s \in Sessions |-> "none"]
    BY <2>1 DEF runId, runStatus
  <2> QED
    BY <1>5, <2>2 DEF RL!Reset
<1>6. ASSUME NEW s \in Sessions, runs[s].status = "in_progress", UNCHANGED runs,
             cancelling' = [cancelling EXCEPT ![s] = runs[s].id]
      PROVE  RL!AskCancel(s)
  BY <1>6, <1>c DEF RL!AskCancel, runId, runStatus
<1>7. ASSUME NEW s \in Sessions, cancelling[s] # NoId, runs' = Cancelled(s, cancelling[s]),
             cancelling' = [cancelling EXCEPT ![s] = NoId]
      PROVE  RL!Cancel(s)
  <2>1. CASE runs[s].id = cancelling[s]
    <3>1. runs' = [runs EXCEPT ![s].status = "cancelled"]
      BY <1>7, <2>1 DEF Cancelled
    <3> QED
      BY <1>0, <1>7, <1>c, <2>1, <3>1, StatusColumn DEF RL!Cancel
  <2>2. CASE runs[s].id # cancelling[s]
    BY <1>7, <1>c, <2>2 DEF RL!Cancel, Cancelled, runId, runStatus
  <2> QED
    BY <2>1, <2>2
<1>8. \A s \in Sessions : RL!Open(s, runId'[s]) => RL!Next
  BY DEF RL!Next
<1>9. \A S \in SUBSET Sessions, how \in {"abandoned", "cancelled"} : RL!Discard(S, how) => RL!Next
  BY DEF RL!Next
<1>10. /\ RL!Reset => RL!Next
       /\ \A s \in Sessions : RL!Complete(s) \/ RL!AskCancel(s) \/ RL!Cancel(s) => RL!Next
  BY DEF RL!Next
<1>11. CASE /\ UNCHANGED cancelling
            /\ \/ UNCHANGED runs
               \/ \E s \in Sessions, i \in Ids : runs' = Inserted(s, i)
               \/ \E s \in Sessions : runs' = Completed(s)
               \/ \E S \in SUBSET Sessions, how \in {"abandoned", "cancelled"} :
                      runs' = Discarded(S, how)
               \/ runs' = [s \in Sessions |-> NoRun]
  <2>1. CASE \E S \in SUBSET Sessions, how \in {"abandoned", "cancelled"} :
                 runs' = Discarded(S, how)
    <3>1. PICK S \in SUBSET Sessions, how \in {"abandoned", "cancelled"} :
              runs' = Discarded(S, how)
      BY <2>1
    <3>2. {s \in S : runs[s].status = "in_progress"} \in SUBSET Sessions
      OBVIOUS
    <3> QED
      BY <1>3, <1>9, <1>11, <3>1, <3>2
  <2> QED
    BY <1>1, <1>2, <1>4, <1>5, <1>8, <1>10, <1>11, <2>1
<1> QED
  BY <1>6, <1>7, <1>10, <1>11 DEF RunsChange

\* A run is opened once and keeps its id; completed is final but for an operator,
\* whose cancel found it in progress or whose reset deletes it.
THEOREM Refinement == Spec => ImplementsRunLifecycle
<1>1. Init => RL!Init
  BY InitRefines
<1>2. IInv /\ [Next]_vars => [RL!Next]_<<runId, runStatus, cancelling>>
  <2> SUFFICES ASSUME IInv, [Next]_vars PROVE [RL!Next]_<<runId, runStatus, cancelling>>
    OBVIOUS
  <2>1. TypeOK /\ RowHasId /\ resets \in Nat
    BY DEF IInv, TypeOK
  <2> QED
    BY <2>1, StepChangesRuns, StepRefines
<1> QED
  BY <1>1, <1>2, InductiveInvariant, PTL
  DEF Spec, ImplementsRunLifecycle, RL!Spec
=============================================================================
