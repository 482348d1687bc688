--------------------------- MODULE RunRecordsProofs ---------------------------
(***************************************************************************)
(* Proofs about RunRecords, for any runs, calls, hooks, cancellations and   *)
(* failures.                                                                *)
(***************************************************************************)
EXTENDS RunRecords, TLAPS

-----------------------------------------------------------------------------
(* Types.                                                                   *)

Answers == Decides \cup (Words \ {"null", "global", "deleted"})
PackIds == {"none"} \cup Saves \cup Ends

\* A pack of the agent has its text.
Packs ==
    {p \in [id : Saves \cup Ends, src : {"auto", "agent"}, text : Saves \cup Ends,
            lists : SUBSET Decides] : p.src = "agent" => p.text \in Saves}

CallType == [pc : {"idle", "run", "look", "upgrade", "insert", "file", "complete", "select", "done"},
             run : Runs \cup {NoRun}, seen : PackIds, answer : Answers]
EndType == [pc : {"idle", "flip", "look", "read", "insert", "file", "done"},
            run : Runs \cup {NoRun}, told : SUBSET Decides, lists : SUBSET Decides, ok : BOOLEAN]
CancelType == [pc : {"idle", "look", "write", "done"}, run : Runs \cup {NoRun}, todo : SUBSET Runs]

Rows ==
    {"run", "run_event", "decision", "policy_decision", "context_pack"}
        \X (Runs \cup Events \cup Calls \cup Verdicts \cup PackIds)

ResetType ==
    [pc : {"idle", "verdicts", "ids", "trail", "packs", "runs", "rules", "project", "done"},
     keep : BOOLEAN, del : BOOLEAN, ids : SUBSET Runs, had : SUBSET Rows,
     answer : {"none", "reset", "deleted", "not_found", "error"}]

\* A call or a SessionEnd under way has a run; a row to upgrade has an id.
ActorsOK ==
    /\ call \in [Calls -> CallType]
    /\ \A c \in Calls : /\ call[c].pc # "idle" => call[c].run \in Runs
                        /\ call[c].pc = "upgrade" => call[c].seen # "none"
    /\ end \in [Ends -> EndType]
    /\ \A e \in Ends : end[e].pc # "idle" => end[e].run \in Runs
    /\ cancel \in [Cancels -> CancelType]
    /\ \A k \in Cancels : cancel[k].pc = "write" => cancel[k].run \in Runs
    /\ reset \in ResetType

\* The rows under the foreign keys.
RowsOK ==
    /\ run \in [Runs -> {"none", "in_progress", "completed", "cancelled", "gone"}]
    /\ pack \in [Runs -> Packs \cup {NoPack}]
    /\ dec \in [Decides -> {"none", "null"} \cup Runs]
    /\ evt \in [Events \cup Calls -> {"none", "null", "deleted"} \cup Runs]
    /\ \A r \in Runs : pack[r] # NoPack => Present(r)
    /\ \A d \in Decides : dec[d] \in Runs => Present(dec[d])
    /\ \A e \in Events \cup Calls : evt[e] \in Runs => Present(evt[e])

\* The rest of the tables.
RestOK ==
    /\ file \in [Runs -> PackIds]
    /\ queued \in [Events \cup Calls -> {NoRun} \cup Runs]
    /\ verdict \in [Verdicts -> {"none", "global", "deleted"} \cup Runs] /\ cites \subseteq Verdicts
    /\ {rules, project} \subseteq {"there", "gone"}

TypeInv == ActorsOK /\ RowsOK /\ RestOK

LEMMA TypeInvTypes == TypeInv => RecordsTypeOK
<1> SUFFICES ASSUME TypeInv PROVE RecordsTypeOK
  OBVIOUS
<1>1. DOMAIN evt = Events \cup Calls
  BY DEF TypeInv, RowsOK
<1>2. pack \in [Runs -> [id : {"none"} \cup Saves \cup Ends, src : {"none", "auto", "agent"},
                         text : {"none"} \cup Saves \cup Ends, lists : SUBSET Decides]]
  BY DEF TypeInv, RowsOK, Packs, NoPack
<1> QED
  BY <1>1, <1>2 DEF TypeInv, RowsOK, RestOK, RecordsTypeOK, PackIds

LEMMA InitTypeInv == Init => TypeInv
BY IdsAssumption
DEF Init, TypeInv, RowsOK, RestOK, ActorsOK, CallType, EndType, CancelType, ResetType, Answers, PackIds,
    NoPack, NoRun, Present, Calls, Words

-----------------------------------------------------------------------------
(* What a step does to the actors.                                          *)

\* A step of a call replaces its record.
LEMMA CallMoves ==
    ASSUME TypeInv, NEW c \in Calls, CallSteps(c)
    PROVE  /\ call' = [call EXCEPT ![c] = call'[c]] /\ call'[c] \in CallType
           /\ call'[c].run \in Runs
           /\ call'[c].pc = "upgrade" => call'[c].seen # "none"
           /\ call[c].pc # "done"
           /\ call[c].pc # "idle" => call'[c].run = call[c].run
<1> USE IdsAssumption DEF Answers, PackIds, Words
<1>1. call \in [Calls -> CallType] /\ call[c] \in CallType
  BY DEF TypeInv, ActorsOK
<1>2. call[c].pc # "idle" => call[c].run \in Runs
  BY DEF TypeInv, ActorsOK
<1>3. CASE \E r \in Runs : Call(c, r)
  BY <1>1, <1>3 DEF Call, CallType
<1>4. CASE FindRun(c)
  BY <1>1, <1>2, <1>4 DEF FindRun, Goes, Answer, CallType
<1>5. CASE CallFails(c)
  BY <1>1, <1>2, <1>5 DEF CallFails, Threw, CallType
<1>6. CASE LookForPack(c)
  <2>1. pack[call[c].run] \in Packs \cup {NoPack}
    BY <1>2, <1>6 DEF LookForPack, TypeInv, RowsOK
  <2>2. /\ pack[call[c].run].id \in PackIds
        /\ pack[call[c].run].src = "auto" => pack[call[c].run].id # "none"
    BY <2>1 DEF Packs, NoPack
  <2> HIDE DEF PackIds
  <2>3. call[c].run \in Runs /\ call[c].pc = "look"
    BY <1>2, <1>6 DEF LookForPack
  <2> QED
    BY <1>1, <1>6, <2>2, <2>3 DEF LookForPack, CallType
<1>7. CASE UpgradePack(c)
  BY <1>1, <1>2, <1>7 DEF UpgradePack, Goes, CallType
<1>8. CASE InsertPack(c)
  BY <1>1, <1>2, <1>8 DEF InsertPack, Goes, Threw, CallType
<1>9. CASE WritePackFile(c)
  BY <1>1, <1>2, <1>9 DEF WritePackFile, Goes, CallType
<1>10. CASE CompleteSaved(c)
  BY <1>1, <1>2, <1>10 DEF CompleteSaved, Answer, CallType
<1>11. CASE InsertDecision(c)
  BY <1>1, <1>2, <1>11 DEF InsertDecision, Threw, Goes, Answer, CallType
<1>12. CASE SelectDecision(c)
  BY <1>1, <1>2, <1>12 DEF SelectDecision, SameKey, Threw, Answer, CallType
<1> QED
  BY <1>3, <1>4, <1>5, <1>6, <1>7, <1>8, <1>9, <1>10, <1>11, <1>12 DEF CallSteps

\* So does a step of a SessionEnd.
LEMMA EndMoves ==
    ASSUME TypeInv, NEW e \in Ends, EndSteps(e)
    PROVE  /\ end' = [end EXCEPT ![e] = end'[e]] /\ end'[e] \in EndType
           /\ end'[e].run \in Runs
           /\ end[e].pc # "done" /\ end'[e].pc # "idle"
           /\ end[e].pc # "idle" => end'[e].run = end[e].run /\ end'[e].told = end[e].told
<1>1. end \in [Ends -> EndType] /\ end[e] \in EndType
  BY DEF TypeInv, ActorsOK
<1>2. end[e].pc # "idle" => end[e].run \in Runs
  BY DEF TypeInv, ActorsOK
<1>3. CASE \E r \in Runs : EndSession(e, r)
  <2>1. PICK r \in Runs : EndSession(e, r)
    BY <1>3
  <2>2. {call[d].answer : d \in Told(r)} \subseteq Decides
    BY DEF Told
  <2> QED
    BY <1>1, <2>1, <2>2 DEF EndSession, EndType
<1>4. CASE FlipRun(e)
  BY <1>1, <1>2, <1>4 DEF FlipRun, EndType
<1>5. CASE LookForAuto(e)
  BY <1>1, <1>2, <1>5 DEF LookForAuto, EndType
<1>6. CASE ReadTrail(e)
  BY <1>1, <1>2, <1>6 DEF ReadTrail, EndType
<1>7. CASE InsertAuto(e)
  BY <1>1, <1>2, <1>7 DEF InsertAuto, EndType
<1>8. CASE WriteAutoFile(e)
  BY <1>1, <1>2, <1>8 DEF WriteAutoFile, EndType
<1>9. CASE EndFails(e)
  BY <1>1, <1>2, <1>9 DEF EndFails, EndType
<1> QED
  BY <1>3, <1>4, <1>5, <1>6, <1>7, <1>8, <1>9 DEF EndSteps

CancelSteps(k) == CancelCommand(k) \/ CancelAllAction(k) \/ LookToCancel(k) \/ WriteCancelled(k)

LEMMA CancelMoves ==
    ASSUME TypeInv, NEW k \in Cancels, CancelSteps(k)
    PROVE  /\ cancel' = [cancel EXCEPT ![k] = cancel'[k]] /\ cancel'[k] \in CancelType
           /\ cancel'[k].pc = "write" => cancel'[k].run \in Runs
<1>1. cancel \in [Cancels -> CancelType] /\ cancel[k] \in CancelType
  BY DEF TypeInv, ActorsOK
<1>2. CASE CancelCommand(k) \/ CancelAllAction(k)
  BY <1>1, <1>2 DEF CancelCommand, CancelAllAction, Cancelling, CancelType, InProgress
<1>3. CASE LookToCancel(k)
  <2>1. CASE cancel[k].todo = {}
    BY <1>1, <1>3, <2>1 DEF LookToCancel, CancelType
  <2>2. CASE cancel[k].todo # {}
    <3>1. PICK r \in cancel[k].todo :
            cancel' = [cancel EXCEPT ![k].todo = @ \ {r}, ![k].run = r,
                                     ![k].pc = IF run[r] = "in_progress" THEN "write" ELSE "look"]
      BY <1>3, <2>2 DEF LookToCancel
    <3> QED
      BY <1>1, <3>1 DEF CancelType
  <2> QED
    BY <2>1, <2>2
<1>4. CASE WriteCancelled(k)
  BY <1>1, <1>4 DEF WriteCancelled, CancelType
<1> QED
  BY <1>2, <1>3, <1>4 DEF CancelSteps

LEMMA ExportIsRows == TypeInv => Export \in SUBSET Rows
<1> SUFFICES ASSUME TypeInv PROVE Export \in SUBSET Rows
  OBVIOUS
<1>1. DOMAIN evt = Events \cup Calls
  BY DEF TypeInv, RowsOK
<1>2. ASSUME NEW r \in Runs PROVE pack[r].id \in PackIds
  <2>1. pack[r] \in Packs \cup {NoPack}
    BY DEF TypeInv, RowsOK
  <2> QED
    BY <2>1 DEF Packs, NoPack, PackIds
<1> QED
  BY <1>1, <1>2 DEF Export, Rows, Calls

LEMMA ResetMoves ==
    ASSUME TypeInv, ResetSteps
    PROVE  reset' \in ResetType
<1>1. reset \in ResetType
  BY DEF TypeInv, ActorsOK
<1>2. CASE ResetCommand \/ DeleteAction
  <2>1. PICK keep, del \in BOOLEAN : StartReset(keep, del)
    BY <1>2 DEF ResetCommand, DeleteAction
  <2> QED
    BY <2>1, ExportIsRows DEF StartReset, ResetType
<1>3. CASE DeleteVerdicts \/ ReadRunIds \/ DeleteTrail \/ DeletePacks
  BY <1>1, <1>3 DEF DeleteVerdicts, ReadRunIds, DeleteTrail, DeletePacks, Then, ResetType
<1>4. CASE DeleteRuns
  BY <1>1, <1>4 DEF DeleteRuns, Fails, Then, ResetType
<1>5. CASE DeleteRules \/ DeleteProject
  BY <1>1, <1>5 DEF DeleteRules, DeleteProject, Fails, Then, ResetType
<1>6. CASE ResetFails
  BY <1>1, <1>6 DEF ResetFails, Fails, ResetType
<1> QED
  BY <1>2, <1>3, <1>4, <1>5, <1>6 DEF ResetSteps

TrailSteps ==
    \/ \E e \in Events \cup Calls : LandEvent(e) \/ \E r \in Runs : HookEvent(e, r)
    \/ \E v \in Verdicts : LandVerdict(v)

LEMMA NextSteps ==
    ASSUME [Next]_vars
    PROVE  \/ \E r \in Runs : OpenRun(r)
           \/ \E c \in Calls : CallSteps(c)
           \/ \E e \in Ends : EndSteps(e)
           \/ \E k \in Cancels : CancelSteps(k)
           \/ TrailSteps \/ ResetSteps \/ UNCHANGED vars
BY DEF Next, CancelSteps, TrailSteps

\* A step moves one actor.
LEMMA OneMoves ==
    /\ \A r \in Runs : OpenRun(r) => UNCHANGED <<call, end, cancel, reset>>
    /\ \A c \in Calls : CallSteps(c) => UNCHANGED <<end, cancel, reset>>
    /\ \A e \in Ends : EndSteps(e) => UNCHANGED <<call, cancel, reset>>
    /\ \A k \in Cancels : CancelSteps(k) => UNCHANGED <<call, end, reset>>
    /\ TrailSteps => UNCHANGED <<call, end, cancel, reset>>
    /\ ResetSteps => UNCHANGED <<call, end, cancel>>
<1> USE DEF trail, bounds
<1>1. ASSUME NEW r \in Runs, OpenRun(r) PROVE UNCHANGED <<call, end, cancel, reset>>
  BY <1>1 DEF OpenRun
<1>2. ASSUME NEW c \in Calls, CallSteps(c) PROVE UNCHANGED <<end, cancel, reset>>
  BY <1>2 DEF CallSteps, Call, FindRun, CallFails, LookForPack, UpgradePack, InsertPack, WritePackFile,
              CompleteSaved, InsertDecision, SelectDecision
<1>3. ASSUME NEW e \in Ends, EndSteps(e) PROVE UNCHANGED <<call, cancel, reset>>
  BY <1>3 DEF EndSteps, EndSession, FlipRun, LookForAuto, ReadTrail, InsertAuto, WriteAutoFile, EndFails
<1>4. ASSUME NEW k \in Cancels, CancelSteps(k) PROVE UNCHANGED <<call, end, reset>>
  BY <1>4 DEF CancelSteps, CancelCommand, CancelAllAction, Cancelling, LookToCancel, WriteCancelled
<1>5. ASSUME TrailSteps PROVE UNCHANGED <<call, end, cancel, reset>>
  BY <1>5 DEF TrailSteps, LandEvent, HookEvent, LandVerdict
<1>6. ASSUME ResetSteps PROVE UNCHANGED <<call, end, cancel>>
  BY <1>6 DEF ResetSteps, ResetCommand, DeleteAction, StartReset, DeleteVerdicts, ReadRunIds, DeleteTrail,
              DeletePacks, DeleteRuns, DeleteRules, DeleteProject, ResetFails
<1> QED
  BY <1>1, <1>2, <1>3, <1>4, <1>5, <1>6

LEMMA ActorsStay == TypeInv /\ [Next]_vars => ActorsOK'
<1> SUFFICES ASSUME TypeInv, [Next]_vars PROVE ActorsOK'
  OBVIOUS
<1>1. ActorsOK
  BY DEF TypeInv
<1>2. ASSUME NEW c \in Calls, CallSteps(c) PROVE ActorsOK'
  BY <1>1, <1>2, CallMoves, OneMoves DEF ActorsOK
<1>3. ASSUME NEW e \in Ends, EndSteps(e) PROVE ActorsOK'
  BY <1>1, <1>3, EndMoves, OneMoves DEF ActorsOK
<1>4. ASSUME NEW k \in Cancels, CancelSteps(k) PROVE ActorsOK'
  BY <1>1, <1>4, CancelMoves, OneMoves DEF ActorsOK
<1>5. CASE ResetSteps
  BY <1>1, <1>5, ResetMoves, OneMoves DEF ActorsOK
<1>6. ASSUME UNCHANGED <<call, end, cancel, reset>> PROVE ActorsOK'
  BY <1>1, <1>6 DEF ActorsOK
<1> QED
  BY <1>2, <1>3, <1>4, <1>5, <1>6, NextSteps, OneMoves DEF vars

-----------------------------------------------------------------------------
(* What a step does to the rows.                                            *)

RowsChange ==
    \/ UNCHANGED <<run, pack, dec, evt>>
    \/ \E r \in Runs, st \in {"in_progress", "completed", "cancelled"} :
          run' = [run EXCEPT ![r] = st] /\ UNCHANGED <<pack, dec, evt>>
    \/ \E r \in Runs, p \in Packs :
          Present(r) /\ pack' = [pack EXCEPT ![r] = p] /\ UNCHANGED <<run, dec, evt>>
    \/ \E d \in Decides, r \in Runs :
          Present(r) /\ dec' = [dec EXCEPT ![d] = r] /\ UNCHANGED <<run, pack, evt>>
    \/ \E e \in Events \cup Calls, r \in Runs :
          Present(r) /\ evt' = [evt EXCEPT ![e] = r] /\ UNCHANGED <<run, pack, dec>>
    \/ DeleteTrail \/ DeletePacks \/ DeleteRuns

LEMMA RowsStay == RowsOK /\ RowsChange => RowsOK'
<1> SUFFICES ASSUME RowsOK, RowsChange PROVE RowsOK'
  OBVIOUS
<1> USE IdsAssumption DEF RowsOK, Present, Words
<1>1. CASE UNCHANGED <<run, pack, dec, evt>>
  BY <1>1
<1>2. ASSUME NEW r \in Runs, NEW st \in {"in_progress", "completed", "cancelled"},
             run' = [run EXCEPT ![r] = st], UNCHANGED <<pack, dec, evt>>
      PROVE  RowsOK'
  BY <1>2
<1>3. ASSUME NEW r \in Runs, NEW p \in Packs,
             Present(r), pack' = [pack EXCEPT ![r] = p], UNCHANGED <<run, dec, evt>>
      PROVE  RowsOK'
  BY <1>3
<1>4. ASSUME NEW d \in Decides, NEW r \in Runs,
             Present(r), dec' = [dec EXCEPT ![d] = r], UNCHANGED <<run, pack, evt>>
      PROVE  RowsOK'
  BY <1>4
<1>5. ASSUME NEW e \in Events \cup Calls, NEW r \in Runs,
             Present(r), evt' = [evt EXCEPT ![e] = r], UNCHANGED <<run, pack, dec>>
      PROVE  RowsOK'
  BY <1>5
<1>6. CASE DeleteTrail
  BY <1>6 DEF DeleteTrail
<1>7. CASE DeletePacks
  BY <1>7 DEF DeletePacks, trail
<1>8. CASE DeleteRuns
  BY <1>8 DEF DeleteRuns
<1> QED
  BY <1>1, <1>2, <1>3, <1>4, <1>5, <1>6, <1>7, <1>8 DEF RowsChange

\* A pack that is written.
LEMMA PackRows == 
    /\ \A c \in Saves : [id |-> c, src |-> "agent", text |-> c, lists |-> {}] \in Packs
    /\ \A e \in Ends, L \in SUBSET Decides :
          [id |-> e, src |-> "auto", text |-> e, lists |-> L] \in Packs
    /\ \A p \in Packs, c \in Saves :
          [p EXCEPT !.src = "agent", !.text = c, !.lists = {}] \in Packs
BY DEF Packs

LEMMA CallRows ==
    ASSUME TypeInv, NEW c \in Calls, CallSteps(c)
    PROVE  RowsChange
<1> USE DEF RowsChange, trail
<1>1. call[c].pc # "idle" => call[c].run \in Runs
  BY DEF TypeInv, ActorsOK
<1>2. CASE \E r \in Runs : Call(c, r)
  BY <1>2 DEF Call
<1>3. CASE FindRun(c) \/ CallFails(c) \/ LookForPack(c) \/ WritePackFile(c) \/ SelectDecision(c)
  BY <1>3 DEF FindRun, CallFails, LookForPack, WritePackFile, SelectDecision
<1>4. CASE UpgradePack(c)
  <2> DEFINE r == call[c].run
             p == [pack[r] EXCEPT !.src = "agent", !.text = c, !.lists = {}]
  <2>1. /\ r \in Runs /\ c \in Saves /\ UNCHANGED <<run, dec, evt>>
        /\ call[c].seen # "none"
        /\ IF pack[r].id = call[c].seen
           THEN pack' = [pack EXCEPT ![r].src = "agent", ![r].text = c, ![r].lists = {}]
           ELSE pack' = pack
    BY <1>1, <1>4 DEF UpgradePack, TypeInv, ActorsOK
  <2>2. CASE pack[r].id = call[c].seen
    <3>1. pack[r] # NoPack
      BY <2>1, <2>2 DEF NoPack
    <3>2. pack \in [Runs -> Packs \cup {NoPack}] /\ pack[r] \in Packs /\ Present(r)
      BY <2>1, <3>1 DEF TypeInv, RowsOK
    <3>3. p \in Packs
      BY <2>1, <3>2, PackRows
    <3>4. pack' = [pack EXCEPT ![r] = p]
      BY <2>1, <2>2
    <3> QED
      BY <2>1, <3>2, <3>3, <3>4
  <2> QED
    BY <2>1, <2>2
<1>5. CASE InsertPack(c)
  BY <1>1, <1>5, PackRows DEF InsertPack, PackFits
<1>6. CASE CompleteSaved(c)
  BY <1>1, <1>6 DEF CompleteSaved, MarkCompleted
<1>7. CASE InsertDecision(c)
  BY <1>1, <1>7 DEF InsertDecision
<1> QED
  BY <1>2, <1>3, <1>4, <1>5, <1>6, <1>7 DEF CallSteps

LEMMA EndRows ==
    ASSUME TypeInv, NEW e \in Ends, EndSteps(e)
    PROVE  RowsChange
<1> USE DEF RowsChange, trail
<1>1. /\ end[e].pc # "idle" => end[e].run \in Runs
      /\ end[e].lists \in SUBSET Decides
  BY DEF TypeInv, ActorsOK, EndType
<1>2. CASE \E r \in Runs : EndSession(e, r)
  BY <1>2 DEF EndSession
<1>3. CASE LookForAuto(e) \/ ReadTrail(e) \/ WriteAutoFile(e) \/ EndFails(e)
  BY <1>3 DEF LookForAuto, ReadTrail, WriteAutoFile, EndFails
<1>4. CASE FlipRun(e)
  BY <1>1, <1>4 DEF FlipRun, MarkCompleted
<1>5. CASE InsertAuto(e)
  BY <1>1, <1>5, PackRows DEF InsertAuto, PackFits
<1> QED
  BY <1>2, <1>3, <1>4, <1>5 DEF EndSteps

LEMMA StepChangesRows == TypeInv /\ [Next]_vars => RowsChange
<1> SUFFICES ASSUME TypeInv, [Next]_vars PROVE RowsChange
  OBVIOUS
<1> USE DEF trail
<1>1. ASSUME NEW r \in Runs, OpenRun(r) PROVE RowsChange
  BY <1>1 DEF OpenRun, RowsChange
<1>2. ASSUME NEW c \in Calls, CallSteps(c) PROVE RowsChange
  BY <1>2, CallRows
<1>3. ASSUME NEW e \in Ends, EndSteps(e) PROVE RowsChange
  BY <1>3, EndRows
<1>4. ASSUME NEW k \in Cancels, CancelSteps(k) PROVE RowsChange
  <2>1. CASE WriteCancelled(k)
    BY <2>1 DEF WriteCancelled, RowsChange, TypeInv, ActorsOK
  <2>2. CASE CancelCommand(k) \/ CancelAllAction(k) \/ LookToCancel(k)
    BY <2>2 DEF CancelCommand, CancelAllAction, Cancelling, LookToCancel, RowsChange
  <2> QED
    BY <1>4, <2>1, <2>2 DEF CancelSteps
<1>5. CASE TrailSteps
  <2>1. ASSUME NEW e \in Events \cup Calls, LandEvent(e) PROVE RowsChange
    BY <2>1 DEF LandEvent, RowsChange, Present
  <2>2. ASSUME NEW e \in Events \cup Calls, NEW r \in Runs, HookEvent(e, r) PROVE RowsChange
    BY <2>2 DEF HookEvent, RowsChange
  <2>3. ASSUME NEW v \in Verdicts, LandVerdict(v) PROVE RowsChange
    BY <2>3 DEF LandVerdict, RowsChange
  <2> QED
    BY <1>5, <2>1, <2>2, <2>3 DEF TrailSteps
<1>6. CASE ResetSteps
  <2>1. CASE ResetCommand \/ DeleteAction \/ DeleteVerdicts \/ ReadRunIds \/ DeleteRules
             \/ DeleteProject \/ ResetFails
    BY <2>1 DEF ResetCommand, DeleteAction, StartReset, DeleteVerdicts, ReadRunIds, DeleteRules,
                DeleteProject, ResetFails, RowsChange
  <2>2. CASE DeleteTrail \/ DeletePacks \/ DeleteRuns
    BY <2>2 DEF RowsChange
  <2> QED
    BY <1>6, <2>1, <2>2 DEF ResetSteps
<1>7. CASE UNCHANGED vars
  BY <1>7 DEF vars, RowsChange
<1> QED
  BY <1>1, <1>2, <1>3, <1>4, <1>5, <1>6, <1>7, NextSteps
LEMMA RestStays == TypeInv /\ [Next]_vars => RestOK'
<1> SUFFICES ASSUME TypeInv, [Next]_vars PROVE RestOK'
  OBVIOUS
<1>0. RestOK
  BY DEF TypeInv
<1> USE DEF trail
<1>1. ASSUME NEW r \in Runs, OpenRun(r) PROVE RestOK'
  BY <1>0, <1>1 DEF OpenRun, RestOK
<1>2. ASSUME NEW c \in Calls, CallSteps(c) PROVE RestOK'
  <2>1. call[c].pc # "idle" => call[c].run \in Runs
    BY DEF TypeInv, ActorsOK
  <2>2. UNCHANGED <<verdict, cites, rules, project>>
    BY <1>2 DEF CallSteps, Call, FindRun, CallFails, LookForPack, UpgradePack, InsertPack, WritePackFile,
                CompleteSaved, InsertDecision, SelectDecision
  <2>3. file' = file \/ (c \in Saves /\ file' = [file EXCEPT ![call[c].run] = c])
    BY <1>2 DEF CallSteps, Call, FindRun, CallFails, LookForPack, UpgradePack, InsertPack, WritePackFile,
                CompleteSaved, InsertDecision, SelectDecision
  <2>4. \/ queued' = queued
        \/ call[c].pc # "idle" /\ queued' = [queued EXCEPT ![c] = call[c].run]
    BY <1>2 DEF CallSteps, Call, FindRun, CallFails, LookForPack, UpgradePack, InsertPack, WritePackFile,
                CompleteSaved, InsertDecision, SelectDecision, Goes, Threw, Answer
  <2> QED
    BY <1>0, <2>1, <2>2, <2>3, <2>4 DEF RestOK, PackIds
<1>3. ASSUME NEW e \in Ends, EndSteps(e) PROVE RestOK'
  <2>1. /\ UNCHANGED <<queued, verdict, cites, rules, project>>
        /\ file' = file \/ file' = [file EXCEPT ![end[e].run] = e]
    BY <1>3 DEF EndSteps, EndSession, FlipRun, LookForAuto, ReadTrail, InsertAuto, WriteAutoFile, EndFails
  <2> QED
    BY <1>0, <2>1 DEF RestOK, PackIds
<1>4. ASSUME NEW k \in Cancels, CancelSteps(k) PROVE RestOK'
  BY <1>0, <1>4 DEF CancelSteps, CancelCommand, CancelAllAction, Cancelling, LookToCancel, WriteCancelled, RestOK
<1>5. CASE TrailSteps
  <2>1. ASSUME NEW e \in Events \cup Calls, LandEvent(e) PROVE RestOK'
    BY <1>0, <2>1 DEF LandEvent, RestOK
  <2>2. ASSUME NEW e \in Events \cup Calls, NEW r \in Runs, HookEvent(e, r) PROVE RestOK'
    BY <1>0, <2>2 DEF HookEvent, RestOK
  <2>3. ASSUME NEW v \in Verdicts, LandVerdict(v) PROVE RestOK'
    BY <1>0, <2>3 DEF LandVerdict, RestOK
  <2> QED
    BY <1>5, <2>1, <2>2, <2>3 DEF TrailSteps
<1>6. CASE ResetSteps
  <2>1. UNCHANGED <<file, queued>>
    BY <1>6 DEF ResetSteps, ResetCommand, DeleteAction, StartReset, DeleteVerdicts, ReadRunIds, DeleteTrail,
                DeletePacks, DeleteRuns, DeleteRules, DeleteProject, ResetFails
  <2>2. /\ rules' \in {rules, "gone"} /\ project' \in {project, "gone"}
        /\ \/ UNCHANGED <<verdict, cites>>
           \/ DeleteVerdicts
    BY <1>6 DEF ResetSteps, ResetCommand, DeleteAction, StartReset, ReadRunIds, DeleteTrail,
                DeletePacks, DeleteRuns, DeleteRules, DeleteProject, ResetFails, DeleteVerdicts
  <2> QED
    BY <1>0, <2>1, <2>2 DEF RestOK, DeleteVerdicts
<1>7. CASE UNCHANGED vars
  BY <1>0, <1>7 DEF vars, RestOK
<1> QED
  BY <1>1, <1>2, <1>3, <1>4, <1>5, <1>6, <1>7, NextSteps

LEMMA TypesStay == TypeInv /\ [Next]_vars => TypeInv'
BY ActorsStay, StepChangesRows, RowsStay, RestStays DEF TypeInv

-----------------------------------------------------------------------------
(* The inductive invariant: types, and while nobody resets the project what *)
(* a call, or the end of a session, knows of its run.                       *)

\* A save that has got so far finds the agent's pack on its run; one that is about to
\* upgrade finds the row it saw.
AgentsPack(r) == pack[r].src = "agent"
Saved(c) ==
    \/ call[c].pc \in {"file", "complete"}
    \/ call[c].pc = "done" /\ call[c].answer \in {"created", "hit", "upgraded"}
SavesOK ==
    Untouched =>
        \A c \in Saves :
            /\ Saved(c) => AgentsPack(call[c].run)
            /\ call[c].pc = "upgrade" => pack[call[c].run].id = call[c].seen

\* A decision's row is of the call that is done; there is one for a run and a description,
\* and a call is answered with the one of its own.
Twins(d, e) == call[d].run = call[e].run /\ DescOf[d] = DescOf[e]
DecisionsOK ==
    /\ \A d \in Decides : dec[d] # "none" => call[d].pc = "done"
    /\ Untouched =>
         /\ \A d \in Decides : dec[d] \in {"none", call[d].run}
         /\ \A d, e \in Decides :
               dec[d] # "none" /\ dec[e] # "none" /\ Twins(d, e) => d = e
         /\ \A d \in Decides :
               call[d].pc = "done" /\ call[d].answer \in Decides
                   => dec[call[d].answer] # "none" /\ Twins(d, call[d].answer)

\* The run of a SessionEnd stays, out of progress once it was flipped; what its pack lists
\* is what the agent was told of.
Knows(e) ==
    /\ Present(end[e].run)
    /\ \A d \in end[e].told : dec[d] = end[e].run
Settled(e) == end[e].pc = "file" \/ (end[e].pc = "done" /\ end[e].ok)
EndOK(e) ==
    /\ end[e].pc \in {"idle", "flip"} => end[e].ok
    /\ end[e].pc # "idle" => Knows(e)
    /\ end[e].ok /\ end[e].pc \notin {"idle", "flip"} => run[end[e].run] # "in_progress"
    /\ end[e].pc = "insert" => end[e].told \subseteq end[e].lists
    /\ Settled(e) => pack[end[e].run] # NoPack
AutoPackOK(r) ==
    pack[r].src = "auto" =>
        LET e == pack[r].id IN
        /\ e \in Ends /\ end[e].pc # "idle" /\ end[e].run = r
        /\ end[e].told \subseteq pack[r].lists
EndsOK ==
    Untouched => (\A e \in Ends : EndOK(e)) /\ (\A r \in Runs : AutoPackOK(r))

\* Without a reset a pack keeps its id and stays the agent's.
KeepsPacks ==
    \A r \in Runs : pack[r] # NoPack =>
        /\ pack'[r] # NoPack /\ pack'[r].id = pack[r].id
        /\ pack[r].src = "agent" => pack'[r] = pack[r] \/ pack'[r].src = "agent"
        /\ pack'[r].src = "auto" => pack'[r] = pack[r]

\* ... a run stays, and does not go back into progress; a decision's row stays.
KeepsRuns ==
    \A r \in Runs : Present(r) => Present(r)' /\ (run[r] # "in_progress" => run'[r] # "in_progress")
KeepsDecisions == \A d \in Decides : dec[d] # "none" => dec'[d] = dec[d]

\* The reset, once begun, stays.
LEMMA ResetSteady ==
    ASSUME TypeInv, [Next]_vars, Untouched'
    PROVE  Untouched /\ UNCHANGED reset
<1>1. CASE ResetSteps
  <2>1. reset \in ResetType
    BY DEF TypeInv, ActorsOK
  <2>3. Fails => reset'.pc = "done"
    BY <2>1 DEF Fails, ResetType
  <2>4. CASE ResetCommand \/ DeleteAction
    BY <2>4 DEF ResetCommand, DeleteAction, StartReset, Untouched
  <2>5. CASE DeleteVerdicts \/ DeleteTrail \/ DeletePacks
    BY <2>1, <2>5 DEF DeleteVerdicts, DeleteTrail, DeletePacks, Then, Untouched, ResetType
  <2>6. CASE ReadRunIds
    BY <2>1, <2>6 DEF ReadRunIds, Untouched, ResetType
  <2>7. CASE DeleteRuns \/ DeleteRules \/ DeleteProject \/ ResetFails
    BY <2>1, <2>3, <2>7 DEF DeleteRuns, DeleteRules, DeleteProject, ResetFails, Then, Untouched, ResetType
  <2> QED
    BY <1>1, <2>4, <2>5, <2>6, <2>7 DEF ResetSteps
<1>2. CASE UNCHANGED reset
  BY <1>2 DEF Untouched
<1> QED
  BY <1>1, <1>2, NextSteps, OneMoves DEF vars

LEMMA UntouchedRests ==
    ASSUME TypeInv, Untouched
    PROVE  ~DeleteVerdicts /\ ~ReadRunIds /\ ~DeleteTrail /\ ~DeletePacks /\ ~DeleteRuns
           /\ ~DeleteRules /\ ~DeleteProject /\ ~ResetFails
BY DEF Untouched, DeleteVerdicts, ReadRunIds, DeleteTrail, DeletePacks, DeleteRuns, DeleteRules,
       DeleteProject, ResetFails

LEMMA PacksKept ==
    ASSUME TypeInv, [Next]_vars, Untouched'
    PROVE  KeepsPacks
<1> USE DEF KeepsPacks
<1>0. Untouched /\ pack \in [Runs -> Packs \cup {NoPack}]
  BY ResetSteady DEF TypeInv, RowsOK
<1>1. ASSUME UNCHANGED pack PROVE KeepsPacks
  <2>1. \A r \in Runs : pack'[r] = pack[r]
    BY <1>1
  <2> QED
    BY <2>1
<1>2. ASSUME NEW c \in Calls, CallSteps(c) PROVE KeepsPacks
  <2>1. CASE UpgradePack(c)
    <3> DEFINE r == call[c].run
    <3>1. CASE pack[r].id = call[c].seen
      <4>1. r \in Runs /\ call[c].seen # "none"
        BY <2>1 DEF UpgradePack, TypeInv, ActorsOK
      <4>2. pack[r] \in Packs
        BY <1>0, <3>1, <4>1 DEF NoPack
      <4>3. pack' = [pack EXCEPT ![r] = [pack[r] EXCEPT !.src = "agent", !.text = c, !.lists = {}]]
        BY <2>1, <3>1 DEF UpgradePack
      <4>4. /\ pack'[r] = [pack[r] EXCEPT !.src = "agent", !.text = c, !.lists = {}]
            /\ \A q \in Runs \ {r} : pack'[q] = pack[q]
        BY <1>0, <4>1, <4>3
      <4>5. pack'[r].id = pack[r].id /\ pack'[r].src = "agent"
        BY <4>2, <4>4 DEF Packs
      <4>6. pack'[r] # NoPack
        BY <4>5 DEF NoPack
      <4> QED
        BY <4>4, <4>5, <4>6
    <3>2. CASE pack[r].id # call[c].seen
      BY <1>1, <2>1, <3>2 DEF UpgradePack
    <3> QED
      BY <3>1, <3>2
  <2>2. CASE InsertPack(c)
    BY <1>0, <1>1, <2>2 DEF InsertPack, PackFits
  <2>3. CASE ~UpgradePack(c) /\ ~InsertPack(c)
    BY <1>1, <1>2, <2>3 DEF CallSteps, Call, FindRun, CallFails, LookForPack, WritePackFile,
                CompleteSaved, InsertDecision, SelectDecision
  <2> QED
    BY <2>1, <2>2, <2>3
<1>3. ASSUME NEW e \in Ends, EndSteps(e) PROVE KeepsPacks
  <2>1. CASE InsertAuto(e)
    BY <1>0, <1>1, <2>1 DEF InsertAuto, PackFits
  <2>2. CASE ~InsertAuto(e)
    BY <1>1, <1>3, <2>2 DEF EndSteps, EndSession, FlipRun, LookForAuto, ReadTrail, WriteAutoFile, EndFails
  <2> QED
    BY <2>1, <2>2
<1>4. CASE \/ \E r \in Runs : OpenRun(r)
           \/ \E k \in Cancels : CancelSteps(k)
           \/ TrailSteps \/ UNCHANGED vars
  <2>1. UNCHANGED pack
    BY <1>4 DEF OpenRun, CancelSteps, CancelCommand, CancelAllAction, Cancelling, LookToCancel,
                WriteCancelled, TrailSteps, LandEvent, HookEvent, LandVerdict, vars
  <2> QED
    BY <1>1, <2>1
<1>5. CASE ResetSteps
  <2>1. UNCHANGED pack
    BY <1>0, <1>5, UntouchedRests DEF ResetSteps, ResetCommand, DeleteAction, StartReset
  <2> QED
    BY <1>1, <2>1
<1> QED
  BY <1>2, <1>3, <1>4, <1>5, NextSteps

LEMMA RunsKept ==
    ASSUME TypeInv, [Next]_vars, Untouched'
    PROVE  KeepsRuns
<1>0. Untouched /\ run \in [Runs -> {"none", "in_progress", "completed", "cancelled", "gone"}]
  BY ResetSteady DEF TypeInv, RowsOK
<1>1. CASE UNCHANGED run
  BY <1>1 DEF KeepsRuns, Present
<1>2. CASE \E r \in Runs : OpenRun(r)
  BY <1>0, <1>2 DEF OpenRun, KeepsRuns, Present
<1>3. ASSUME NEW r \in Runs, NEW st \in {"completed", "cancelled"}, run' = [run EXCEPT ![r] = st]
      PROVE KeepsRuns
  BY <1>0, <1>3 DEF KeepsRuns, Present
<1>4. ASSUME NEW c \in Calls, CallSteps(c) PROVE KeepsRuns
  <2>1. CASE CompleteSaved(c)
    BY <1>1, <1>3, <2>1 DEF CompleteSaved, MarkCompleted, TypeInv, ActorsOK
  <2>2. CASE ~CompleteSaved(c)
    BY <1>1, <1>4, <2>2 DEF CallSteps, Call, FindRun, CallFails, LookForPack, UpgradePack, InsertPack,
                WritePackFile, InsertDecision, SelectDecision
  <2> QED
    BY <2>1, <2>2
<1>5. ASSUME NEW e \in Ends, EndSteps(e) PROVE KeepsRuns
  <2>1. CASE FlipRun(e)
    BY <1>1, <1>3, <2>1 DEF FlipRun, MarkCompleted, TypeInv, ActorsOK
  <2>2. CASE ~FlipRun(e)
    BY <1>1, <1>5, <2>2 DEF EndSteps, EndSession, LookForAuto, ReadTrail, InsertAuto, WriteAutoFile, EndFails
  <2> QED
    BY <2>1, <2>2
<1>6. ASSUME NEW k \in Cancels, CancelSteps(k) PROVE KeepsRuns
  <2>1. CASE WriteCancelled(k)
    BY <1>1, <1>3, <2>1 DEF WriteCancelled, TypeInv, ActorsOK
  <2>2. CASE ~WriteCancelled(k)
    BY <1>1, <1>6, <2>2 DEF CancelSteps, CancelCommand, CancelAllAction, Cancelling, LookToCancel
  <2> QED
    BY <2>1, <2>2
<1>7. CASE TrailSteps \/ UNCHANGED vars
  BY <1>1, <1>7 DEF TrailSteps, LandEvent, HookEvent, LandVerdict, vars
<1>8. CASE ResetSteps
  BY <1>0, <1>1, <1>8, UntouchedRests DEF ResetSteps, ResetCommand, DeleteAction, StartReset
<1> QED
  BY <1>2, <1>4, <1>5, <1>6, <1>7, <1>8, NextSteps

LEMMA SavesStay ==
    ASSUME TypeInv, SavesOK, [Next]_vars
    PROVE  SavesOK'
<1> SUFFICES ASSUME Untouched', NEW s \in Saves
             PROVE  /\ Saved(s)' => AgentsPack(call[s].run)'
                    /\ call'[s].pc = "upgrade" => pack'[call'[s].run].id = call'[s].seen
  BY DEF SavesOK
<1>1. /\ Untouched /\ KeepsPacks
      /\ pack \in [Runs -> Packs \cup {NoPack}]
      /\ call \in [Calls -> CallType] /\ s \in Calls /\ call[s] \in CallType
      /\ call[s].pc # "idle" => call[s].run \in Runs
      /\ call[s].pc = "upgrade" => call[s].seen # "none"
  BY ResetSteady, PacksKept DEF TypeInv, ActorsOK, RowsOK, Calls
<1>2. /\ Saved(s) => AgentsPack(call[s].run)
      /\ call[s].pc = "upgrade" => pack[call[s].run].id = call[s].seen
  BY <1>1 DEF SavesOK
<1>3. ASSUME UNCHANGED call[s]
      PROVE  /\ Saved(s)' => AgentsPack(call[s].run)'
             /\ call'[s].pc = "upgrade" => pack'[call'[s].run].id = call'[s].seen
  <2>1. Saved(s)' => Saved(s)
    BY <1>3 DEF Saved
  <2>2. Saved(s) => call[s].run \in Runs
    BY <1>1 DEF Saved
  <2>3. ASSUME Saved(s) PROVE AgentsPack(call[s].run)'
    <3>1. pack[call[s].run].src = "agent" /\ call[s].run \in Runs
      BY <1>2, <2>2, <2>3 DEF AgentsPack
    <3>2. pack[call[s].run] # NoPack
      BY <3>1 DEF NoPack
    <3> QED
      BY <1>1, <1>3, <3>1, <3>2 DEF KeepsPacks, AgentsPack
  <2>4. ASSUME call[s].pc = "upgrade" PROVE pack'[call'[s].run].id = call'[s].seen
    <3>1. pack[call[s].run] # NoPack /\ call[s].run \in Runs
      BY <1>1, <1>2, <2>4 DEF NoPack
    <3> QED
      BY <1>1, <1>2, <1>3, <2>4, <3>1 DEF KeepsPacks
  <2> QED
    BY <1>3, <2>1, <2>3, <2>4
<1>4. ASSUME NEW c \in Calls, CallSteps(c), c # s PROVE UNCHANGED call[s]
  BY <1>1, <1>4, CallMoves
<1>5. CASE CallSteps(s)
  <2> DEFINE r == call[s].run
  <2>1. CASE \E q \in Runs : Call(s, q)
    BY <1>1, <2>1, IdsAssumption DEF Call, Saved, CallType, Words
  <2>2. CASE FindRun(s) \/ CallFails(s)
    BY <1>1, <2>2 DEF FindRun, CallFails, Goes, Answer, Threw, Saved, CallType
  <2>3. CASE LookForPack(s)
    <3>1. pack[r] \in Packs \cup {NoPack} /\ UNCHANGED pack /\ call'[s].run = r
      BY <1>1, <2>3 DEF LookForPack, CallType
    <3>2. /\ call'[s].pc = "complete" => pack[r].src = "agent"
          /\ call'[s].pc \in {"insert", "upgrade", "complete"}
          /\ call'[s].seen = pack[r].id
      BY <1>1, <2>3, <3>1 DEF LookForPack, Packs, NoPack, CallType
    <3> QED
      BY <3>1, <3>2 DEF Saved, AgentsPack
  <2>4. CASE UpgradePack(s)
    <3>1. pack[r].id = call[s].seen /\ call[s].seen # "none" /\ r \in Runs
      BY <1>1, <1>2, <2>4 DEF UpgradePack
    <3>2. pack[r] \in Packs /\ call'[s].run = r /\ call'[s].pc = "file"
      BY <1>1, <2>4, <3>1 DEF UpgradePack, Goes, NoPack, CallType
    <3>3. pack' = [pack EXCEPT ![r] = [pack[r] EXCEPT !.src = "agent", !.text = s, !.lists = {}]]
      BY <2>4, <3>1 DEF UpgradePack
    <3>4. pack'[r].src = "agent"
      BY <1>1, <3>1, <3>2, <3>3 DEF Packs
    <3> QED
      BY <3>2, <3>4 DEF AgentsPack
  <2>5. CASE InsertPack(s)
    BY <1>1, <2>5 DEF InsertPack, Goes, Threw, Saved, AgentsPack, CallType
  <2>6. CASE WritePackFile(s)
    BY <1>1, <1>2, <2>6 DEF WritePackFile, Goes, Saved, AgentsPack, CallType
  <2>7. CASE CompleteSaved(s)
    BY <1>1, <1>2, <2>7 DEF CompleteSaved, Answer, Saved, AgentsPack, CallType
  <2>8. CASE InsertDecision(s) \/ SelectDecision(s)
    BY <2>8, IdsAssumption DEF InsertDecision, SelectDecision
  <2> QED
    BY <1>5, <2>1, <2>2, <2>3, <2>4, <2>5, <2>6, <2>7, <2>8 DEF CallSteps
<1> QED
  BY <1>3, <1>4, <1>5, NextSteps, OneMoves DEF vars
\* The insert that mints the row of a decision.
Mints(d) ==
    /\ SameKey(d) = {} /\ dec' = [dec EXCEPT ![d] = call[d].run]
    /\ call' = [call EXCEPT ![d].pc = "done", ![d].answer = d]
    /\ call[d].pc = "insert" /\ UNCHANGED reset

LEMMA DecisionRows ==
    ASSUME TypeInv, [Next]_vars
    PROVE  \/ \E d \in Decides : Mints(d)
           \/ /\ \A d \in Decides : dec'[d] # "none" => dec[d] # "none"
              /\ Untouched' => UNCHANGED dec
              /\ \A d \in Decides : ~Mints(d)
<1> SUFFICES ASSUME \A d \in Decides : ~Mints(d)
             PROVE  /\ \A d \in Decides : dec'[d] # "none" => dec[d] # "none"
                    /\ Untouched' => UNCHANGED dec
  OBVIOUS
<1>0. dec \in [Decides -> {"none", "null"} \cup Runs] /\ (Untouched' => Untouched)
  BY ResetSteady DEF TypeInv, RowsOK
<1>1. ASSUME NEW c \in Calls, CallSteps(c) PROVE UNCHANGED dec
  <2>1. CASE InsertDecision(c)
    BY <2>1 DEF InsertDecision, Answer, Mints
  <2>2. CASE ~InsertDecision(c)
    BY <1>1, <2>2 DEF CallSteps, Call, FindRun, CallFails, LookForPack, UpgradePack, InsertPack,
                WritePackFile, CompleteSaved, SelectDecision, trail
  <2> QED
    BY <2>1, <2>2
<1>2. CASE \/ \E r \in Runs : OpenRun(r)
           \/ \E e \in Ends : EndSteps(e)
           \/ \E k \in Cancels : CancelSteps(k)
           \/ TrailSteps \/ UNCHANGED vars
  BY <1>2 DEF OpenRun, EndSteps, EndSession, FlipRun, LookForAuto, ReadTrail, InsertAuto, WriteAutoFile,
              EndFails, CancelSteps, CancelCommand, CancelAllAction, Cancelling, LookToCancel,
              WriteCancelled, TrailSteps, LandEvent, HookEvent, LandVerdict, vars, trail
<1>3. CASE ResetSteps
  <2>1. CASE DeleteTrail \/ DeleteRuns
    <3>1. ~Untouched'
      BY <1>0, <2>1, UntouchedRests
    <3> QED
      BY <1>0, <2>1, <3>1, IdsAssumption DEF DeleteTrail, DeleteRuns, Words
  <2>2. CASE ~DeleteTrail /\ ~DeleteRuns
    BY <1>3, <2>2 DEF ResetSteps, ResetCommand, DeleteAction, StartReset, DeleteVerdicts, ReadRunIds,
                      DeletePacks, DeleteRules, DeleteProject, ResetFails, trail
  <2> QED
    BY <2>1, <2>2
<1> QED
  BY <1>1, <1>2, <1>3, NextSteps

\* A decision is answered with an id where its row is minted, or found.
LEMMA DecisionAnswered ==
    ASSUME TypeInv, NEW d \in Decides, CallSteps(d), ~Mints(d), call'[d].pc = "done",
           call'[d].answer \in Decides
    PROVE  call'[d].answer \in SameKey(d) /\ call[d].pc # "idle"
<1> USE IdsAssumption DEF Words
<1>1. call \in [Calls -> CallType] /\ d \in Calls /\ call[d] \in CallType /\ d \notin Saves
  BY DEF TypeInv, ActorsOK, Calls
<1>2. CASE \E r \in Runs : Call(d, r)
  BY <1>1, <1>2 DEF Call, CallType
<1>3. CASE FindRun(d)
  BY <1>1, <1>3 DEF FindRun, Goes, Answer, CallType
<1>4. CASE CallFails(d)
  BY <1>1, <1>4 DEF CallFails, Threw, CallType
<1>5. CASE InsertDecision(d)
  BY <1>1, <1>5 DEF InsertDecision, Goes, Answer, Threw, Mints, CallType
<1>6. CASE SelectDecision(d)
  BY <1>1, <1>6 DEF SelectDecision, Answer, Threw, CallType
<1> QED
  BY <1>1, <1>2, <1>3, <1>4, <1>5, <1>6
  DEF CallSteps, LookForPack, UpgradePack, InsertPack, WritePackFile, CompleteSaved

\* A call that is done takes no more steps, and its run is fixed once it is called.
LEMMA CallsProgress ==
    ASSUME TypeInv, [Next]_vars, NEW c \in Calls
    PROVE  /\ UNCHANGED call[c] \/ CallSteps(c)
           /\ call[c].pc = "done" => call'[c] = call[c]
           /\ call[c].pc # "idle" => call'[c].run = call[c].run
<1>1. call \in [Calls -> CallType]
  BY DEF TypeInv, ActorsOK
<1>2. ASSUME NEW b \in Calls, CallSteps(b), b # c PROVE UNCHANGED call[c]
  BY <1>1, <1>2, CallMoves
<1>3. UNCHANGED call[c] \/ CallSteps(c)
  BY <1>2, NextSteps, OneMoves DEF vars
<1> QED
  BY <1>3, CallMoves

LEMMA DecisionsStay ==
    ASSUME TypeInv, DecisionsOK, [Next]_vars
    PROVE  DecisionsOK'
<1>0. /\ call \in [Calls -> CallType] /\ Decides \subseteq Calls
      /\ dec \in [Decides -> {"none", "null"} \cup Runs]
      /\ \A d \in Decides : call[d].pc # "idle" => call[d].run \in Runs
  BY DEF TypeInv, ActorsOK, RowsOK, Calls
<1>1. ASSUME NEW d \in Decides, Mints(d) PROVE DecisionsOK'
  <2>1. /\ call'[d].pc = "done" /\ call'[d].answer = d /\ call'[d].run = call[d].run
        /\ dec'[d] = call[d].run /\ call[d].run \in Runs
        /\ \A e \in Decides \ {d} : call'[e] = call[e] /\ dec'[e] = dec[e]
        /\ \A e \in Decides : call'[e].run = call[e].run
    BY <1>0, <1>1 DEF Mints, CallType
  <2>2. Untouched' => Untouched
    BY <1>1 DEF Mints, Untouched
  <2>3. \A e \in Decides : dec[e] # "none" => ~Twins(d, e)
    BY <1>1 DEF Mints, SameKey, Twins
  <2>4. dec[d] = "none"
    BY <1>1, <2>1 DEF Mints, DecisionsOK
  <2>5. \A a, b \in Decides : Twins(a, b)' <=> Twins(a, b)
    BY <2>1 DEF Twins
  <2> QED
    BY <2>1, <2>2, <2>3, <2>4, <2>5, IdsAssumption DEF DecisionsOK, Words, Twins
<1>2. ASSUME \A d \in Decides : dec'[d] # "none" => dec[d] # "none",
             Untouched' => UNCHANGED dec,
             \A d \in Decides : ~Mints(d)
      PROVE  DecisionsOK'
  <2>1. \A d \in Decides : call[d].pc = "done" => call'[d] = call[d]
    BY <1>0, CallsProgress
  <2>2. \A d \in Decides : dec[d] # "none" => call[d].pc = "done" /\ call'[d] = call[d]
    BY <2>1 DEF DecisionsOK
  <2>3. SUFFICES ASSUME Untouched'
        PROVE  /\ \A d \in Decides : dec'[d] \in {"none", call'[d].run}
               /\ \A d, e \in Decides :
                     dec'[d] # "none" /\ dec'[e] # "none" /\ Twins(d, e)' => d = e
               /\ \A d \in Decides :
                     call'[d].pc = "done" /\ call'[d].answer \in Decides
                         => dec'[call'[d].answer] # "none" /\ Twins(d, call[d].answer)'
    BY <1>2, <2>2 DEF DecisionsOK
  <2>4. Untouched /\ UNCHANGED dec
    BY <1>2, <2>3, ResetSteady
  <2>5. \A d, e \in Decides :
           dec[d] # "none" /\ dec[e] # "none" => (Twins(d, e)' <=> Twins(d, e))
    BY <2>2 DEF Twins
  <2>6. ASSUME NEW d \in Decides, call'[d].pc = "done", call'[d].answer \in Decides
        PROVE  dec'[call'[d].answer] # "none" /\ Twins(d, call[d].answer)'
    <3>1. CASE call'[d] = call[d]
      <4> DEFINE e == call[d].answer
      <4>1. e \in Decides /\ dec[e] # "none" /\ Twins(d, e)
        BY <2>4, <2>6, <3>1 DEF DecisionsOK
      <4>2. call'[e] = call[e]
        BY <2>2, <4>1
      <4> QED
        BY <2>4, <3>1, <4>1, <4>2 DEF Twins
    <3>2. CASE CallSteps(d)
      <4> DEFINE e == call'[d].answer
      <4>1. e \in SameKey(d)
        BY <1>2, <2>6, <3>2, DecisionAnswered
      <4>2. e \in Decides /\ dec[e] # "none" /\ call[e].run = call[d].run /\ DescOf[e] = DescOf[d]
        BY <4>1 DEF SameKey
      <4>3. call'[e] = call[e]
        BY <2>2, <4>2
      <4>4. call'[d].run = call[d].run
        BY <1>0, <1>2, <2>6, <3>2, DecisionAnswered, CallsProgress
      <4> QED
        BY <2>4, <4>2, <4>3, <4>4 DEF Twins
    <3> QED
      BY <1>0, <3>1, <3>2, CallsProgress
  <2> QED
    BY <2>2, <2>4, <2>5, <2>6 DEF DecisionsOK
<1> QED
  BY <1>1, <1>2, DecisionRows
LEMMA DecisionsKept ==
    ASSUME TypeInv, DecisionsOK, [Next]_vars, Untouched'
    PROVE  KeepsDecisions
<1>0. dec \in [Decides -> {"none", "null"} \cup Runs]
  BY DEF TypeInv, RowsOK
<1>1. ASSUME NEW d \in Decides, Mints(d) PROVE KeepsDecisions
  <2>1. dec[d] = "none"
    BY <1>1 DEF Mints, DecisionsOK
  <2> QED
    BY <1>0, <1>1, <2>1 DEF Mints, KeepsDecisions
<1>2. CASE UNCHANGED dec
  BY <1>2 DEF KeepsDecisions
<1> QED
  BY <1>1, <1>2, DecisionRows

\* Where nothing happens to e it stays so.
LEMMA EndRests ==
    ASSUME TypeInv, KeepsPacks, KeepsRuns, KeepsDecisions, NEW e \in Ends, EndOK(e), UNCHANGED end[e]
    PROVE  EndOK(e)'
<1>0. /\ end[e].pc # "idle" => end[e].run \in Runs
      /\ end[e].told \subseteq Decides
  BY DEF TypeInv, ActorsOK, EndType
<1>1. CASE end[e].pc = "idle"
  BY <1>1 DEF EndOK, Settled
<1>2. CASE end[e].pc # "idle"
  <2>1. Present(end[e].run)' /\ (run[end[e].run] # "in_progress" => run'[end[e].run] # "in_progress")
    BY <1>0, <1>2 DEF KeepsRuns, EndOK, Knows, Present
  <2>2. \A d \in end[e].told : dec[d] = end[e].run => dec'[d] = end[e].run
    BY <1>0, <1>2, IdsAssumption DEF KeepsDecisions, Words
  <2>3. pack[end[e].run] # NoPack => pack'[end[e].run] # NoPack
    BY <1>0, <1>2 DEF KeepsPacks
  <2> QED
    BY <2>1, <2>2, <2>3 DEF EndOK, Knows, Settled
<1> QED
  BY <1>1, <1>2
\* What an agent was told of is in the table.
LEMMA ToldAreThere ==
    ASSUME TypeInv, DecisionsOK, Untouched, NEW r \in Runs, NEW d \in Told(r)
    PROVE  call[d].answer \in Decides /\ dec[call[d].answer] = r
BY DEF Told, DecisionsOK, Twins

LEMMA EndAdvances ==
    ASSUME TypeInv, DecisionsOK, Untouched, KeepsPacks, KeepsRuns, KeepsDecisions,
           NEW e \in Ends, EndOK(e), EndSteps(e)
    PROVE  EndOK(e)'
<1>0. /\ end \in [Ends -> EndType] /\ end[e] \in EndType
      /\ end[e].pc # "idle" => end[e].run \in Runs
      /\ end[e].told \subseteq Decides
      /\ run \in [Runs -> {"none", "in_progress", "completed", "cancelled", "gone"}]
  BY DEF TypeInv, ActorsOK, EndType, RowsOK
<1>1. CASE \E r \in Runs : EndSession(e, r)
  <2>1. PICK r \in Runs : EndSession(e, r)
    BY <1>1
  <2>2. end'[e] = [end[e] EXCEPT !.pc = "flip", !.run = r, !.told = {call[d].answer : d \in Told(r)}]
    BY <1>0, <2>1 DEF EndSession
  <2>3. end'[e].pc = "flip" /\ end'[e].run = r /\ end'[e].ok = end[e].ok /\ end[e].pc = "idle"
        /\ end'[e].told = {call[d].answer : d \in Told(r)}
    BY <1>0, <2>1, <2>2 DEF EndSession, EndType
  <2>4. Present(r)'
    BY <2>1 DEF EndSession, KeepsRuns
  <2>5. \A d \in end'[e].told : dec[d] = r /\ d \in Decides
    BY <2>3, ToldAreThere
  <2>6. \A d \in end'[e].told : dec'[d] = r
    BY <2>5, IdsAssumption DEF KeepsDecisions, Words
  <2> QED
    BY <2>3, <2>4, <2>6 DEF EndOK, Knows, Settled
<1>2. ASSUME end[e].pc # "idle"
      PROVE  /\ Knows(e)'
             /\ run[end[e].run] # "in_progress" => run'[end[e].run] # "in_progress"
             /\ pack[end[e].run] # NoPack => pack'[end[e].run] # NoPack
             /\ end'[e].run = end[e].run /\ end'[e].told = end[e].told
             /\ end[e].run \in Runs /\ Present(end[e].run)
  <2>1. end'[e].run = end[e].run /\ end'[e].told = end[e].told
    BY <1>2, EndMoves
  <2>2. Present(end[e].run)' /\ (run[end[e].run] # "in_progress" => run'[end[e].run] # "in_progress")
    BY <1>0, <1>2, <2>1 DEF KeepsRuns, EndOK, Knows, Present
  <2>3. \A d \in end[e].told : dec'[d] = end[e].run
    BY <1>0, <1>2, IdsAssumption DEF KeepsDecisions, Words, EndOK, Knows
  <2>4. pack[end[e].run] # NoPack => pack'[end[e].run] # NoPack
    BY <1>0, <1>2 DEF KeepsPacks
  <2> QED
    BY <1>0, <1>2, <2>1, <2>2, <2>3, <2>4 DEF Knows, EndOK
<1>3. CASE FlipRun(e)
  <2>1. end[e].pc = "flip" /\ end'[e].pc = "look"
        /\ (end'[e].ok => MarkCompleted(end[e].run))
    BY <1>0, <1>3 DEF FlipRun, EndType
  <2>2. end'[e].ok => run'[end[e].run] # "in_progress"
    BY <1>0, <1>2, <2>1 DEF MarkCompleted
  <2> QED
    BY <1>2, <2>1, <2>2 DEF EndOK, Settled
<1>4. CASE LookForAuto(e)
  BY <1>0, <1>2, <1>4 DEF LookForAuto, EndOK, Settled, EndType
<1>5. CASE ReadTrail(e)
  <2>1. /\ end[e].pc = "read" /\ end'[e].pc = "insert" /\ end'[e].ok = end[e].ok
        /\ end'[e].lists = {d \in Decides : dec[d] = end[e].run}
    BY <1>0, <1>5 DEF ReadTrail, EndType
  <2>2. end[e].told \subseteq end'[e].lists
    BY <1>0, <2>1 DEF EndOK, Knows
  <2> QED
    BY <1>2, <2>1, <2>2 DEF EndOK, Settled
<1>6. CASE InsertAuto(e)
  <2>1. /\ end[e].pc = "insert" /\ end'[e].ok = end[e].ok /\ end'[e].pc \in {"file", "done"}
        /\ end'[e].lists = end[e].lists
    BY <1>0, <1>6 DEF InsertAuto, EndType
  <2>2. pack'[end[e].run] # NoPack
    <3>1. CASE PackFits(end[e].run)
      <4>1. pack'[end[e].run].src = "auto"
        BY <1>2, <1>6, <2>1, <3>1 DEF InsertAuto, TypeInv, RowsOK
      <4> QED
        BY <4>1 DEF NoPack
    <3>2. CASE ~PackFits(end[e].run)
      BY <1>2, <2>1, <3>2 DEF PackFits
    <3> QED
      BY <3>1, <3>2
  <2> QED
    BY <1>2, <2>1, <2>2 DEF EndOK, Settled
<1>7. CASE WriteAutoFile(e)
  BY <1>0, <1>2, <1>7 DEF WriteAutoFile, EndOK, Settled, EndType
<1>8. CASE EndFails(e)
  BY <1>0, <1>2, <1>8 DEF EndFails, EndOK, Settled, EndType
<1> QED
  BY <1>1, <1>3, <1>4, <1>5, <1>6, <1>7, <1>8 DEF EndSteps

\* An automatic pack that is new is of a SessionEnd that read the trail.
LEMMA NewAutoPack ==
    ASSUME TypeInv, EndsOK, [Next]_vars, Untouched', NEW r \in Runs,
           pack[r] = NoPack, pack'[r].src = "auto"
    PROVE  AutoPackOK(r)'
<1>0. Untouched /\ pack \in [Runs -> Packs \cup {NoPack}]
  BY ResetSteady DEF TypeInv, RowsOK
<1>1. ASSUME UNCHANGED pack PROVE FALSE
  BY <1>1 DEF NoPack
<1>2. ASSUME NEW c \in Calls, CallSteps(c) PROVE FALSE
  <2>1. CASE UpgradePack(c)
    <3>1. call[c].run \in Runs /\ call[c].seen # "none" /\ pack[r].id = "none"
      BY <2>1 DEF UpgradePack, TypeInv, ActorsOK, NoPack
    <3>2. pack'[r] = pack[r]
      BY <1>0, <2>1, <3>1 DEF UpgradePack
    <3> QED
      BY <3>2 DEF NoPack
  <2>2. CASE InsertPack(c)
    <3>1. call[c].run \in Runs
      BY <2>2 DEF InsertPack, TypeInv, ActorsOK
    <3>2. pack'[r] = pack[r] \/ pack'[r].src = "agent"
      BY <1>0, <2>2, <3>1 DEF InsertPack
    <3> QED
      BY <3>2 DEF NoPack
  <2>3. CASE ~UpgradePack(c) /\ ~InsertPack(c)
    BY <1>1, <1>2, <2>3 DEF CallSteps, Call, FindRun, CallFails, LookForPack, WritePackFile,
                CompleteSaved, InsertDecision, SelectDecision
  <2> QED
    BY <2>1, <2>2, <2>3
<1>3. ASSUME NEW e \in Ends, EndSteps(e) PROVE AutoPackOK(r)'
  <2>1. CASE InsertAuto(e)
    <3>1. end[e].pc = "insert" /\ end[e].run \in Runs /\ end[e].told \subseteq end[e].lists
      BY <1>0, <2>1 DEF InsertAuto, TypeInv, ActorsOK, EndsOK, EndOK
    <3>2. end[e].run = r
      BY <1>0, <2>1, <3>1 DEF InsertAuto, NoPack
    <3>3. PackFits(r)
      BY <1>1, <2>1, <3>2 DEF InsertAuto
    <3>4. pack'[r] = [id |-> e, src |-> "auto", text |-> e, lists |-> end[e].lists]
      BY <1>0, <2>1, <3>2, <3>3 DEF InsertAuto
    <3>5. end'[e].pc # "idle" /\ end'[e].run = r /\ end'[e].told = end[e].told
      BY <1>3, <3>1, <3>2, EndMoves
    <3> QED
      BY <3>1, <3>4, <3>5 DEF AutoPackOK
  <2>2. CASE ~InsertAuto(e)
    BY <1>1, <1>3, <2>2 DEF EndSteps, EndSession, FlipRun, LookForAuto, ReadTrail, WriteAutoFile, EndFails
  <2> QED
    BY <2>1, <2>2
<1>4. CASE \/ \E q \in Runs : OpenRun(q)
           \/ \E k \in Cancels : CancelSteps(k)
           \/ TrailSteps \/ UNCHANGED vars
  BY <1>1, <1>4 DEF OpenRun, CancelSteps, CancelCommand, CancelAllAction, Cancelling, LookToCancel,
              WriteCancelled, TrailSteps, LandEvent, HookEvent, LandVerdict, vars
<1>5. CASE ResetSteps
  BY <1>0, <1>1, <1>5, UntouchedRests DEF ResetSteps, ResetCommand, DeleteAction, StartReset
<1> QED
  BY <1>2, <1>3, <1>4, <1>5, NextSteps

LEMMA EndsStay ==
    ASSUME TypeInv, DecisionsOK, EndsOK, [Next]_vars
    PROVE  EndsOK'
<1> SUFFICES ASSUME Untouched'
             PROVE  (\A e \in Ends : EndOK(e))' /\ (\A r \in Runs : AutoPackOK(r))'
  BY DEF EndsOK
<1>1. /\ Untouched /\ KeepsPacks /\ KeepsRuns /\ KeepsDecisions
      /\ \A e \in Ends : EndOK(e)
      /\ \A r \in Runs : AutoPackOK(r)
      /\ end \in [Ends -> EndType]
  BY ResetSteady, PacksKept, RunsKept, DecisionsKept DEF EndsOK, TypeInv, ActorsOK
<1>2. ASSUME NEW e \in Ends
      PROVE  /\ end'[e] = end[e] \/ EndSteps(e)
             /\ end[e].pc # "idle" =>
                  end'[e].pc # "idle" /\ end'[e].run = end[e].run /\ end'[e].told = end[e].told
  <2>1. ASSUME NEW f \in Ends, EndSteps(f), f # e PROVE end'[e] = end[e]
    BY <1>1, <2>1, EndMoves
  <2>2. end'[e] = end[e] \/ EndSteps(e)
    BY <2>1, NextSteps, OneMoves DEF vars
  <2> QED
    BY <2>2, EndMoves
<1>3. ASSUME NEW e \in Ends PROVE EndOK(e)'
  BY <1>1, <1>2, EndRests, EndAdvances
<1>4. ASSUME NEW r \in Runs PROVE AutoPackOK(r)'
  <2>1. CASE pack[r] = NoPack
    BY <2>1, NewAutoPack DEF AutoPackOK
  <2>2. CASE pack[r] # NoPack
    <3>1. SUFFICES ASSUME pack'[r].src = "auto" PROVE AutoPackOK(r)'
      BY DEF AutoPackOK
    <3>2. pack'[r] = pack[r]
      BY <1>1, <2>2, <3>1 DEF KeepsPacks
    <3> QED
      BY <1>1, <1>2, <3>1, <3>2 DEF AutoPackOK
  <2> QED
    BY <2>1, <2>2
<1> QED
  BY <1>3, <1>4
-----------------------------------------------------------------------------
(* The inductive invariant, continued: what a reset has deleted so far.     *)

Wiped == reset.answer \in {"reset", "deleted"}
VerdictsGone == reset.pc \in {"ids", "trail", "packs", "runs", "rules", "project"} \/ Wiped
TrailGone == reset.pc \in {"packs", "runs", "rules", "project"} \/ Wiped
PacksGone == reset.pc \in {"runs", "rules", "project"} \/ Wiped
RunsGone == reset.pc \in {"rules", "project"} \/ Wiped

AnswerOK == reset.pc # "done" => reset.answer = "none"

RunsWiped ==
    \A r \in Runs : <<"run", r>> \in reset.had =>
        /\ reset.pc \in {"verdicts", "ids", "trail", "packs", "runs"} => Present(r)
        /\ RunsGone => run[r] = "gone"

VerdictsWiped ==
    \A v \in Verdicts : <<"policy_decision", v>> \in reset.had =>
        /\ reset.pc = "verdicts" => verdict[v] \in Runs
        /\ VerdictsGone => verdict[v] = "deleted"

\* An event is queued and lands once: one that was deleted does not come back.
Once(e) ==
    /\ queued[e] # NoRun => evt[e] = "none"
    /\ e \in Calls /\ call[e].pc # "done" => queued[e] = NoRun /\ evt[e] = "none"
EventsWiped ==
    /\ \A e \in Events \cup Calls : Once(e)
    /\ \A e \in Events \cup Calls : <<"run_event", e>> \in reset.had =>
        /\ reset.pc \in {"verdicts", "ids"} => evt[e] \in Runs
        /\ reset.pc = "trail" => evt[e] \in reset.ids
        /\ TrailGone => evt[e] = "deleted"

DecisionsWiped ==
    \A d \in Decides : <<"decision", d>> \in reset.had =>
        /\ reset.pc \in {"verdicts", "ids"} => dec[d] \in Runs
        /\ reset.pc = "trail" => dec[d] \in reset.ids
        /\ TrailGone => dec[d] = "none" /\ call[d].pc = "done"

\* The id of a pack was used up by its call or SessionEnd.
Used(i) ==
    /\ i \in Saves => call[i].pc \in {"file", "complete", "done"}
    /\ i \in Ends => end[i].pc \in {"file", "done"}
PacksWiped ==
    /\ \A r \in Runs : Used(pack[r].id)
    /\ \A i \in Saves \cup Ends : <<"context_pack", i>> \in reset.had =>
        /\ reset.pc # "idle" => Used(i)
        /\ PacksGone => \A r \in Runs : pack[r].id # i

WipeOK ==
    AnswerOK /\ RunsWiped /\ VerdictsWiped /\ EventsWiped /\ DecisionsWiped /\ PacksWiped

\* The rows of an export.
LEMMA ExportMembers ==
    ASSUME TypeInv
    PROVE  /\ \A r \in Runs : <<"run", r>> \in Export => Present(r)
           /\ \A v \in Verdicts : <<"policy_decision", v>> \in Export => verdict[v] \in Runs
           /\ \A e \in Events \cup Calls : <<"run_event", e>> \in Export => evt[e] \in Runs
           /\ \A d \in Decides : <<"decision", d>> \in Export => dec[d] \in Runs
           /\ \A i \in Saves \cup Ends :
                 <<"context_pack", i>> \in Export => \E r \in Runs : pack[r].id = i
BY DEF Export

\* A step of the reset begins it, ends it in an error, or deletes the next of its tables.
ResetBegins ==
    /\ reset.pc = "idle" /\ reset'.pc = "verdicts" /\ reset'.had = Export /\ reset'.answer = "none"
    /\ UNCHANGED <<run, verdict, evt, dec, pack>>
ResetErrs ==
    /\ reset'.pc = "done" /\ reset'.answer \in {"error", "not_found"} /\ reset'.had = reset.had
    /\ reset.pc # "idle"
    /\ UNCHANGED <<run, verdict, evt, dec, pack>>
RunsGo ==
    /\ reset.pc = "runs"
    /\ \/ reset'.pc = "rules" /\ reset'.answer = reset.answer
       \/ reset'.pc = "done" /\ reset'.answer = "reset"
    /\ run' = [r \in Runs |-> IF Present(r) THEN "gone" ELSE run[r]]
    /\ evt' = [e \in DOMAIN evt |-> IF evt[e] \in Runs THEN "null" ELSE evt[e]]
    /\ dec' = [d \in Decides |-> IF dec[d] \in Runs THEN "null" ELSE dec[d]]
    /\ UNCHANGED <<verdict, pack>>
LastSteps ==
    /\ \/ reset.pc = "rules" /\ reset'.pc = "project" /\ reset'.answer = reset.answer
       \/ reset.pc = "rules" /\ reset'.pc = "done" /\ reset'.answer = "reset"
       \/ reset.pc = "project" /\ reset'.pc = "done" /\ reset'.answer = "deleted"
    /\ UNCHANGED <<run, verdict, evt, dec, pack>>
ResetAdvances ==
    /\ reset'.had = reset.had
    /\ \/ DeleteVerdicts /\ reset'.pc = "ids" /\ reset'.answer = reset.answer
       \/ ReadRunIds /\ reset'.pc = "trail" /\ reset'.answer = reset.answer
          /\ reset'.ids = {r \in Runs : Present(r)}
       \/ DeleteTrail /\ reset'.pc = "packs" /\ reset'.answer = reset.answer
       \/ DeletePacks /\ reset'.pc = "runs" /\ reset'.answer = reset.answer
       \/ RunsGo \/ LastSteps

LEMMA ResetPhases ==
    ASSUME TypeInv, ResetSteps
    PROVE  ResetBegins \/ ResetErrs \/ ResetAdvances
<1>1. reset \in ResetType
  BY DEF TypeInv, ActorsOK
<1> USE DEF Then, ResetType, trail
<1>2. Fails => /\ reset'.pc = "done" /\ reset'.answer \in {"error", "not_found"}
               /\ reset'.had = reset.had
  BY <1>1 DEF Fails
<1>3. CASE ResetCommand \/ DeleteAction
  BY <1>3 DEF ResetCommand, DeleteAction, StartReset, ResetBegins
<1>4. CASE DeleteVerdicts \/ ReadRunIds \/ DeleteTrail \/ DeletePacks
  BY <1>1, <1>4 DEF DeleteVerdicts, ReadRunIds, DeleteTrail, DeletePacks, ResetAdvances
<1>5. CASE DeleteRuns
  <2> DEFINE refused == \E r \in Runs :
               Present(r) /\ (pack[r] # NoPack \/ \E v \in Verdicts : verdict[v] = r)
  <2> HIDE DEF refused
  <2>1. /\ reset.pc = "runs" /\ UNCHANGED <<verdict, pack>>
        /\ IF refused THEN Fails /\ UNCHANGED <<run, evt, dec>>
           ELSE /\ run' = [r \in Runs |-> IF Present(r) THEN "gone" ELSE run[r]]
                /\ evt' = [e \in DOMAIN evt |-> IF evt[e] \in Runs THEN "null" ELSE evt[e]]
                /\ dec' = [d \in Decides |-> IF dec[d] \in Runs THEN "null" ELSE dec[d]]
                /\ IF reset.keep THEN reset' = [reset EXCEPT !.pc = "done", !.answer = "reset"]
                   ELSE reset' = [reset EXCEPT !.pc = "rules"]
    BY <1>5 DEF DeleteRuns, refused
  <2>2. CASE refused
    BY <1>2, <2>1, <2>2 DEF ResetErrs
  <2>3. CASE ~refused
    <3>1. /\ reset'.had = reset.had
          /\ \/ reset'.pc = "rules" /\ reset'.answer = reset.answer
             \/ reset'.pc = "done" /\ reset'.answer = "reset"
      BY <1>1, <2>1, <2>3
    <3> QED
      BY <2>1, <2>3, <3>1 DEF ResetAdvances, RunsGo
  <2> QED
    BY <2>2, <2>3
<1>6. CASE DeleteRules
  <2>1. reset.pc = "rules" /\ UNCHANGED <<run, verdict, evt, dec, pack>>
    BY <1>6 DEF DeleteRules
  <2>2. CASE Fails
    BY <1>2, <2>1, <2>2 DEF ResetErrs
  <2>3. CASE ~Fails
    BY <1>1, <1>6, <2>1, <2>3 DEF DeleteRules, ResetAdvances, LastSteps
  <2> QED
    BY <2>2, <2>3
<1>7. CASE DeleteProject
  <2>1. reset.pc = "project" /\ UNCHANGED <<run, verdict, evt, dec, pack>>
        /\ reset'.had = reset.had /\ reset'.pc = "done" /\ reset'.answer \in {"error", "deleted"}
    BY <1>1, <1>7 DEF DeleteProject
  <2> QED
    BY <2>1 DEF ResetErrs, ResetAdvances, LastSteps
<1>8. CASE ResetFails
  BY <1>2, <1>8 DEF ResetFails, ResetErrs
<1> QED
  BY <1>3, <1>4, <1>5, <1>6, <1>7, <1>8 DEF ResetSteps

\* What the other steps do to the rows that may be wiped.
OthersStep ==
    /\ UNCHANGED reset
    /\ \A r \in Runs : /\ Present(r) => Present(r)'
                       /\ run[r] = "gone" => run'[r] = "gone"
    /\ \A v \in Verdicts : verdict[v] # "none" => verdict'[v] = verdict[v]
    /\ \A d \in Decides : dec[d] # "none" \/ call[d].pc = "done" => dec'[d] = dec[d]
    /\ \A e \in Events \cup Calls : evt[e] # "none" => queued[e] # NoRun \/ evt'[e] = evt[e]

LEMMA OthersWipeNothing ==
    ASSUME TypeInv, DecisionsOK, [Next]_vars, ~ResetSteps
    PROVE  OthersStep
<1>0. /\ run \in [Runs -> {"none", "in_progress", "completed", "cancelled", "gone"}]
      /\ dec \in [Decides -> {"none", "null"} \cup Runs] /\ Decides \subseteq Calls
      /\ evt \in [Events \cup Calls -> {"none", "null", "deleted"} \cup Runs]
      /\ verdict \in [Verdicts -> {"none", "global", "deleted"} \cup Runs]
      /\ call \in [Calls -> CallType]
      /\ \A c \in Calls : call[c].pc # "idle" => call[c].run \in Runs
      /\ \A e \in Ends : end[e].pc # "idle" => end[e].run \in Runs
      /\ \A k \in Cancels : cancel[k].pc = "write" => cancel[k].run \in Runs
  BY DEF TypeInv, ActorsOK, RowsOK, RestOK, Calls
<1>1. UNCHANGED reset
  BY NextSteps, OneMoves DEF vars
<1>2. /\ \A r \in Runs : Present(r) => Present(r)'
      /\ \A r \in Runs : run[r] = "gone" => run'[r] = "gone"
  <2> DEFINE Steady == /\ \A r \in Runs : Present(r) => Present(r)'
                       /\ \A r \in Runs : run[r] = "gone" => run'[r] = "gone"
  <2>1. CASE UNCHANGED run
    BY <2>1 DEF Present
  <2>2. ASSUME NEW r \in Runs, NEW st \in {"in_progress", "completed", "cancelled"},
               run[r] # "gone", run' = [run EXCEPT ![r] = st]
        PROVE  Steady
    BY <1>0, <2>2 DEF Present
  <2>3. ASSUME NEW r \in Runs, OpenRun(r) PROVE Steady
    BY <2>2, <2>3 DEF OpenRun
  <2>4. ASSUME NEW c \in Calls, CallSteps(c) PROVE Steady
    <3>1. CASE CompleteSaved(c)
      BY <1>0, <2>1, <2>2, <3>1 DEF CompleteSaved, MarkCompleted, Present
    <3>2. CASE ~CompleteSaved(c)
      BY <2>1, <2>4, <3>2 DEF CallSteps, Call, FindRun, CallFails, LookForPack, UpgradePack, InsertPack,
                  WritePackFile, InsertDecision, SelectDecision
    <3> QED
      BY <3>1, <3>2
  <2>5. ASSUME NEW e \in Ends, EndSteps(e) PROVE Steady
    <3>1. CASE FlipRun(e)
      BY <1>0, <2>1, <2>2, <3>1 DEF FlipRun, MarkCompleted, Present
    <3>2. CASE ~FlipRun(e)
      BY <2>1, <2>5, <3>2 DEF EndSteps, EndSession, LookForAuto, ReadTrail, InsertAuto, WriteAutoFile,
                  EndFails
    <3> QED
      BY <3>1, <3>2
  <2>6. ASSUME NEW k \in Cancels, CancelSteps(k) PROVE Steady
    <3>1. CASE WriteCancelled(k)
      BY <1>0, <2>1, <2>2, <3>1 DEF WriteCancelled, Present
    <3>2. CASE ~WriteCancelled(k)
      BY <2>1, <2>6, <3>2 DEF CancelSteps, CancelCommand, CancelAllAction, Cancelling, LookToCancel
    <3> QED
      BY <3>1, <3>2
  <2>7. CASE TrailSteps \/ UNCHANGED vars
    BY <2>1, <2>7 DEF TrailSteps, LandEvent, HookEvent, LandVerdict, vars
  <2> QED
    BY <2>3, <2>4, <2>5, <2>6, <2>7, NextSteps
<1>3. \A d \in Decides : dec[d] # "none" \/ call[d].pc = "done" => dec'[d] = dec[d]
  <2>1. ASSUME NEW d \in Decides, Mints(d)
        PROVE  \A e \in Decides : dec[e] # "none" \/ call[e].pc = "done" => dec'[e] = dec[e]
    <3>1. dec[d] = "none" /\ call[d].pc # "done"
      BY <2>1 DEF Mints, DecisionsOK
    <3> QED
      BY <1>0, <2>1, <3>1 DEF Mints
  <2>2. ASSUME \A d \in Decides : ~Mints(d) PROVE UNCHANGED dec
    <3>1. ASSUME NEW c \in Calls, CallSteps(c) PROVE UNCHANGED dec
      <4>1. CASE InsertDecision(c)
        BY <2>2, <4>1 DEF InsertDecision, Answer, Mints
      <4>2. CASE ~InsertDecision(c)
        BY <3>1, <4>2 DEF CallSteps, Call, FindRun, CallFails, LookForPack, UpgradePack, InsertPack,
                    WritePackFile, CompleteSaved, SelectDecision, trail
      <4> QED
        BY <4>1, <4>2
    <3>2. CASE \/ \E r \in Runs : OpenRun(r)
               \/ \E e \in Ends : EndSteps(e)
               \/ \E k \in Cancels : CancelSteps(k)
               \/ TrailSteps \/ UNCHANGED vars
      BY <3>2 DEF OpenRun, EndSteps, EndSession, FlipRun, LookForAuto, ReadTrail, InsertAuto,
                  WriteAutoFile, EndFails, CancelSteps, CancelCommand, CancelAllAction, Cancelling,
                  LookToCancel, WriteCancelled, TrailSteps, LandEvent, HookEvent, LandVerdict, vars, trail
    <3> QED
      BY <3>1, <3>2, NextSteps
  <2> QED
    BY <2>1, <2>2
<1>4. \/ UNCHANGED <<evt, verdict>>
      \/ \E v \in Verdicts : LandVerdict(v)
      \/ \E e \in Events \cup Calls : LandEvent(e)
  <2>1. ASSUME NEW c \in Calls, CallSteps(c) PROVE UNCHANGED <<evt, verdict>>
    BY <2>1 DEF CallSteps, Call, FindRun, CallFails, LookForPack, UpgradePack, InsertPack, WritePackFile,
                CompleteSaved, InsertDecision, SelectDecision, trail
  <2>2. ASSUME NEW e \in Ends, EndSteps(e) PROVE UNCHANGED <<evt, verdict>>
    BY <2>2 DEF EndSteps, EndSession, FlipRun, LookForAuto, ReadTrail, InsertAuto, WriteAutoFile,
                EndFails, trail
  <2>3. CASE \/ \E r \in Runs : OpenRun(r)
             \/ \E k \in Cancels : CancelSteps(k)
             \/ UNCHANGED vars
    BY <2>3 DEF OpenRun, CancelSteps, CancelCommand, CancelAllAction, Cancelling, LookToCancel,
                WriteCancelled, vars, trail
  <2>4. CASE TrailSteps
    BY <2>4 DEF TrailSteps, HookEvent
  <2> QED
    BY <2>1, <2>2, <2>3, <2>4, NextSteps
<1>5. \A v \in Verdicts : verdict[v] # "none" => verdict'[v] = verdict[v]
  BY <1>0, <1>4 DEF LandVerdict, LandEvent
<1>6. \A e \in Events \cup Calls : evt[e] # "none" => queued[e] # NoRun \/ evt'[e] = evt[e]
  BY <1>0, <1>4 DEF LandVerdict, LandEvent
<1> QED
  BY <1>1, <1>2, <1>3, <1>5, <1>6 DEF OthersStep

\* Every step is one of these.
LEMMA WipingSteps ==
    ASSUME TypeInv, DecisionsOK, [Next]_vars
    PROVE  (OthersStep /\ ~ResetSteps) \/ ResetBegins \/ ResetErrs \/ ResetAdvances
BY OthersWipeNothing, ResetPhases

\* Where a reset that advances stands.
LEMMA Advances ==
    ASSUME TypeInv, AnswerOK, ResetAdvances
    PROVE  /\ reset'.had = reset.had /\ reset.pc \notin {"idle", "done"} /\ reset.answer = "none"
           /\ reset'.pc # "done" => reset'.answer = "none"
           /\ reset'.pc = "done" => reset.pc \in {"runs", "rules", "project"}
           /\ reset'.pc = "ids" => DeleteVerdicts
           /\ reset'.pc = "trail" => ReadRunIds
           /\ reset'.pc = "packs" => DeleteTrail
           /\ reset'.pc = "runs" => DeletePacks
           /\ reset'.pc \in {"ids", "trail", "packs", "runs", "rules", "project", "done"}
           /\ reset'.pc \in {"rules", "project", "done"} => RunsGo \/ LastSteps
BY DEF ResetAdvances, AnswerOK, RunsGo, LastSteps, DeleteVerdicts, ReadRunIds, DeleteTrail, DeletePacks

LEMMA AnswerStays ==
    ASSUME TypeInv, DecisionsOK, AnswerOK, [Next]_vars
    PROVE  AnswerOK'
<1>1. CASE OthersStep
  BY <1>1 DEF OthersStep, AnswerOK
<1>2. CASE ResetBegins \/ ResetErrs
  BY <1>2 DEF ResetBegins, ResetErrs, AnswerOK
<1>3. CASE ResetAdvances
  BY <1>3, Advances DEF AnswerOK
<1> QED
  BY <1>1, <1>2, <1>3, WipingSteps

LEMMA RunsWipedStays ==
    ASSUME TypeInv, DecisionsOK, AnswerOK, RunsWiped, [Next]_vars
    PROVE  RunsWiped'
<1> USE DEF RunsGone, Wiped
<1>1. CASE OthersStep
  BY <1>1 DEF OthersStep, RunsWiped
<1>2. CASE ResetBegins
  BY <1>2, ExportMembers DEF ResetBegins, RunsWiped, Present
<1>3. CASE ResetErrs
  BY <1>3 DEF ResetErrs, RunsWiped
<1>4. CASE ResetAdvances
  <2>1. CASE reset'.pc \in {"ids", "trail", "packs", "runs"}
    <3>1. UNCHANGED run
      BY <1>4, <2>1, Advances DEF DeleteVerdicts, ReadRunIds, DeleteTrail, DeletePacks
    <3>2. reset.pc \in {"verdicts", "ids", "trail", "packs"}
      BY <1>4, <2>1, Advances DEF DeleteVerdicts, ReadRunIds, DeleteTrail, DeletePacks
    <3> QED
      BY <1>4, <2>1, <3>1, <3>2, Advances DEF RunsWiped, Present
  <2>2. CASE RunsGo
    BY <1>4, <2>2, Advances DEF RunsGo, RunsWiped
  <2>3. CASE LastSteps
    BY <1>4, <2>3, Advances DEF LastSteps, RunsWiped
  <2> QED
    BY <1>4, <2>1, <2>2, <2>3, Advances
<1> QED
  BY <1>1, <1>2, <1>3, <1>4, WipingSteps

LEMMA VerdictsWipedStays ==
    ASSUME TypeInv, DecisionsOK, AnswerOK, VerdictsWiped, [Next]_vars
    PROVE  VerdictsWiped'
<1> USE IdsAssumption DEF VerdictsGone, Wiped, Words
<1>1. CASE OthersStep
  BY <1>1 DEF OthersStep, VerdictsWiped
<1>2. CASE ResetBegins
  BY <1>2, ExportMembers DEF ResetBegins, VerdictsWiped
<1>3. CASE ResetErrs
  BY <1>3 DEF ResetErrs, VerdictsWiped
<1>4. CASE ResetAdvances
  <2>1. CASE DeleteVerdicts
    BY <1>4, <2>1, Advances DEF DeleteVerdicts, VerdictsWiped
  <2>2. CASE ~DeleteVerdicts
    <3>1. UNCHANGED verdict /\ VerdictsGone /\ reset'.pc # "verdicts"
      BY <1>4, <2>2, Advances DEF ReadRunIds, DeleteTrail, DeletePacks, RunsGo, LastSteps, trail
    <3> QED
      BY <1>4, <3>1, Advances DEF VerdictsWiped
  <2> QED
    BY <2>1, <2>2
<1> QED
  BY <1>1, <1>2, <1>3, <1>4, WipingSteps

LEMMA DecisionsWipedStays ==
    ASSUME TypeInv, DecisionsOK, AnswerOK, DecisionsWiped, [Next]_vars
    PROVE  DecisionsWiped'
<1> USE DEF TrailGone, Wiped
<1> SUFFICES ASSUME NEW d \in Decides, <<"decision", d>> \in reset'.had
             PROVE  /\ reset'.pc \in {"verdicts", "ids"} => dec'[d] \in Runs
                    /\ reset'.pc = "trail" => dec'[d] \in reset'.ids
                    /\ TrailGone' => dec'[d] = "none" /\ call'[d].pc = "done"
  BY DEF DecisionsWiped
<1>0. /\ call[d].pc = "done" => call'[d].pc = "done"
      /\ dec[d] # "none" => call[d].pc = "done"
      /\ dec[d] \in Runs => Present(dec[d])
      /\ dec \in [Decides -> {"none", "null"} \cup Runs]
      /\ "none" \notin Runs /\ reset.ids \subseteq Runs
  BY CallsProgress, IdsAssumption DEF DecisionsOK, Calls, TypeInv, RowsOK, ActorsOK, ResetType, Words
<1>1. <<"decision", d>> \in reset.had =>
         /\ reset.pc \in {"verdicts", "ids"} => dec[d] \in Runs
         /\ reset.pc = "trail" => dec[d] \in reset.ids
         /\ TrailGone => dec[d] = "none" /\ call[d].pc = "done"
  BY DEF DecisionsWiped
<1>2. CASE OthersStep
  <2>1. UNCHANGED reset /\ (dec[d] # "none" \/ call[d].pc = "done" => dec'[d] = dec[d])
    BY <1>2 DEF OthersStep
  <2> QED
    BY <1>0, <1>1, <2>1
<1>3. CASE ResetBegins
  BY <1>3, ExportMembers DEF ResetBegins
<1>4. CASE ResetErrs
  BY <1>4 DEF ResetErrs
<1>5. CASE ResetAdvances
  <2>0. reset'.had = reset.had
    BY <1>5, Advances
  <2>1. CASE DeleteVerdicts
    BY <1>1, <1>5, <2>0, <2>1, Advances DEF DeleteVerdicts, ResetAdvances, ReadRunIds, DeleteTrail,
       DeletePacks, RunsGo, LastSteps
  <2>2. CASE ReadRunIds
    <3>1. reset.pc = "ids" /\ reset'.pc = "trail" /\ reset'.ids = {r \in Runs : Present(r)} /\ dec' = dec
      BY <1>5, <2>2, Advances DEF ReadRunIds, ResetAdvances, DeleteVerdicts, DeleteTrail, DeletePacks,
         RunsGo, LastSteps, Then
    <3> QED
      BY <1>0, <1>1, <1>5, <2>0, <3>1, Advances
  <2>3. CASE DeleteTrail
    <3>1. /\ reset.pc = "trail" /\ reset'.pc = "packs"
          /\ dec' = [x \in Decides |-> IF dec[x] \in reset.ids THEN "none" ELSE dec[x]]
      BY <1>5, <2>3, Advances DEF ReadRunIds, ResetAdvances, DeleteVerdicts, DeleteTrail, DeletePacks,
         RunsGo, LastSteps
    <3> QED
      BY <1>0, <1>1, <1>5, <2>0, <3>1, Advances
  <2>4. CASE DeletePacks \/ LastSteps
    <3>1. UNCHANGED dec /\ TrailGone /\ reset'.pc \in {"runs", "rules", "project", "done"}
      BY <1>5, <2>4, Advances DEF ReadRunIds, ResetAdvances, DeleteVerdicts, DeleteTrail, DeletePacks,
         RunsGo, LastSteps
    <3> QED
      BY <1>0, <1>1, <2>0, <3>1
  <2>5. CASE RunsGo
    <3>1. /\ TrailGone /\ reset'.pc \in {"rules", "done"}
          /\ dec' = [x \in Decides |-> IF dec[x] \in Runs THEN "null" ELSE dec[x]]
      BY <2>5 DEF RunsGo
    <3> QED
      BY <1>0, <1>1, <2>0, <3>1
  <2> QED
    BY <1>5, <2>1, <2>2, <2>3, <2>4, <2>5 DEF ResetAdvances
<1> QED
  BY <1>2, <1>3, <1>4, <1>5, WipingSteps

\* Each event is queued, and lands, once.
LEMMA OnceStays ==
    ASSUME TypeInv, \A e \in Events \cup Calls : Once(e), [Next]_vars
    PROVE  (\A e \in Events \cup Calls : Once(e))'
<1>0. /\ call \in [Calls -> CallType]
      /\ queued \in [Events \cup Calls -> {NoRun} \cup Runs]
      /\ evt \in [Events \cup Calls -> {"none", "null", "deleted"} \cup Runs]
      /\ "none" \notin Runs
  BY IdsAssumption DEF TypeInv, ActorsOK, RowsOK, RestOK, Words
<1>1. ASSUME UNCHANGED <<evt, queued, call>> PROVE (\A e \in Events \cup Calls : Once(e))'
  BY <1>1 DEF Once
<1>2. ASSUME NEW c \in Calls, CallSteps(c) PROVE (\A e \in Events \cup Calls : Once(e))'
  <2>1. /\ call' = [call EXCEPT ![c] = call'[c]] /\ call[c].pc # "done"
        /\ UNCHANGED evt
    BY <1>2, CallMoves
    DEF CallSteps, Call, FindRun, CallFails, LookForPack, UpgradePack, InsertPack, WritePackFile,
        CompleteSaved, InsertDecision, SelectDecision, trail
  <2>2. \/ queued' = queued
        \/ /\ queued' = [queued EXCEPT ![c] = call[c].run]
           /\ \E a : call' = [call EXCEPT ![c].pc = "done", ![c].answer = a]
    BY <1>2 DEF CallSteps, Call, FindRun, CallFails, LookForPack, UpgradePack, InsertPack, WritePackFile,
                CompleteSaved, InsertDecision, SelectDecision, Goes, Threw, Answer, trail
  <2>3. Once(c) /\ queued[c] = NoRun /\ evt[c] = "none"
    BY <2>1 DEF Once
  <2>4. queued' = queued \/ (queued' = [queued EXCEPT ![c] = call[c].run] /\ call'[c].pc = "done")
    BY <1>0, <2>2 DEF CallType
  <2>5. ASSUME NEW e \in Events \cup Calls PROVE Once(e)'
    <3>1. CASE e = c
      BY <1>0, <2>1, <2>3, <2>4, <3>1 DEF Once
    <3>2. CASE e # c
      BY <1>0, <2>1, <2>4, <3>2 DEF Once
    <3> QED
      BY <3>1, <3>2
  <2> QED
    BY <2>5
<1>3. ASSUME NEW e \in Events \cup Calls, LandEvent(e) PROVE (\A x \in Events \cup Calls : Once(x))'
  BY <1>0, <1>3 DEF LandEvent, Once
<1>4. ASSUME NEW e \in Events \cup Calls, NEW r \in Runs, HookEvent(e, r)
      PROVE  (\A x \in Events \cup Calls : Once(x))'
  <2>1. e \notin Calls
    BY <1>4, IdsAssumption DEF HookEvent, Calls
  <2> QED
    BY <1>0, <1>4, <2>1 DEF HookEvent, Once
<1>5. CASE \/ \E r \in Runs : OpenRun(r)
           \/ \E e \in Ends : EndSteps(e)
           \/ \E k \in Cancels : CancelSteps(k)
           \/ \E v \in Verdicts : LandVerdict(v)
           \/ UNCHANGED vars
  <2>1. UNCHANGED <<evt, queued, call>>
    BY <1>5 DEF OpenRun, EndSteps, EndSession, FlipRun, LookForAuto, ReadTrail, InsertAuto, WriteAutoFile,
                EndFails, CancelSteps, CancelCommand, CancelAllAction, Cancelling, LookToCancel,
                WriteCancelled, LandVerdict, vars, trail
  <2> QED
    BY <1>1, <2>1
<1>6. CASE ResetSteps
  <2>1. /\ UNCHANGED <<queued, call>>
        /\ UNCHANGED evt \/ DeleteTrail \/ DeleteRuns
    BY <1>6 DEF ResetSteps, ResetCommand, DeleteAction, StartReset, DeleteVerdicts, ReadRunIds, DeleteTrail,
                DeletePacks, DeleteRuns, DeleteRules, DeleteProject, ResetFails, trail
  <2>2. reset.ids \subseteq Runs
    BY DEF TypeInv, ActorsOK, ResetType
  <2>3. \A e \in Events \cup Calls : evt[e] = "none" => evt'[e] = "none"
    BY <1>0, <2>1, <2>2 DEF DeleteTrail, DeleteRuns
  <2> QED
    BY <2>1, <2>3 DEF Once
<1> QED
  BY <1>2, <1>3, <1>4, <1>5, <1>6, NextSteps DEF TrailSteps

LEMMA EventsWipedStays ==
    ASSUME TypeInv, DecisionsOK, AnswerOK, EventsWiped, [Next]_vars
    PROVE  EventsWiped'
<1> USE DEF TrailGone, Wiped
<1> SUFFICES ASSUME NEW e \in Events \cup Calls, <<"run_event", e>> \in reset'.had
             PROVE  /\ reset'.pc \in {"verdicts", "ids"} => evt'[e] \in Runs
                    /\ reset'.pc = "trail" => evt'[e] \in reset'.ids
                    /\ TrailGone' => evt'[e] = "deleted"
  BY OnceStays DEF EventsWiped
<1>0. /\ queued[e] # NoRun => evt[e] = "none"
      /\ evt[e] \in Runs => Present(evt[e])
      /\ evt \in [Events \cup Calls -> {"none", "null", "deleted"} \cup Runs]
      /\ "none" \notin Runs /\ "deleted" \notin Runs /\ reset.ids \subseteq Runs
  BY IdsAssumption DEF EventsWiped, Once, TypeInv, RowsOK, ActorsOK, ResetType, Words
<1>1. <<"run_event", e>> \in reset.had =>
         /\ reset.pc \in {"verdicts", "ids"} => evt[e] \in Runs
         /\ reset.pc = "trail" => evt[e] \in reset.ids
         /\ TrailGone => evt[e] = "deleted"
  BY DEF EventsWiped
<1>2. CASE OthersStep
  <2>1. UNCHANGED reset /\ (evt[e] # "none" => queued[e] # NoRun \/ evt'[e] = evt[e])
    BY <1>2 DEF OthersStep
  <2> QED
    BY <1>0, <1>1, <2>1
<1>3. CASE ResetBegins
  BY <1>3, ExportMembers DEF ResetBegins
<1>4. CASE ResetErrs
  BY <1>4 DEF ResetErrs
<1>5. CASE ResetAdvances
  <2>0. reset'.had = reset.had
    BY <1>5, Advances
  <2>1. CASE DeleteVerdicts
    BY <1>1, <1>5, <2>0, <2>1, Advances DEF DeleteVerdicts, ResetAdvances, ReadRunIds, DeleteTrail,
       DeletePacks, RunsGo, LastSteps
  <2>2. CASE ReadRunIds
    <3>1. reset.pc = "ids" /\ reset'.pc = "trail" /\ reset'.ids = {r \in Runs : Present(r)} /\ evt' = evt
      BY <1>5, <2>2, Advances DEF ReadRunIds, ResetAdvances, DeleteVerdicts, DeleteTrail, DeletePacks,
         RunsGo, LastSteps, Then, trail
    <3> QED
      BY <1>0, <1>1, <1>5, <2>0, <3>1, Advances
  <2>3. CASE DeleteTrail
    <3>1. /\ reset.pc = "trail" /\ reset'.pc = "packs"
          /\ evt' = [x \in DOMAIN evt |-> IF evt[x] \in reset.ids THEN "deleted" ELSE evt[x]]
      BY <1>5, <2>3, Advances DEF ReadRunIds, ResetAdvances, DeleteVerdicts, DeleteTrail, DeletePacks,
         RunsGo, LastSteps
    <3> QED
      BY <1>0, <1>1, <1>5, <2>0, <3>1, Advances
  <2>4. CASE DeletePacks \/ LastSteps
    <3>1. UNCHANGED evt /\ TrailGone /\ reset'.pc \in {"runs", "rules", "project", "done"}
      BY <1>5, <2>4, Advances DEF ReadRunIds, ResetAdvances, DeleteVerdicts, DeleteTrail, DeletePacks,
         RunsGo, LastSteps, trail
    <3> QED
      BY <1>0, <1>1, <2>0, <3>1
  <2>5. CASE RunsGo
    <3>1. /\ TrailGone /\ reset'.pc \in {"rules", "done"}
          /\ evt' = [x \in DOMAIN evt |-> IF evt[x] \in Runs THEN "null" ELSE evt[x]]
      BY <2>5 DEF RunsGo
    <3> QED
      BY <1>0, <1>1, <2>0, <3>1
  <2> QED
    BY <1>5, <2>1, <2>2, <2>3, <2>4, <2>5 DEF ResetAdvances
<1> QED
  BY <1>2, <1>3, <1>4, <1>5, WipingSteps

\* An id that is used up stays so.
LEMMA UsedStays ==
    ASSUME TypeInv, [Next]_vars, NEW i \in PackIds, Used(i)
    PROVE  Used(i)'
<1>1. ASSUME i \in Saves PROVE call'[i].pc \in {"file", "complete", "done"}
  <2>1. /\ i \in Calls /\ call[i] \in CallType /\ call \in [Calls -> CallType]
        /\ call[i].pc \in {"file", "complete", "done"}
        /\ call'[i] = call[i] \/ (CallSteps(i) /\ call[i].pc # "done")
    BY <1>1, CallsProgress, CallMoves DEF Used, Calls, TypeInv, ActorsOK
  <2>2. CASE CallSteps(i) /\ call[i].pc # "done"
    <3>1. WritePackFile(i) \/ CompleteSaved(i) \/ CallFails(i)
      BY <2>1, <2>2 DEF CallSteps, Call, FindRun, LookForPack, UpgradePack, InsertPack, InsertDecision,
                        SelectDecision
    <3> QED
      BY <2>1, <3>1 DEF WritePackFile, CompleteSaved, CallFails, Goes, Answer, Threw, CallType
  <2> QED
    BY <2>1, <2>2
<1>2. ASSUME i \in Ends PROVE end'[i].pc \in {"file", "done"}
  <2>1. /\ end[i] \in EndType /\ end \in [Ends -> EndType]
        /\ end[i].pc \in {"file", "done"}
    BY <1>2 DEF Used, TypeInv, ActorsOK
  <2>2. ASSUME NEW f \in Ends, EndSteps(f), f # i PROVE end'[i] = end[i]
    BY <1>2, <2>1, <2>2, EndMoves
  <2>3. end'[i] = end[i] \/ (EndSteps(i) /\ end[i].pc # "done")
    BY <1>2, <2>2, NextSteps, OneMoves, EndMoves DEF vars
  <2>4. CASE EndSteps(i) /\ end[i].pc # "done"
    <3>1. WriteAutoFile(i)
      BY <2>1, <2>4 DEF EndSteps, EndSession, FlipRun, LookForAuto, ReadTrail, InsertAuto, EndFails
    <3> QED
      BY <1>2, <2>1, <3>1 DEF WriteAutoFile, EndType
  <2> QED
    BY <2>1, <2>3, <2>4
<1> QED
  BY <1>1, <1>2 DEF Used

\* A new pack has the id of the call, or the SessionEnd, that inserts it.
LEMMA PackIdsChange ==
    ASSUME TypeInv, [Next]_vars, NEW r \in Runs, NEW i \in Saves \cup Ends, pack'[r].id = i
    PROVE  \/ pack[r].id = i
           \/ i \in Saves /\ call[i].pc = "insert" /\ call'[i].pc = "file" /\ UNCHANGED end
           \/ i \in Ends /\ end[i].pc = "insert" /\ end'[i].pc = "file" /\ UNCHANGED call
<1>0. /\ pack \in [Runs -> Packs \cup {NoPack}] /\ i # "none"
      /\ call \in [Calls -> CallType] /\ end \in [Ends -> EndType]
      /\ \A c \in Calls : call[c].pc # "idle" => call[c].run \in Runs
      /\ \A e \in Ends : end[e].pc # "idle" => end[e].run \in Runs
  BY IdsAssumption DEF TypeInv, RowsOK, ActorsOK, Words
<1>1. CASE UNCHANGED pack
  BY <1>1
<1>2. ASSUME NEW c \in Calls, CallSteps(c), pack[r].id # i
      PROVE  i \in Saves /\ call[i].pc = "insert" /\ call'[i].pc = "file"
  <2>1. CASE UpgradePack(c)
    <3> DEFINE q == call[c].run
    <3>1. q \in Runs /\ pack' # pack
      BY <1>0, <1>2, <2>1 DEF UpgradePack
    <3>2. pack' = [pack EXCEPT ![q] = [pack[q] EXCEPT !.src = "agent", !.text = c, !.lists = {}]]
      BY <2>1, <3>1 DEF UpgradePack
    <3>3. /\ pack'[q] = [pack[q] EXCEPT !.src = "agent", !.text = c, !.lists = {}]
          /\ r # q => pack'[r] = pack[r]
      BY <1>0, <3>1, <3>2
    <3>4. pack'[q].id = pack[q].id
      BY <1>0, <3>1, <3>3 DEF Packs, NoPack
    <3> QED
      BY <1>2, <3>3, <3>4
  <2>2. CASE InsertPack(c)
    <3>1. call[c].pc = "insert" /\ call[c].run \in Runs /\ c \in Saves
      BY <1>0, <2>2 DEF InsertPack
    <3>2. PackFits(call[c].run)
      BY <1>2, <2>2 DEF InsertPack
    <3>3. c = i
      BY <1>0, <1>2, <2>2, <3>1, <3>2 DEF InsertPack
    <3>4. call'[c].pc = "file"
      BY <1>0, <2>2, <3>2 DEF InsertPack, Goes, CallType
    <3> QED
      BY <3>1, <3>3, <3>4
  <2>3. CASE ~UpgradePack(c) /\ ~InsertPack(c)
    BY <1>2, <2>3 DEF CallSteps, Call, FindRun, CallFails, LookForPack, WritePackFile,
                CompleteSaved, InsertDecision, SelectDecision
  <2> QED
    BY <2>1, <2>2, <2>3
<1>3. ASSUME NEW e \in Ends, EndSteps(e), pack[r].id # i
      PROVE  i \in Ends /\ end[i].pc = "insert" /\ end'[i].pc = "file"
  <2>1. CASE InsertAuto(e)
    <3>1. end[e].pc = "insert" /\ end[e].run \in Runs
      BY <1>0, <2>1 DEF InsertAuto
    <3>2. PackFits(end[e].run)
      BY <1>3, <2>1 DEF InsertAuto
    <3>3. e = i
      BY <1>0, <1>3, <2>1, <3>1, <3>2 DEF InsertAuto
    <3>4. end'[e].pc = "file"
      BY <1>0, <2>1, <3>2 DEF InsertAuto, EndType
    <3> QED
      BY <3>1, <3>3, <3>4
  <2>2. CASE ~InsertAuto(e)
    BY <1>3, <2>2 DEF EndSteps, EndSession, FlipRun, LookForAuto, ReadTrail, WriteAutoFile, EndFails
  <2> QED
    BY <2>1, <2>2
<1>4. CASE \/ \E q \in Runs : OpenRun(q)
           \/ \E k \in Cancels : CancelSteps(k)
           \/ TrailSteps \/ UNCHANGED vars
  BY <1>1, <1>4 DEF OpenRun, CancelSteps, CancelCommand, CancelAllAction, Cancelling, LookToCancel,
              WriteCancelled, TrailSteps, LandEvent, HookEvent, LandVerdict, vars
<1>5. CASE ResetSteps
  <2>1. UNCHANGED pack \/ pack' = [q \in Runs |-> NoPack]
    BY <1>5 DEF ResetSteps, ResetCommand, DeleteAction, StartReset, DeleteVerdicts, ReadRunIds, DeleteTrail,
                DeletePacks, DeleteRuns, DeleteRules, DeleteProject, ResetFails
  <2> QED
    BY <1>0, <1>1, <2>1 DEF NoPack
<1> QED
  BY <1>2, <1>3, <1>4, <1>5, NextSteps, OneMoves

LEMMA PacksWipedStays ==
    ASSUME TypeInv, DecisionsOK, AnswerOK, PacksWiped, [Next]_vars
    PROVE  PacksWiped'
<1>0. /\ \A r \in Runs : pack[r].id \in PackIds
      /\ \A r \in Runs : pack'[r].id \in PackIds
      /\ "none" \notin Saves \cup Ends /\ Saves \cap Ends = {}
  <2>1. \A p \in Packs \cup {NoPack} : p.id \in PackIds
    BY DEF Packs, NoPack, PackIds
  <2>2. pack \in [Runs -> Packs \cup {NoPack}] /\ pack' \in [Runs -> Packs \cup {NoPack}]
    BY TypesStay DEF TypeInv, RowsOK
  <2> QED
    BY <2>1, <2>2, IdsAssumption DEF Words
<1>1. ASSUME NEW r \in Runs PROVE Used(pack[r].id)'
  <2>1. CASE pack'[r].id = "none"
    BY <1>0, <2>1 DEF Used
  <2>2. CASE pack'[r].id = pack[r].id
    <3>1. Used(pack[r].id)
      BY DEF PacksWiped
    <3>2. \A i \in PackIds : Used(i) => Used(i)'
      BY UsedStays
    <3> QED
      BY <1>0, <2>2, <3>1, <3>2 DEF Used
  <2>3. CASE pack'[r].id # "none" /\ pack'[r].id # pack[r].id
    <3> DEFINE i == pack'[r].id
    <3>1. i \in Saves \cup Ends
      BY <1>0, <2>3 DEF PackIds
    <3>2. \/ i \in Saves /\ call'[i].pc = "file"
          \/ i \in Ends /\ end'[i].pc = "file"
      BY <2>3, <3>1, PackIdsChange
    <3> QED
      BY <1>0, <3>2 DEF Used
  <2> QED
    BY <2>1, <2>2, <2>3
<1>2. ASSUME NEW i \in Saves \cup Ends, <<"context_pack", i>> \in reset'.had
      PROVE  /\ reset'.pc # "idle" => Used(i)'
             /\ PacksGone' => \A r \in Runs : pack'[r].id # i
  <2>0. /\ <<"context_pack", i>> \in reset.had =>
             /\ reset.pc # "idle" => Used(i)
             /\ PacksGone => \A r \in Runs : pack[r].id # i
        /\ Used(i) => Used(i)'
        /\ \A r \in Runs : Used(pack[r].id)
    BY UsedStays DEF PacksWiped, PackIds
  <2>1. CASE OthersStep
    <3>1. UNCHANGED reset
      BY <2>1 DEF OthersStep
    <3>2. PacksGone' <=> PacksGone
      BY <3>1 DEF PacksGone, Wiped
    <3>3. PacksGone => reset.pc # "idle"
      BY DEF PacksGone, Wiped, AnswerOK
    <3>4. ASSUME PacksGone, NEW r \in Runs PROVE pack'[r].id # i
      <4>1. Used(i) /\ pack[r].id # i
        BY <1>2, <2>0, <3>1, <3>3, <3>4
      <4> QED
        BY <4>1, PackIdsChange DEF Used
    <3> QED
      BY <1>2, <2>0, <3>1, <3>2, <3>4
  <2>2. CASE ResetBegins
    <3>1. <<"context_pack", i>> \in Export /\ ~PacksGone'
      BY <1>2, <2>2 DEF ResetBegins, PacksGone, Wiped
    <3> QED
      BY <2>0, <3>1, ExportMembers
  <2>3. CASE ResetErrs
    BY <1>2, <2>0, <2>3 DEF ResetErrs, PacksGone, Wiped
  <2>4. CASE ResetAdvances
    <3>1. Used(i)' /\ <<"context_pack", i>> \in reset.had
      BY <1>2, <2>0, <2>4, Advances
    <3>2. CASE DeletePacks
      BY <1>0, <3>1, <3>2 DEF DeletePacks, NoPack
    <3>3. CASE RunsGo \/ LastSteps
      <4>1. PacksGone /\ UNCHANGED pack
        BY <3>3 DEF RunsGo, LastSteps, PacksGone
      <4> QED
        BY <2>0, <3>1, <4>1
    <3>4. CASE reset'.pc \in {"ids", "trail", "packs"}
      BY <2>4, <3>1, <3>4, Advances DEF PacksGone, Wiped
    <3> QED
      BY <2>4, <3>2, <3>3, <3>4, Advances
  <2> QED
    BY <2>1, <2>2, <2>3, <2>4, WipingSteps
<1> QED
  BY <1>1, <1>2 DEF PacksWiped

-----------------------------------------------------------------------------
(* The theorems.                                                            *)

IInv == TypeInv /\ SavesOK /\ DecisionsOK /\ EndsOK /\ WipeOK

LEMMA InitIInv == Init => IInv
<1> SUFFICES ASSUME Init PROVE IInv
  OBVIOUS
<1>1. TypeInv
  BY InitTypeInv
<1>2. SavesOK
  BY DEF Init, SavesOK, Saved, Calls
<1>3. DecisionsOK
  BY DEF Init, DecisionsOK, Calls
<1>4. EndsOK
  BY DEF Init, EndsOK, EndOK, Settled, AutoPackOK, NoPack
<1>5. AnswerOK /\ RunsWiped /\ VerdictsWiped /\ DecisionsWiped
  BY DEF Init, AnswerOK, RunsWiped, VerdictsWiped, DecisionsWiped
<1>6. EventsWiped
  BY DEF Init, EventsWiped, Once
<1>7. PacksWiped
  BY IdsAssumption DEF Init, PacksWiped, Used, NoPack, Words
<1> QED
  BY <1>1, <1>2, <1>3, <1>4, <1>5, <1>6, <1>7 DEF IInv, WipeOK

LEMMA NextIInv == IInv /\ [Next]_vars => IInv'
<1> SUFFICES ASSUME IInv, [Next]_vars PROVE IInv'
  OBVIOUS
<1>1. TypeInv' /\ SavesOK' /\ DecisionsOK' /\ EndsOK'
  BY TypesStay, SavesStay, DecisionsStay, EndsStay DEF IInv
<1>2. AnswerOK' /\ RunsWiped' /\ VerdictsWiped'
  BY AnswerStays, RunsWipedStays, VerdictsWipedStays DEF IInv, WipeOK
<1>3. EventsWiped' /\ DecisionsWiped' /\ PacksWiped'
  BY EventsWipedStays, DecisionsWipedStays, PacksWipedStays DEF IInv, WipeOK
<1> QED
  BY <1>1, <1>2, <1>3 DEF IInv, WipeOK

\* The inductive invariant holds of every behaviour.
THEOREM RecordsInvariant == Spec => []IInv
BY InitIInv, NextIInv, PTL DEF Spec

\* The rows of a run and the records of its actors have their types, and the foreign
\* keys hold: no pack, decision or event hangs on a run that is not there.
THEOREM RecordsAreTyped == Spec => []RecordsTypeOK
<1>1. IInv => RecordsTypeOK
  BY TypeInvTypes DEF IInv
<1> QED
  BY <1>1, RecordsInvariant, PTL

\* context-pack.ts: however many saves and SessionEnds run at once, a save that was
\* answered finds its run with a pack of an agent for good.
THEOREM SavesWin == Spec => []SavedMeansAgent
<1>1. IInv => SavedMeansAgent
  <2> SUFFICES ASSUME IInv, NEW c \in Saves, Untouched, Finished(c),
                      call[c].answer \in {"created", "hit", "upgraded"}
               PROVE  pack[call[c].run].src = "agent" /\ pack[call[c].run].text \in Saves
    BY DEF SavedMeansAgent
  <2>1. pack[call[c].run].src = "agent" /\ call[c].run \in Runs
    BY DEF IInv, SavesOK, Saved, AgentsPack, Finished, TypeInv, ActorsOK, Calls
  <2>2. pack[call[c].run] \in Packs
    BY <2>1 DEF IInv, TypeInv, RowsOK, NoPack
  <2> QED
    BY <2>1, <2>2 DEF Packs
<1> QED
  BY <1>1, RecordsInvariant, PTL

\* record-decision/handler.ts: two calls with one description of one run are answered
\* with the same id, whatever comes between, and the run shows that decision.
THEOREM RetriesAgree == Spec => []SameDecisionSameId
<1>1. IInv => SameDecisionSameId
  <2> SUFFICES ASSUME IInv, NEW d \in Decides, NEW e \in Decides,
                      Untouched, Finished(d), Finished(e),
                      call[d].answer \in Decides, call[e].answer \in Decides,
                      call[d].run = call[e].run, DescOf[d] = DescOf[e]
               PROVE  /\ call[d].answer = call[e].answer
                      /\ call[d].answer \in RunWithEverything(call[d].run).decisions
    BY DEF SameDecisionSameId
  <2> DEFINE a == call[d].answer
             b == call[e].answer
  <2>1. dec[a] # "none" /\ Twins(d, a) /\ dec[b] # "none" /\ Twins(e, b)
    BY DEF IInv, DecisionsOK, Finished
  <2>2. Twins(a, b)
    BY <2>1 DEF Twins
  <2>3. a = b
    BY <2>1, <2>2 DEF IInv, DecisionsOK
  <2>4. dec[a] = call[d].run
    BY <2>1 DEF IInv, DecisionsOK, Twins
  <2> QED
    BY <2>3, <2>4 DEF RunWithEverything
<1> QED
  BY <1>1, RecordsInvariant, PTL

\* session-end.ts: the end of a session in which nothing failed leaves its run with a
\* pack and out of progress; an automatic pack has every decision the agent was told of.
THEOREM EndsSettle == Spec => []EndSettlesRun
<1>1. IInv => EndSettlesRun
  <2> SUFFICES ASSUME IInv, NEW e \in Ends, Untouched, end[e].pc = "done", end[e].ok
               PROVE  LET shown == RunWithEverything(end[e].run) IN
                      /\ shown.pack # NoPack /\ shown.status # "in_progress"
                      /\ shown.pack.src = "auto" /\ shown.pack.id = e
                           => end[e].told \subseteq shown.pack.lists
    BY DEF EndSettlesRun
  <2>1. EndOK(e) /\ end[e].run \in Runs /\ AutoPackOK(end[e].run)
    BY DEF IInv, EndsOK, TypeInv, ActorsOK
  <2>2. pack[end[e].run] # NoPack /\ run[end[e].run] # "in_progress"
    BY <2>1 DEF EndOK, Settled
  <2>3. pack[end[e].run].src = "auto" /\ pack[end[e].run].id = e
           => end[e].told \subseteq pack[end[e].run].lists
    BY <2>1 DEF AutoPackOK
  <2>4. /\ RunWithEverything(end[e].run).pack = pack[end[e].run]
        /\ RunWithEverything(end[e].run).status = run[end[e].run]
    BY DEF RunWithEverything
  <2> QED
    BY <2>2, <2>3, <2>4
<1> QED
  BY <1>1, RecordsInvariant, PTL

\* projects.ts: a reset or deletion that was answered as done has left nothing of what
\* the project had when it began, though MCP server and bridge write between its
\* statements; it throws, and says so, where it could not.
THEOREM ResetsWipe == Spec => []ResetWipes
<1>1. IInv => ResetWipes
  <2> SUFFICES ASSUME IInv, Wiped, NEW x \in reset.had PROVE x \notin Export \cup Orphans
    BY DEF ResetWipes, Wiped
  <2>0. /\ VerdictsGone /\ TrailGone /\ PacksGone /\ RunsGone /\ reset.pc # "idle"
        /\ DOMAIN evt = Events \cup Calls
        /\ \A s \in {"none", "null", "global", "deleted"} : s \notin Runs
    BY IdsAssumption
    DEF IInv, TypeInv, RowsOK, WipeOK, AnswerOK, Wiped, VerdictsGone, TrailGone, PacksGone, RunsGone, Words
  <2>1. ASSUME NEW r \in Runs, x = <<"run", r>> PROVE ~Present(r)
    BY <2>0, <2>1 DEF IInv, WipeOK, RunsWiped, Present
  <2>2. ASSUME NEW e \in Events \cup Calls, x = <<"run_event", e>> PROVE evt[e] = "deleted"
    BY <2>0, <2>2 DEF IInv, WipeOK, EventsWiped
  <2>3. ASSUME NEW d \in Decides, x = <<"decision", d>> PROVE dec[d] = "none"
    BY <2>0, <2>3 DEF IInv, WipeOK, DecisionsWiped
  <2>4. ASSUME NEW v \in Verdicts, x = <<"policy_decision", v>> PROVE verdict[v] = "deleted"
    BY <2>0, <2>4 DEF IInv, WipeOK, VerdictsWiped
  <2>5. ASSUME NEW r \in Runs, pack[r] # NoPack PROVE x # <<"context_pack", pack[r].id>>
    <3>1. pack[r].id \in Saves \cup Ends
      BY <2>5 DEF IInv, TypeInv, RowsOK, Packs
    <3> QED
      BY <2>0, <3>1 DEF IInv, WipeOK, PacksWiped
  <2>6. x \notin Export
    BY <2>0, <2>1, <2>2, <2>3, <2>4, <2>5 DEF Export
  <2>7. x \notin Orphans
    BY <2>0, <2>2, <2>3 DEF Orphans, AllDecisions
  <2> QED
    BY <2>6, <2>7
<1> QED
  BY <1>1, RecordsInvariant, PTL
=============================================================================
