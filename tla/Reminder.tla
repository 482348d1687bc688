------------------------------- MODULE Reminder -------------------------------
(***************************************************************************)
(* The mid-session reminder: the bridge counts the tool calls of a run in   *)
(* its memory, and tells the agent once to save a context pack.  Events     *)
(* overlap; the runs row may not be there yet; the agent saves through      *)
(* another process, which the bridge finds out in the database; the session *)
(* ends, or the bridge restarts and forgets.                                *)
(***************************************************************************)
EXTENDS Naturals, FiniteSets

CONSTANTS
    Posts,         \* PostToolUse events
    Threshold      \* 15 in the code

VARIABLES
    opened,        \* the runs row is in the database
    pack,          \* the source of the run's context pack
    memory,        \* the counter in the bridge
    post,          \* the events
    reminded,      \* history: reminders since the memory was last empty
    counted,       \* history: events counted since
    nagged,        \* history: one reminded although the pack was there when it came
    ending,        \* a SessionEnd has yet to write its pack
    restarted

vars == <<opened, pack, memory, post, reminded, counted, nagged, ending, restarted>>

Forgotten == [n |-> 0, fired |-> FALSE, saved |-> FALSE]
Unsent == [at |-> "unsent", late |-> FALSE, old |-> FALSE]   \* old: counted before the last forgetting

Init(on) ==
    /\ opened = ~on /\ pack = "none" /\ memory = Forgotten
    /\ post = [i \in Posts |-> IF on THEN Unsent ELSE [Unsent EXCEPT !.at = "done"]]
    /\ reminded = 0 /\ counted = 0 /\ nagged = FALSE /\ ending = FALSE /\ restarted = ~on

\* The outbox puts the row in.
RunLands == ~opened /\ opened' = TRUE /\ UNCHANGED <<pack, memory, post, reminded, counted, nagged, ending, restarted>>

\* The event is recorded; then its run is looked up.
Arrives(i) ==
    /\ post[i].at = "unsent"
    /\ post' = [post EXCEPT ![i].at = "run", ![i].late = pack = "agent"]
    /\ UNCHANGED <<opened, pack, memory, reminded, counted, nagged, ending, restarted>>

\* Mutant of Counted: that it fired is not noted before the database is asked.
CountedOnly(s) == [s EXCEPT !.n = @ + 1]

Fires(s) == ~s.fired /\ ~s.saved /\ s.n + 1 >= Threshold
Counted(s) == [s EXCEPT !.n = @ + 1, !.fired = @ \/ Fires(s)]

\* No row, or no answer: the event is not counted.
FindsNoRun(i) ==
    /\ post[i].at = "run" /\ post' = [post EXCEPT ![i].at = "done"]
    /\ UNCHANGED <<opened, pack, memory, reminded, counted, nagged, ending, restarted>>

FindsRun(i) ==
    /\ post[i].at = "run" /\ opened
    /\ memory' = Counted(memory) /\ counted' = counted + 1
    /\ post' = [post EXCEPT ![i].at = IF Fires(memory) THEN "pack" ELSE "done"]
    /\ UNCHANGED <<opened, pack, reminded, nagged, ending, restarted>>

\* A pack of the agent's own counts; the bridge's does not.
FindsPack(i) ==
    /\ post[i].at = "pack" /\ pack = "agent"
    /\ memory' = [memory EXCEPT !.saved = TRUE]
    /\ post' = [post EXCEPT ![i].at = "done"]
    /\ UNCHANGED <<opened, pack, reminded, counted, nagged, ending, restarted>>

\* Also when the lookup fails.
Reminds(i) ==
    /\ post[i].at = "pack"
    /\ \E failed \in BOOLEAN :
          /\ failed \/ pack # "agent"
          /\ nagged' = (nagged \/ (~failed /\ post[i].late))
    /\ reminded' = IF post[i].old THEN reminded ELSE reminded + 1
    /\ post' = [post EXCEPT ![i].at = "done"]
    /\ UNCHANGED <<opened, pack, memory, counted, ending, restarted>>

\* save_context_pack, in the MCP server.
AgentSaves ==
    /\ opened /\ pack # "agent" /\ pack' = "agent"
    /\ UNCHANGED <<opened, memory, post, reminded, counted, nagged, ending, restarted>>

Forgets == memory' = Forgotten /\ reminded' = 0 /\ counted' = 0

\* SessionEnd forgets the run, while its events may be under way, and then writes a pack
\* where there is none.
Ends ==
    /\ opened /\ Forgets /\ ending' = TRUE
    /\ post' = [i \in Posts |-> [post[i] EXCEPT !.old = @ \/ post[i].at = "pack"]]
    /\ UNCHANGED <<opened, pack, nagged, restarted>>

SavesAuto ==
    /\ ending /\ ending' = FALSE
    /\ pack' = IF pack = "none" THEN "bridge_auto" ELSE pack
    /\ UNCHANGED <<opened, memory, post, reminded, counted, nagged, restarted>>

\* The bridge starts again; what was under way is lost.
Restarts ==
    /\ ~restarted /\ restarted' = TRUE /\ Forgets /\ ending' = FALSE
    /\ post' = [i \in Posts |-> IF post[i].at \in {"run", "pack"}
                                THEN [post[i] EXCEPT !.at = "done"] ELSE post[i]]
    /\ UNCHANGED <<opened, pack, nagged>>

Next ==
    \/ RunLands \/ AgentSaves \/ Ends \/ SavesAuto \/ Restarts
    \/ \E i \in Posts : Arrives(i) \/ FindsNoRun(i) \/ FindsRun(i) \/ FindsPack(i) \/ Reminds(i)

-----------------------------------------------------------------------------
(* Properties.                                                              *)

\* An agent is reminded once, and not of what it had done when the event came; and after
\* as many events as it takes it has been reminded, has saved, or is about to be asked for.
ReminderIsFair ==
    /\ reminded <= 1 /\ ~nagged
    /\ counted >= Threshold =>
          reminded = 1 \/ pack = "agent" \/ \E i \in Posts : post[i].at = "pack"

=============================================================================
