--------------------------- MODULE KillSwitchGate ---------------------------
(***************************************************************************)
(* The kill-switch check of a PreToolUse in the hooks bridge                *)
(* (kill-switch-evaluator.ts, listActiveKillSwitches,                       *)
(* findKillSwitchMatchingEvent): hooks of one project share a cached list   *)
(* of the active switches, which the operator changes under it. Checks      *)
(* overlap: a list that was read slowly may replace a younger one.          *)
(***************************************************************************)
EXTENDS Integers

CONSTANTS
    Switches,   \* the switches that may be paused, each one once
    Expiring,   \* those with expires_at
    Duration,   \* Duration[s]: expires_at - paused_at
    Matches,    \* those whose scope and target fit the event
    Checks,     \* the slots of concurrent checks
    CacheMs,    \* the TTL of the cached list
    NoSwitch,
    MaxTime     \* bound of the clock

ASSUME GateAssumption ==
    /\ Expiring \subseteq Switches /\ Matches \subseteq Switches
    /\ Duration \in [Switches -> Nat]
    /\ CacheMs \in Nat \ {0}
    /\ NoSwitch \notin Switches

VARIABLES
    now,
    paused,     \* the rows there are
    resumed,    \* those with resumed_at
    pausedAt, resumedAt,
    cache,      \* the cached list and its expiresAt
    check       \* check[k]: the check in slot k

vars == <<now, paused, resumed, pausedAt, resumedAt, cache, check>>

Check == [pc : {"idle", "fetch", "store", "matched", "none", "unavailable"},
          at : Nat,                          \* clock() at its start
          switches : SUBSET Switches,        \* the list it goes by
          answer : Switches \cup {NoSwitch}]

Init ==
    /\ now = 0
    /\ paused = {} /\ resumed = {}
    /\ pausedAt = [s \in Switches |-> 0]
    /\ resumedAt = [s \in Switches |-> 0]
    /\ cache = [switches |-> {}, expiresAt |-> 0]
    /\ check = [k \in Checks |-> [pc |-> "idle", at |-> 0, switches |-> {},
                                  answer |-> NoSwitch]]

Tick ==
    /\ now < MaxTime
    /\ now' = now + 1
    /\ UNCHANGED <<paused, resumed, pausedAt, resumedAt, cache, check>>

-----------------------------------------------------------------------------
(* The operator.                                                            *)

Pause(s) ==
    /\ s \notin paused
    /\ paused' = paused \cup {s}
    /\ pausedAt' = [pausedAt EXCEPT ![s] = now]
    /\ UNCHANGED <<now, resumed, resumedAt, cache, check>>

Resume(s) ==
    /\ s \in paused \ resumed
    /\ resumed' = resumed \cup {s}
    /\ resumedAt' = [resumedAt EXCEPT ![s] = now]
    /\ UNCHANGED <<now, paused, pausedAt, cache, check>>

-----------------------------------------------------------------------------
(* The check.                                                               *)

Expired(s, t) == s \in Expiring /\ pausedAt[s] + Duration[s] <= t

\* A mutant of Active: expires_at is not looked at.
ActiveUnresumed(t) == paused \ resumed

\* listActiveKillSwitches(db, projectId, {now: t}).
Active(t) == {s \in paused \ resumed : ~ Expired(s, t)}

\* A mutant of First: any switch that fits.
FirstAny(L) == L \cap Matches

\* findKillSwitchMatchingEvent, by paused_at ASC; a tie goes either way.
First(L) ==
    {s \in L \cap Matches : \A r \in L \cap Matches : pausedAt[s] <= pausedAt[r]}

\* What the check of slot k answers by the list L.
Answers(k, at, L) ==
    \/ \E s \in First(L) :
         check' = [check EXCEPT ![k] =
                     [pc |-> "matched", at |-> at, switches |-> L, answer |-> s]]
    \/ /\ L \cap Matches = {}
       /\ check' = [check EXCEPT ![k] =
                      [pc |-> "none", at |-> at, switches |-> L, answer |-> NoSwitch]]

\* A mutant of Fresh: the entry serves a moment too long.
FreshAtExpiry == cache.expiresAt >= now

Fresh == cache.expiresAt > now

Begin(k) ==
    /\ check[k].pc \notin {"fetch", "store"}
    /\ \/ Fresh /\ Answers(k, now, cache.switches)
       \/ /\ ~ Fresh
          /\ check' = [check EXCEPT ![k] = [pc |-> "fetch", at |-> now,
                                            switches |-> {}, answer |-> NoSwitch]]
    /\ UNCHANGED <<now, paused, resumed, pausedAt, resumedAt, cache>>

\* fetchActive; a throw is answered with null and not cached.
Fetch(k) ==
    /\ check[k].pc = "fetch"
    /\ \/ check' = [check EXCEPT ![k].pc = "store",
                                 ![k].switches = Active(check[k].at)]
       \/ check' = [check EXCEPT ![k].pc = "unavailable"]
    /\ UNCHANGED <<now, paused, resumed, pausedAt, resumedAt, cache>>

\* Mutants of ExpiresAt: the entry is dated when it is stored; the TTL is
\* subtracted.
ExpiresAtStored(k) == now + CacheMs
ExpiresAt(k) == check[k].at + CacheMs

Store(k) ==
    /\ check[k].pc = "store"
    /\ cache' = [switches |-> check[k].switches, expiresAt |-> ExpiresAt(k)]
    /\ Answers(k, check[k].at, check[k].switches)
    /\ UNCHANGED <<now, paused, resumed, pausedAt, resumedAt>>

Next ==
    \/ Tick
    \/ \E s \in Switches : Pause(s) \/ Resume(s)
    \/ \E k \in Checks : Begin(k) \/ Fetch(k) \/ Store(k)

Spec == Init /\ [][Next]_vars

-----------------------------------------------------------------------------
(* Properties.                                                              *)

TypeOK ==
    /\ now \in Nat
    /\ paused \subseteq Switches /\ resumed \subseteq paused
    /\ pausedAt \in [Switches -> Nat] /\ resumedAt \in [Switches -> Nat]
    /\ cache \in [switches : SUBSET Switches, expiresAt : Nat]
    /\ check \in [Checks -> Check]

\* The 5s window of kill-switch-evaluator.ts, for a pause: a check that starts
\* CacheMs after a switch was paused goes by that switch or by an older one,
\* as long as the switch is on and the lookup does not fail -- however slow the
\* lookups are and in whatever order they store their lists.
PausesBind ==
    \A k \in Checks, s \in (paused \ resumed) \cap Matches :
        /\ check[k].pc \in {"matched", "none"}
        /\ pausedAt[s] + CacheMs <= check[k].at
        /\ ~ Expired(s, check[k].at)
        => /\ check[k].pc = "matched"
           /\ pausedAt[check[k].answer] <= pausedAt[s]

\* The window for a resume and an expiry: no check goes by a switch that was
\* resumed or had expired CacheMs before it started.
ResumesBind ==
    \A k \in Checks :
        check[k].pc = "matched" =>
            LET s == check[k].answer IN
            /\ s \in resumed => resumedAt[s] + CacheMs > check[k].at
            /\ ~ Expired(s, check[k].at - CacheMs)

=============================================================================
