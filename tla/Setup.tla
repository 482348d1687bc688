--------------------------------- MODULE Setup ---------------------------------
(***************************************************************************)
(* contextos init and contextos uninstall: the files they merge their own   *)
(* entries into and take them out of again, file after file, while the user *)
(* edits the same files, a step fails, or the command dies half way.  One   *)
(* command runs at a time.  What init seeds in the database is in Registry, *)
(* the feature pack in FeaturePacks; --dry-run writes nothing.              *)
(***************************************************************************)
EXTENDS Naturals, Sequences, FiniteSets, FiniteSetsExt

CONSTANTS
    Events,      \* hook events of settings.json, HookEvents among them
    HookEvents,  \* CLAUDE_HOOK_EVENTS
    Users,       \* hook entries of the user
    MaxEntries,  \* bound: entries of an event after an edit
    Servers,     \* MCP servers of the user
    EnvKeys,     \* the keys of the baseline
    MaxEdits,    \* bound: edits by the user
    MaxCommands  \* bound: commands

VARIABLES
    file,        \* .contextos.json, .mcp.json, .env, ~/.claude/settings.json
    cmd,         \* the command under way
    user,        \* history: what is the user's in the files
    told,        \* history: what the last command said, until somebody edits
    edits, commands

vars == <<file, cmd, user, told, edits, commands>>

Absent == [is |-> "absent"]
Broken == [is |-> "broken"]                    \* does not parse
Slug(s) == [is |-> "slug", slug |-> s]
Mcp(ours, servers) == [is |-> "mcp", ours |-> ours, servers |-> servers]
Env(keys) == [is |-> "env", keys |-> keys]     \* "none", "user" or "init" by key
Settings(h) == [is |-> "settings", hooks |-> h]

Names == {"marker", "mcp", "env", "settings"}
NoKeys == [k \in EnvKeys |-> "none"]
Unread == [is |-> "unread"]
NoCmd == [kind |-> "none", force |-> FALSE, at |-> 0, next |-> Unread,
          edited |-> FALSE, late |-> FALSE, repeats |-> FALSE, before |-> Unread]

\* An entry is ours if one of its hooks has the bridge's URL: the baseline, one with
\* another matcher or timeout, one the user has added a hook to.  "legacy" has the
\* old matcher and another port.  The entries of an event are in the order of their places.
Entry(kind, place) == [kind |-> kind, place |-> place]
Owned == {"baseline", "stale", "shared"}
Ones(kinds, es) == {r \in es : r.kind \in kinds}
Add(es, kind) == es \cup {Entry(kind, 1 + Max({0} \cup {r.place : r \in es}))}
NoHooks == [e \in Events |-> {}]

-----------------------------------------------------------------------------
(* What a command makes of a file's content c; Broken stands for a throw.   *)

\* One entry is ours, and as it should be.
Current(es) == \E r \in es : r.kind = "baseline" /\ Ones(Owned, es) = {r}

Renewed(es) == Add(es \ Ones(Owned, es), "baseline")

\* Mutant of MergeEvent: one owned entry is replaced, more are left alone.
MergeEventOne(es) == IF Cardinality(Ones(Owned, es)) > 1 THEN es ELSE Renewed(es)

\* mergeEventEntries.
MergeEvent(es) == IF Current(es) THEN es ELSE Renewed(es)

\* mergeClaudeSettings; a forced merge that has nothing to change moves its entries
\* to the end.
MergeSettings(c, force) ==
    LET hooks == IF c = Absent THEN NoHooks ELSE c.hooks
        Merge(all) == [e \in Events |-> IF e \notin HookEvents THEN hooks[e]
                                        ELSE IF all THEN Renewed(hooks[e]) ELSE MergeEvent(hooks[e])]
    IN IF c = Broken THEN Broken ELSE Settings(Merge(force /\ Merge(FALSE) = hooks))

RemoveSettings(c) ==
    IF c \in {Absent, Broken} THEN c
    ELSE Settings([e \in Events |-> c.hooks[e] \ Ones(Owned \cup {"legacy"}, c.hooks[e])])

\* mergeMcpJson: a custom entry stays unless forced.
MergeMcp(c, force) ==
    CASE c = Absent -> Mcp("baseline", {})
      [] c = Broken -> Broken
      [] OTHER -> IF force \/ c.ours = "none" THEN [c EXCEPT !.ours = "baseline"] ELSE c

RemoveMcp(c) == IF c \in {Absent, Broken} THEN c ELSE [c EXCEPT !.ours = "none"]

\* mergeEnvFile.
MergeEnv(c, force) ==
    LET keys == IF c = Absent THEN NoKeys ELSE c.keys
    IN Env([k \in EnvKeys |-> IF force \/ keys[k] = "none" THEN "init" ELSE keys[k]])

\* writeContextosJson: a corrupt file is left alone unless forced.
WriteMarker(c, force) == IF c = Absent \/ force THEN Slug("init") ELSE c

-----------------------------------------------------------------------------
(* The commands: "db" and "runtime" are the steps of init before its files, *)
(* "seed" is the feature pack, "home" the removal of ~/.contextos.          *)

Steps(kind) ==
    IF kind = "init" THEN <<"db", "runtime", "marker", "mcp", "env", "settings", "seed">>
    ELSE <<"settings", "mcp", "home">>

Here == Steps(cmd.kind)[cmd.at]
Running == cmd # NoCmd

Wanted(f, c) ==
    IF cmd.kind = "uninstall" THEN IF f = "mcp" THEN RemoveMcp(c) ELSE RemoveSettings(c)
    ELSE CASE f = "marker" -> WriteMarker(c, cmd.force)
           [] f = "mcp" -> MergeMcp(c, cmd.force)
           [] f = "env" -> MergeEnv(c, cmd.force)
           [] f = "settings" -> MergeSettings(c, cmd.force)

\* What the user has in a file.
Own(f, c) ==
    CASE c \in {Absent, Broken} -> {}
      [] c.is = "settings" -> UNION {{e} \X Ones(Users, c.hooks[e]) : e \in Events}
      [] c.is = "mcp" -> c.servers
      [] c.is = "env" -> {k \in EnvKeys : c.keys[k] = "user"}
      [] c.is = "slug" -> {c.slug} \ {"init"}

\* Files of the user's, with entries of earlier versions.
Earlier(es, u) ==
    [f \in Names |->
       CASE f = "settings" -> Settings([e \in Events |-> es])
         [] f = "mcp" -> Mcp("none", Servers)
         [] f = "env" -> Env([k \in EnvKeys |-> IF k = u THEN "user" ELSE "none"])
         [] f = "marker" -> Absent]

Init(on) ==
    /\ \/ file = [f \in Names |-> Absent]
       \/ /\ on
          /\ \E es \in {{Entry("legacy", 1)}, {Entry("stale", 1), Entry("legacy", 2)},
                        {Entry("stale", 1), Entry("stale", 2)}}, u \in EnvKeys :
                file = Earlier(es, u)
    /\ user = [f \in Names |-> Own(f, file[f])]
    /\ cmd = NoCmd /\ told = "nothing" /\ edits = 0
    /\ commands = IF on THEN 0 ELSE MaxCommands

Begin(kind, force) ==
    /\ ~Running /\ commands < MaxCommands /\ commands' = commands + 1
    /\ cmd' = [NoCmd EXCEPT !.kind = kind, !.force = force, !.at = 1, !.before = file,
                            !.repeats = (kind = "init" /\ ~force /\ told = "ready")]
    /\ told' = IF told = "ready" /\ cmd'.repeats THEN told ELSE "nothing"
    /\ UNCHANGED <<file, user, edits>>

\* What comes after the step; the command ends with its last.
Goes ==
    IF cmd.at < Len(Steps(cmd.kind))
    THEN /\ cmd' = [cmd EXCEPT !.at = @ + 1, !.next = Unread, !.late = FALSE]
         /\ UNCHANGED told
    ELSE /\ cmd' = NoCmd
         /\ told' = CASE cmd.edited -> "nothing"
                      [] ~cmd.edited /\ cmd.kind = "init" -> "ready"
                      [] ~cmd.edited /\ cmd.kind = "uninstall" -> "removed"

Dies == cmd' = NoCmd /\ told' = "nothing"

\* A step without a file; in init the database or the runtime may fail, and seedFeaturePack
\* may throw; the failure of uninstall's last step is only reported.
Other ==
    /\ Running /\ Here \notin Names
    /\ Goes \/ (cmd.kind = "init" /\ Dies)
    /\ UNCHANGED <<file, user, edits, commands>>

\* The file is read.  Nothing to change, unless forced to write: on to the next step.  A
\* throw ends init but where it is about the settings; uninstall reports it and goes on.
ReadFile ==
    /\ Running /\ Here \in Names /\ cmd.next = Unread
    /\ LET want == Wanted(Here, file[Here])
       IN IF want = Broken /\ Here = "mcp" /\ cmd.kind = "init" THEN Dies
          ELSE IF want = Broken \/ (want = file[Here] /\ ~cmd.force) THEN Goes
          ELSE cmd' = [cmd EXCEPT !.next = want] /\ UNCHANGED told
    /\ UNCHANGED <<file, user, edits, commands>>

\* A user's value of a baseline key gives way to a forced init, a user's slug likewise;
\* an edit since the file was read is overwritten.
Forgotten(f) == cmd.late \/ (cmd.force /\ f \in {"env", "marker"})

WriteFile ==
    /\ Running /\ cmd.next # Unread
    /\ file' = [file EXCEPT ![Here] = cmd.next]
    /\ user' = [user EXCEPT ![Here] = IF Forgotten(Here) THEN Own(Here, cmd.next) ELSE @]
    /\ Goes
    /\ UNCHANGED <<edits, commands>>

\* Mutant of Torn: the settings are written in place.
TornAnywhere(f) == {file[f], Broken}

\* What a crash may leave of a file under way: writeFile truncates, and an .env of
\* any length parses; the settings are written beside and renamed.
Torn(f) ==
    CASE f = "settings" -> {file[f]}
      [] f = "env" -> {file[f]} \cup {Env([k \in EnvKeys |-> IF k \in K THEN cmd.next.keys[k] ELSE "none"]) :
                                        K \in SUBSET EnvKeys}
      [] OTHER -> {file[f], Broken}

Crash ==
    /\ Running /\ Dies
    /\ IF cmd.next = Unread THEN UNCHANGED <<file, user>>
       ELSE /\ \E c \in Torn(Here) : file' = [file EXCEPT ![Here] = c]
            /\ user' = IF Here = "settings" THEN user
                       ELSE [user EXCEPT ![Here] = Own(Here, file'[Here])]
    /\ UNCHANGED <<edits, commands>>

-----------------------------------------------------------------------------
(* The user's editor, or the IDE's.                                         *)

\* The baseline's entry is edited.
Turned(es, kind) == {IF r.kind = "baseline" THEN Entry(kind, r.place) ELSE r : r \in es}

\* The settings are written anew, broken, or given an entry more.
Rehooked(c) ==
    {Settings([NoHooks EXCEPT ![e] = Add({}, x)]) : e \in HookEvents, x \in Users}
    \cup IF c.is # "settings" THEN {}
         ELSE {Broken}
              \cup {Settings([c.hooks EXCEPT ![e] = Add(@, x)]) : e \in Events, x \in Users}
              \cup {Settings([c.hooks EXCEPT ![e] = Turned(@, x)]) :
                      e \in HookEvents, x \in {"stale", "shared"}}

Changed(f) ==
    CASE f = "settings" -> Rehooked(file[f])
      [] f = "mcp" -> {Mcp("none", Servers), Mcp("custom", {}), Broken}
      [] f = "env" -> {Env([NoKeys EXCEPT ![k] = "user"]) : k \in EnvKeys}
      [] f = "marker" -> {Slug("user"), Broken}

Edit(f) ==
    /\ edits < MaxEdits /\ edits' = edits + 1
    /\ \E c \in Changed(f) :
        /\ \A e \in Events : c.is = "settings" => Cardinality(c.hooks[e]) <= MaxEntries
        /\ file' = [file EXCEPT ![f] = c]
        /\ user' = [user EXCEPT ![f] = Own(f, c)]
    /\ cmd' = IF ~Running THEN cmd
              ELSE [cmd EXCEPT !.edited = TRUE, !.repeats = FALSE,
                               !.late = @ \/ (cmd.next # Unread /\ Here = f)]
    /\ told' = "nothing"
    /\ UNCHANGED commands

Next ==
    \/ \E force \in BOOLEAN : Begin("init", force)
    \/ Begin("uninstall", FALSE)
    \/ Other \/ ReadFile \/ WriteFile \/ Crash
    \/ \E f \in Names : Edit(f)

-----------------------------------------------------------------------------
(* Properties.                                                              *)

\* claude-settings-merge.ts, "user entries stay preserved", mcp-merge.ts and
\* env-merge.ts likewise: what the user wrote last is there, but for an edit within the
\* command's own read and write, and a file a crash has truncated.
OthersStay == \A f \in Names : Own(f, file[f]) = user[f]

\* "ContextOS is ready": one entry of ours for each event, a server in .mcp.json, every
\* key in .env -- unless the settings do not parse, of which init only warns.
ReadyIsReady ==
    told = "ready" /\ ~Running =>
        /\ file["settings"] # Broken =>
              \A e \in HookEvents : Current(file["settings"].hooks[e])
        /\ file["mcp"].ours # "none"
        /\ \A k \in EnvKeys : file["env"].keys[k] # "none"
        /\ file["marker"] # Absent

\* "Idempotent": a second init, not forced, changes nothing.
AgainIsNothing == cmd.repeats => file = cmd.before

\* "reverse contextos init writes": after uninstall nothing of ours is left in the
\* files it takes on.
RemovedIsGone ==
    told = "removed" =>
        /\ file["settings"].is = "settings" =>
              \A e \in Events : \A r \in file["settings"].hooks[e] : r.kind \in Users
        /\ file["mcp"].is = "mcp" => file["mcp"].ours = "none"

\* init and uninstall, whatever came before: crashes, edits, forced and repeated runs.
SetupIsClean == OthersStay /\ ReadyIsReady /\ AgainIsNothing /\ RemovedIsGone

=============================================================================
