------------------------------ MODULE FeatureFiles -----------------------------
(***************************************************************************)
(* docs/features: a directory per feature with its feature.md, and the two  *)
(* index files that generateFeaturesIndex derives from them.  CLI commands, *)
(* web actions, git and editors change the features; every command, every   *)
(* session that starts and every list_features generates the index again.   *)
(* They run in processes of their own: a generation lists the directory,    *)
(* reads one feature after the other and writes the two files.              *)
(***************************************************************************)
EXTENDS Naturals, FiniteSets, FiniteSetsExt

CONSTANTS
    NFeatures,   \* the slugs are 1..NFeatures
    Texts,       \* what feature.md may say; "bad" does not parse
    Size,        \* bytes of an entry, by text
    Header, Footer, Reservation, MaxIndexBytes,  \* bytes of the injected block
    Tasks,       \* concurrent commands, actions and sessions
    MaxClock     \* bound: changes of the disk and crashes

VARIABLES
    root,        \* docs/features is there
    disk,        \* disk[f]: no feature, or the text and when it was last written
    md, json,    \* INDEX.md and INDEX.json: sets of rows
    task,        \* the generations under way
    told,        \* the features this step tells a session of
    clock        \* writes so far

vars == <<root, disk, md, json, task, told, clock>>

Features == 1..NFeatures
Bad == "bad"
NoFeature == [text |-> "none", upd |-> 0]
Idle == [at |-> "idle", todo |-> {}, rows |-> {}, session |-> FALSE, was |-> {}, steady |-> {}]
Nothing == [rows |-> {}, was |-> {}, steady |-> {}]

Row(f, d) == [slug |-> f, text |-> d[f].text, upd |-> d[f].upd]
Present(d) == {f \in Features : d[f] # NoFeature}
Rows(d) == {Row(f, d) : f \in Present(d)}

\* No features yet, or an indexed feature for every slug.
Init(on) ==
    /\ root \in {FALSE, on}
    /\ disk = [f \in Features |-> IF root THEN [text |-> "small", upd |-> f] ELSE NoFeature]
    /\ md = Rows(disk) /\ json = Rows(disk)
    /\ task = [t \in Tasks |-> Idle] /\ told = Nothing
    /\ clock = IF on THEN NFeatures ELSE MaxClock

-----------------------------------------------------------------------------
(* Changes of the features.                                                 *)

\* A generation under way may have met the feature before or after the change.
Noticed(d) ==
    [t \in Tasks |-> IF task[t] = Idle THEN Idle
                     ELSE [task[t] EXCEPT !.was = @ \cup Rows(d),
                                          !.steady = {r \in @ : r \in Rows(d)}]]

Put(f, x) ==
    /\ clock < MaxClock /\ clock' = clock + 1
    /\ disk' = [disk EXCEPT ![f] = x]

Text(t) == [text |-> t, upd |-> clock + 1]
Generating == [Idle EXCEPT !.at = "list"]
Starts(t, g) == task' = [Noticed(disk') EXCEPT ![t] = g]

\* A command or action has changed feature f and goes on to generate.
Changes(t, f, texts) ==
    /\ task[t] = Idle
    /\ \E text \in texts : Put(f, Text(text))
    /\ Starts(t, Generating) /\ told' = Nothing
    /\ UNCHANGED <<md, json>>

\* feature add and createFeatureAction; over an existing feature.md when forced.
Add(t, f) == Changes(t, f, Texts \ {Bad}) /\ root' = TRUE

\* importFeaturesAction never replaces one; its further items are as edits by hand.
Import(t, f) ==
    /\ disk[f] = NoFeature
    /\ Changes(t, f, Texts \ {Bad}) /\ root' = TRUE

\* editFeatureMetaAction: the rendered file has to parse.
Edit(t, f) ==
    /\ disk[f] # NoFeature
    /\ Changes(t, f, Texts \ {Bad}) /\ UNCHANGED root

\* uploadFeatureFileAction adds a file to the feature: the same text, but later.
Upload(t, f) ==
    /\ disk[f] # NoFeature
    /\ Changes(t, f, {disk[f].text}) /\ UNCHANGED root

\* feature remove --force and removeFeatureAction.
Remove(t, f) ==
    /\ task[t] = Idle /\ disk[f] # NoFeature
    /\ Put(f, NoFeature)
    /\ Starts(t, Generating) /\ told' = Nothing
    /\ UNCHANGED <<root, md, json>>

\* An editor, also the one of feature edit when the file does not parse, or git.
HandEdit(f) ==
    /\ root
    /\ \E text \in Texts : Put(f, Text(text))
    /\ task' = Noticed(disk') /\ told' = Nothing
    /\ UNCHANGED <<root, md, json>>

-----------------------------------------------------------------------------
(* generateFeaturesIndex.                                                   *)

Same == UNCHANGED <<root, disk, clock>>

\* feature index, reindexFeaturesAction, feature edit; list_features where there is
\* a directory.
Reindex(t) ==
    /\ task[t] = Idle /\ task' = [task EXCEPT ![t] = Generating]
    /\ told' = Nothing /\ Same /\ UNCHANGED <<md, json>>

\* loadFeaturesIndexForSession.
Session(t) ==
    /\ task[t] = Idle /\ root
    /\ task' = [task EXCEPT ![t] = [Generating EXCEPT !.session = TRUE]]
    /\ told' = Nothing /\ Same /\ UNCHANGED <<md, json>>

\* readdirSync; the directory is made if it is missing.
List(t) ==
    /\ task[t].at = "list" /\ root' = TRUE
    /\ task' = [task EXCEPT ![t].at = "read", ![t].todo = Present(disk),
                            ![t].was = Rows(disk), ![t].steady = Rows(disk)]
    /\ told' = Nothing /\ UNCHANGED <<disk, clock, md, json>>

\* readFeatureRow: a feature that is gone by now has no row.
ReadFeature(t) ==
    /\ task[t].at = "read"
    /\ task[t].todo # {}
    /\ LET f == Min(task[t].todo)
       IN task' = [task EXCEPT ![t].todo = @ \ {f},
                               ![t].rows = IF disk[f] = NoFeature THEN @ ELSE @ \cup {Row(f, disk)}]
    /\ told' = Nothing /\ Same /\ UNCHANGED <<md, json>>

WriteMd(t) ==
    /\ task[t].at = "read" /\ task[t].todo = {}
    /\ md' = task[t].rows
    /\ task' = [task EXCEPT ![t].at = IF md' = md THEN "json same md" ELSE "json"]
    /\ told' = Nothing /\ Same /\ UNCHANGED json

\* Mutant of JsonBody: INDEX.json is only compared when INDEX.md has changed.
JsonWithMd(t) == IF task[t].at = "json" THEN task[t].rows ELSE json

JsonBody(t) == task[t].rows

-----------------------------------------------------------------------------
(* renderForInjection.                                                      *)

\* Entry after entry, byte after byte.
Bytes(rows) == Header + Cardinality(UNION {{r} \X (1..Size[r.text]) : r \in rows})

\* byRecency: the sort keeps those of one date in the order of their slugs.
Before(q, r) == q.upd > r.upd \/ (q.upd = r.upd /\ q.slug < r.slug)
Newest(rows, k) == {r \in rows : Cardinality({q \in rows : Before(q, r)}) < k}
Larger(a, b) == IF a > b THEN a ELSE b

\* Mutant of EntryBudget: nothing is kept for the footer.
WholeBudget == MaxIndexBytes

EntryBudget == Larger(MaxIndexBytes - Reservation, MaxIndexBytes \div 2)

\* The most recent entries, up to the first that does not fit.
Recent(rows) ==
    LET fits(k) == \A j \in 1..k : Bytes(Newest(rows, j)) <= EntryBudget
    IN Newest(rows, Max({k \in 0..Cardinality(rows) : fits(k)}))

Inject(rows) ==
    IF Bytes(rows) <= MaxIndexBytes THEN [shown |-> rows, bytes |-> Bytes(rows)]
    ELSE [shown |-> Recent(rows), bytes |-> Bytes(Recent(rows)) + Footer]

\* Mutant of Loaded: the session is told what the index file said.
LoadedFromFile(t) == json

\* The loader takes the rows of its own walk.
Loaded(t) == task[t].rows

\* The generation ends; a session is told of the features, if there are any.
WriteJson(t) ==
    /\ task[t].at \in {"json", "json same md"}
    /\ json' = JsonBody(t)
    /\ told' = IF ~task[t].session \/ Loaded(t) = {} THEN Nothing
               ELSE [rows |-> Loaded(t), was |-> task[t].was, steady |-> task[t].steady]
    /\ task' = [task EXCEPT ![t] = Idle]
    /\ Same /\ UNCHANGED md

\* The process dies, or a write throws.
Crash(t) ==
    /\ task[t] # Idle /\ clock < MaxClock /\ clock' = clock + 1
    /\ task' = [task EXCEPT ![t] = Idle] /\ told' = Nothing
    /\ UNCHANGED <<root, disk, md, json>>

Generate(t) == List(t) \/ ReadFeature(t) \/ WriteMd(t) \/ WriteJson(t)

Next ==
    \/ \E t \in Tasks : Generate(t) \/ Reindex(t) \/ Session(t) \/ Crash(t)
    \/ \E t \in Tasks, f \in Features : Add(t, f) \/ Import(t, f) \/ Edit(t, f) \/ Upload(t, f)
                                        \/ Remove(t, f)
    \/ \E f \in Features : HandEdit(f)

-----------------------------------------------------------------------------
(* Properties.                                                              *)

\* features-index-loader.ts: "drop the OLDEST first so the most-recently-touched
\* features survive", under the size cap: what a session is told fits, no feature left
\* out is newer than one that is shown, and something is, unless the newest is too large
\* by itself.
InjectionFits ==
    LET block == Inject(told.rows)
    IN told # Nothing =>
        /\ block.bytes <= MaxIndexBytes
        /\ block.shown # {} \/ Bytes(Newest(told.rows, 1)) > EntryBudget
        /\ \A r \in block.shown, q \in told.rows \ block.shown : Before(r, q)

\* A session is told of what is on the disk, whoever changes it meanwhile: every
\* feature that stays as it is, and none that was not there while it looked.
ToldWasThere == told.steady \subseteq told.rows /\ told.rows \subseteq told.was

\* What a session is told is right and fits (features-index-loader.ts): both of the above.
SessionsAreTold == InjectionFits /\ ToldWasThere

\* "the next session repairs it": two generations may overtake each other and a crash
\* may leave one file behind, but once nobody edits and sessions still start, both
\* index files come to say what the disk says.
IndexCatchesUp == clock = MaxClock ~> [](md = Rows(disk) /\ json = Rows(disk))

=============================================================================
