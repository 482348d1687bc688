------------------------------ MODULE FeaturePacks -----------------------------
(***************************************************************************)
(* Feature packs: a directory of files per slug, its row in feature_packs,  *)
(* and who writes and reads them.  The CLI's `pack` commands and the seed   *)
(* of init write file by file; the web actions write at one go; the MCP     *)
(* server's get_feature_pack reads the pack and its ancestors, keeps the    *)
(* leaf for a minute and brings the row up to date.  implementation.md and  *)
(* techstack.md take the way of spec.md and are left out.                   *)
(***************************************************************************)
EXTENDS Naturals, Sequences, SequencesExt

CONSTANTS
    Slugs,       \* the packs
    Primary,     \* the pack of the project
    Texts,       \* what a user may write as spec.md
    Gets,        \* concurrent get_feature_pack calls
    TTL,         \* CACHE_TTL_MS in ticks
    MaxGetTicks, \* assumption: a call takes at most so many ticks
    MaxWrites    \* bound: operations that change the disk

VARIABLES
    disk,        \* disk[s]: the directory, meta.json, spec.md
    rows,        \* feature_packs: is_active, or no row; checksum and parent are left out
    op,          \* the CLI command under way: one at a time
    cache,       \* the MCP server's cache: the leaf and its age
    get,         \* the calls
    told,        \* the answer this step gives, and the slugs it has walked
    quiet,       \* ticks since the disk last changed
    writes       \* operations started

vars == <<disk, rows, op, cache, get, told, quiet, writes>>

Root == "no parent"
None == "none"
Stub == "stub"

Meta(parent, kind) == [parent |-> parent, kind |-> kind]
NoFile == [parent |-> Root, kind |-> None]
NoDir == [dir |-> FALSE, meta |-> NoFile, spec |-> None]
NoOp == [cmd |-> None, slug |-> Primary, at |-> "end", meta |-> NoFile, text |-> None,
         force |-> FALSE, found |-> FALSE]
NoEntry == [spec |-> None, parent |-> Root, age |-> 0]
Idle == [at |-> "idle", slug |-> Primary, spec |-> None, meta |-> NoFile, row |-> None,
         path |-> <<>>, chain |-> <<>>, age |-> 0]
Nothing == [slug |-> Primary, ans |-> None, path |-> <<>>, chain |-> <<>>]
Silent == told' = Nothing

Pack(parent, kind, text) == [dir |-> TRUE, meta |-> Meta(parent, kind), spec |-> text]
Clear == [s \in Slugs |-> NoDir]

\* Without a pack; with a seeded primary; with packs that are parents of one another.
Init(on) ==
    /\ disk \in {Clear} \cup
           IF ~on THEN {} ELSE
           {[Clear EXCEPT ![Primary] = Pack(Root, "template", Stub)]}
           \cup {[s \in Slugs |-> Pack(IF s = Primary THEN p ELSE Primary, "freeform", Stub)] :
                   p \in {Root} \cup (Slugs \ {Primary})}
    /\ rows = [s \in Slugs |-> None]
    /\ op = NoOp /\ cache = [s \in Slugs |-> NoEntry] /\ get = [g \in Gets |-> Idle]
    /\ told = Nothing /\ quiet = 0 /\ writes = IF on THEN 0 ELSE MaxWrites

-----------------------------------------------------------------------------
(* Writers.                                                                 *)

Write(s, d) == disk' = [disk EXCEPT ![s] = d] /\ quiet' = 0
Begins == writes < MaxWrites /\ writes' = writes + 1

Starts(o) ==
    /\ op = NoOp /\ Begins /\ op' = o
    /\ Silent /\ UNCHANGED <<disk, rows, cache, get, quiet>>

\* pack new: refuses an existing directory without --force, then loads the template.
New(s) ==
    \E parent \in Slugs \cup {Root}, force \in BOOLEAN :
        /\ disk[s].dir => force
        /\ Starts([NoOp EXCEPT !.cmd = "new", !.slug = s, !.at = "mkdir", !.force = TRUE,
                               !.meta = Meta(parent, "template")])

\* seedFeaturePack of init, and of the web's installTemplateAction, which forces;
\* without a template meta.json names none.  An empty pack is only the directory.
Seed(s) ==
    \E kind \in {"template", "plain", None}, force \in BOOLEAN :
        Starts([NoOp EXCEPT !.cmd = "seed", !.slug = s, !.at = "mkdir", !.force = force,
                            !.meta = Meta(Root, kind)])

\* pack regenerate: meta.json has to name the template.
Regenerate(s) ==
    /\ disk[s].dir /\ disk[s].meta.kind = "template"
    /\ Starts([NoOp EXCEPT !.cmd = "regenerate", !.slug = s, !.at = "load"])

\* pack delete --force, and the web's deletePackAction.
Delete(s) ==
    /\ disk[s].dir
    /\ Starts([NoOp EXCEPT !.cmd = "delete", !.slug = s, !.at = "rm"])

At(pc) == op.at = pc
Goes(pc) == op' = IF pc = "end" THEN NoOp ELSE [op EXCEPT !.at = pc]
There == disk[op.slug]
Same == Silent /\ UNCHANGED <<rows, cache, get, writes>>

MakeDir ==
    /\ At("mkdir") /\ Same
    /\ Write(op.slug, [There EXCEPT !.dir = TRUE])
    /\ Goes(IF op.meta.kind = None THEN "end" ELSE IF op.cmd = "new" THEN "meta" ELSE "look meta")

\* writeIfAbsent: the check, and after an await the write.
LookFor(pc, file) ==
    /\ At(pc) /\ Same /\ UNCHANGED <<disk, quiet>>
    /\ op' = [op EXCEPT !.at = file,
                        !.found = IF file = "meta" THEN There.meta # NoFile ELSE There.spec # None]

WriteMeta ==
    /\ At("meta") /\ Same
    /\ Goes(IF op.cmd = "new" THEN "spec" ELSE "look spec")
    /\ IF op.found /\ ~op.force THEN UNCHANGED <<disk, quiet>>
       ELSE Write(op.slug, [There EXCEPT !.meta = op.meta])

WriteSpec ==
    /\ At("spec") /\ Same
    /\ Goes(IF op.cmd = "new" THEN "register" ELSE "end")
    /\ IF op.found /\ ~op.force THEN UNCHANGED <<disk, quiet>>
       ELSE Write(op.slug, [There EXCEPT !.spec = Stub])

\* registerFeaturePackRow; it fails where another process has just inserted the row.
Register ==
    /\ At("register") /\ Goes("end")
    /\ rows' \in {rows, [rows EXCEPT ![op.slug] = "active"]}
    /\ Silent /\ UNCHANGED <<disk, cache, get, quiet, writes>>

\* The template is loaded; then the files are read, and after an await written back
\* with new sections (AutoMarkers).
ReadBack ==
    /\ At("load") /\ Same /\ UNCHANGED <<disk, quiet>>
    /\ op' = IF There.spec = None THEN NoOp ELSE [op EXCEPT !.at = "back", !.text = There.spec]

WriteBack ==
    /\ At("back") /\ Same /\ Goes("end")
    /\ Write(op.slug, [There EXCEPT !.spec = op.text])

RemoveDir ==
    /\ At("rm") /\ Same /\ Goes("deactivate")
    /\ Write(op.slug, NoDir)

\* deactivatePackRow.
Deactivate ==
    /\ At("deactivate") /\ Goes("end")
    /\ rows' \in {rows, [rows EXCEPT ![op.slug] = IF @ = None THEN None ELSE "inactive"]}
    /\ Silent /\ UNCHANGED <<disk, cache, get, quiet, writes>>

\* saveFeaturePackAction, for a file that has not changed since the editor opened it.
Save(s) ==
    /\ Begins /\ disk[s].dir /\ disk[s].spec # None
    /\ \E t \in Texts : Write(s, [disk[s] EXCEPT !.spec = t])
    /\ Silent /\ UNCHANGED <<rows, op, cache, get>>

\* buildRow: a pack nobody has written yet.
IsTemplateStub(d) == d.meta # NoFile /\ d.meta.kind # "freeform" /\ d.spec \in {Stub, None}

\* uploadPackAction: refuses an existing pack unless forced or a stub, and a link
\* that would make the pack and the primary parents of each other.
Upload(s) ==
    /\ Begins
    /\ \E parent \in (Slugs \ {s}) \cup {Root}, t \in Texts, force, link \in BOOLEAN :
        LET links == link /\ s # Primary
            pack == Pack(parent, "freeform", t)
        IN /\ links => disk[Primary].meta # NoFile /\ parent # Primary
           /\ disk[s].dir => force \/ IsTemplateStub(disk[s])
           /\ disk' = [p \in Slugs |->
                CASE p = s -> pack
                  [] p = Primary /\ p # s /\ links -> [disk[p] EXCEPT !.meta.parent = s]
                  [] OTHER -> disk[p]]
    /\ quiet' = 0
    /\ Silent /\ UNCHANGED <<rows, op, cache, get>>

Step ==
    \/ MakeDir \/ LookFor("look meta", "meta") \/ WriteMeta \/ LookFor("look spec", "spec")
    \/ WriteSpec \/ Register \/ ReadBack \/ WriteBack \/ RemoveDir \/ Deactivate

-----------------------------------------------------------------------------
(* get_feature_pack.  A call has the path of slugs walked so far, the leaf  *)
(* first; the pack it loads is the last of the path.                        *)

Rest == UNCHANGED <<disk, op, quiet, writes>>
Leaf(g) == Len(get[g].path) = 1

Answers(g, call, ans, path, chain) ==
    /\ told' = [slug |-> call.slug, ans |-> ans, path |-> path, chain |-> chain]
    /\ get' = [get EXCEPT ![g] = Idle]

\* walkAncestors: on to the parent of the last pack loaded.
Walk(g, call, cursor) ==
    IF cursor = Root THEN Answers(g, call, "ok", call.path, call.chain)
    ELSE IF cursor \in ToSet(call.path) THEN Answers(g, call, "cycle", Append(call.path, cursor), <<>>)
    ELSE /\ get' = [get EXCEPT ![g] = [call EXCEPT !.at = "look", !.path = Append(@, cursor)]]
         /\ Silent

Ask(g, s) ==
    /\ get[g] = Idle /\ Rest /\ UNCHANGED <<rows, cache>>
    /\ LET call == [Idle EXCEPT !.slug = s, !.path = <<s>>, !.at = "look"]
       IN IF cache[s] = NoEntry THEN get' = [get EXCEPT ![g] = call] /\ Silent
          ELSE Walk(g, [call EXCEPT !.chain = <<cache[s].spec>>], cache[s].parent)

\* existsSync; a leaf that is gone leaves the cache.
Look(g) ==
    /\ get[g].at = "look" /\ Rest /\ UNCHANGED rows
    /\ LET s == Last(get[g].path)
       IN IF disk[s].dir
          THEN /\ get' = [get EXCEPT ![g].at = "read", ![g].spec = "unread", ![g].meta = NoFile]
               /\ Silent /\ UNCHANGED cache
          ELSE /\ cache' = IF Leaf(g) THEN [cache EXCEPT ![s] = NoEntry] ELSE cache
               /\ Answers(g, get[g], "not found", get[g].path, <<>>)

\* readPackFromDisk: the files are read at moments of their own; both have to be there.
ReadSpec(g) ==
    /\ get[g].at = "read" /\ get[g].spec = "unread"
    /\ Rest /\ UNCHANGED <<rows, cache>>
    /\ LET t == disk[Last(get[g].path)].spec
       IN IF t = None THEN Answers(g, get[g], "error", get[g].path, <<>>)
          ELSE get' = [get EXCEPT ![g].spec = t] /\ Silent

ReadMeta(g) ==
    /\ get[g].at = "read" /\ get[g].meta = NoFile
    /\ Rest /\ UNCHANGED <<rows, cache>>
    /\ LET m == disk[Last(get[g].path)].meta
       IN IF m = NoFile THEN Answers(g, get[g], "error", get[g].path, <<>>)
          ELSE get' = [get EXCEPT ![g].meta = m] /\ Silent

\* selectFeaturePackRow.
Select(g) ==
    /\ get[g].at = "read" /\ get[g].spec # "unread" /\ get[g].meta # NoFile
    /\ get' = [get EXCEPT ![g].at = "row", ![g].row = rows[Last(get[g].path)]]
    /\ Rest /\ Silent /\ UNCHANGED <<rows, cache>>

\* A row whose checksum or parent differs is upserted, its is_active as it was seen.  A
\* leaf goes into the cache, which dates it now.
Upsert(g) ==
    LET c == get[g]
        s == Last(c.path)
        upserted == [rows EXCEPT ![s] = IF c.row = None THEN "active" ELSE c.row]
    IN /\ c.at = "row" /\ Rest
       /\ rows' \in {upserted} \cup IF c.row = None THEN {} ELSE {rows}
       /\ cache' = IF ~Leaf(g) THEN cache
                   ELSE [cache EXCEPT ![s] = [spec |-> c.spec, parent |-> c.meta.parent, age |-> 0]]
       /\ Walk(g, [c EXCEPT !.chain = Append(@, c.spec), !.spec = None, !.meta = NoFile,
                            !.row = None], c.meta.parent)

\* A statement throws: the call fails.
Throw(g) ==
    /\ get[g].at \in {"read", "row"}
    /\ Answers(g, get[g], "threw", get[g].path, <<>>)
    /\ Rest /\ UNCHANGED <<rows, cache>>

Serve(g) == Look(g) \/ ReadSpec(g) \/ ReadMeta(g) \/ Select(g) \/ Upsert(g)

-----------------------------------------------------------------------------
\* An answer that reads before the last change may come this late: the load of the
\* leaf, its time in the cache, and the walk of the call that uses it.
Settled == TTL + 2 * MaxGetTicks

\* Mutant of Aged: an entry never expires.
Ageless(e) == e

\* An entry older than CACHE_TTL_MS is as none.
Aged(e) == IF e = NoEntry \/ e.age + 1 >= TTL THEN NoEntry ELSE [e EXCEPT !.age = @ + 1]

Tick ==
    /\ \A g \in Gets : get[g].age < MaxGetTicks
    /\ quiet' = IF quiet < Settled THEN quiet + 1 ELSE quiet
    /\ cache' = [s \in Slugs |-> Aged(cache[s])]
    /\ get' = [g \in Gets |-> IF get[g] = Idle THEN Idle ELSE [get[g] EXCEPT !.age = @ + 1]]
    /\ <<quiet, cache, get>>' # <<quiet, cache, get>>
    /\ Silent
    /\ UNCHANGED <<disk, rows, op, writes>>

\* The MCP server is restarted.
Restart ==
    /\ cache' = [s \in Slugs |-> NoEntry] /\ get' = [g \in Gets |-> Idle] /\ Silent
    /\ <<cache, get>>' # <<cache, get>>
    /\ Rest /\ UNCHANGED rows

Next ==
    \/ Step \/ Tick \/ Restart
    \/ \E s \in Slugs : New(s) \/ Seed(s) \/ Regenerate(s) \/ Delete(s) \/ Save(s) \/ Upload(s)
    \/ \E g \in Gets : Serve(g) \/ Throw(g) \/ \E s \in Slugs : Ask(g, s)

-----------------------------------------------------------------------------
(* Properties.                                                              *)

Whole(s) == disk[s].meta # NoFile /\ disk[s].spec # None

\* Reference: the answer the disk as it is calls for, at the end of the path of parents.
Due(t) ==
    LET p == t.path
        n == Len(p)
    IN /\ n > 0 /\ p[1] = t.slug
       /\ \A i \in 1..n - 1 : Whole(p[i]) /\ p[i + 1] = disk[p[i]].meta.parent
       /\ \A i, j \in 1..n - 1 : p[i] = p[j] => i = j
       /\ \/ /\ t.ans = "ok" /\ Whole(p[n]) /\ disk[p[n]].meta.parent = Root
             /\ Len(t.chain) = n /\ \A i \in 1..n : t.chain[i] = disk[p[i]].spec
          \/ t.ans = "cycle" /\ \E i \in 1..n - 1 : p[i] = p[n]
          \/ t.ans = "not found" /\ ~disk[p[n]].dir
          \/ t.ans = "error" /\ disk[p[n]].dir /\ ~Whole(p[n])

\* lib/feature-pack.ts, "filesystem-first ... 60s cache": once the files have been
\* left alone for the life of a cache entry and the calls around it, get_feature_pack
\* answers what they say: no stale text, no parent cycle that has been mended, no
\* pack reported missing that is there.
EditsAreSeen ==
    quiet = Settled /\ told.ans \notin {None, "threw"} => Due(told)

=============================================================================
