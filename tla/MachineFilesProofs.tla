--------------------------- MODULE MachineFilesProofs --------------------------
(***************************************************************************)
(* Proofs about the files of a developer's machine: the feature packs and   *)
(* what get_feature_pack answers of them, and the files that init and       *)
(* uninstall merge; for any packs, parents, texts, calls, events, hooks,    *)
(* servers and keys.  Each part has its own inductive invariant.            *)
(***************************************************************************)
EXTENDS Workstation, TLAPS

-----------------------------------------------------------------------------
(* Feature packs.                                                           *)

Parents == Slugs \cup {P!Root}
Metas == [parent : Parents, kind : {P!None, "template", "plain", "freeform"}]
Specs == PackTexts \cup {P!Stub, P!None}
PackDirs == [dir : BOOLEAN, meta : Metas, spec : Specs]
PackOps == [cmd : {P!None, "new", "seed", "regenerate", "delete"}, slug : Slugs,
            at : {"mkdir", "look meta", "meta", "look spec", "spec", "register", "load", "back",
                  "rm", "deactivate", "end"},
            meta : Metas, text : Specs, force : BOOLEAN, found : BOOLEAN]
PackRows == {P!None, "active", "inactive"}
Entries == [spec : Specs \cup {"unread"}, parent : Parents, age : Nat]
Gettings == [at : {"idle", "look", "read", "row"}, slug : Slugs, spec : Specs \cup {"unread"},
             meta : Metas, row : PackRows, path : Seq(Slugs), chain : Seq(Specs \cup {"unread"}), age : Nat]

PacksTypes ==
    /\ disk \in [Slugs -> PackDirs] /\ rows \in [Slugs -> PackRows] /\ op \in PackOps
    /\ cache \in [Slugs -> Entries] /\ get \in [Gets -> Gettings] /\ quiet \in Nat

\* The pack is on the disk, with this text and this parent.
Has(s, text, parent) == P!Whole(s) /\ disk[s].spec = text /\ disk[s].meta.parent = parent

\* An entry that was loaded by a call that began after the last change is what the disk has.
EntryOK(s, e) ==
    e # P!NoEntry =>
        /\ e.spec # P!None /\ e.age < TTL
        /\ quiet > e.age + MaxGetTicks => Has(s, e.spec, e.parent)

\* What has been walked of a path: the packs before the last are loaded.
PathOK(c) ==
    LET p == c.path
        n == Len(p)
    IN /\ c.age <= MaxGetTicks
       /\ n # 0 /\ p[1] = c.slug /\ Len(c.chain) = n - 1
       /\ \A i, j \in 1..n : p[i] = p[j] => i = j
       /\ quiet >= c.age + TTL + MaxGetTicks =>
             \A i \in 1..n - 1 : Has(p[i], c.chain[i], p[i + 1])

\* What has been read of the last pack.
ReadOK(c) ==
    /\ c.at \in {"look", "read", "row"}
    /\ c.at = "read" => c.spec # P!None
    /\ c.at = "row" => c.spec \notin {"unread", P!None} /\ c.meta # P!NoFile
    /\ c.at # "look" /\ quiet > c.age =>
          LET d == disk[c.path[Len(c.path)]]
          IN d.dir /\ c.spec \in {"unread", d.spec} /\ c.meta \in {P!NoFile, d.meta}

GettingOK(c) == c # P!Idle => PathOK(c) /\ ReadOK(c)

PacksInv ==
    /\ PacksTypes
    /\ \A s \in Slugs : EntryOK(s, cache[s])
    /\ \A g \in Gets : GettingOK(get[g])
    /\ P!EditsAreSeen

LEMMA PacksValues ==
    /\ P!NoDir \in PackDirs /\ P!NoFile \in Metas /\ P!NoOp \in PackOps /\ P!NoEntry \in Entries
    /\ P!Idle \in Gettings /\ P!Idle.at = "idle" /\ P!Nothing.ans = P!None
<1>1. P!NoFile \in Metas
  BY DEF P!NoFile, Metas, Parents
<1>2. P!NoDir \in PackDirs
  BY <1>1 DEF P!NoDir, PackDirs, Specs
<1>3. P!NoOp \in PackOps
  BY <1>1, PacksAssumption DEF P!NoOp, PackOps, Specs
<1>4. P!NoEntry \in Entries
  BY DEF P!NoEntry, Entries, Specs, Parents
<1>5. <<>> \in Seq(Slugs) /\ <<>> \in Seq(Specs \cup {"unread"})
  OBVIOUS
<1>6. P!Idle \in Gettings
  BY <1>1, <1>5, PacksAssumption DEF P!Idle, Gettings, Specs, PackRows
<1> QED
  BY <1>1, <1>2, <1>3, <1>4, <1>6 DEF P!Idle, P!Nothing

\* The disk has changed.
LEMMA WritesKeepPacks ==
    ASSUME PacksInv, disk' \in [Slugs -> PackDirs], op' \in PackOps, quiet' = 0, P!Silent,
           UNCHANGED <<rows, cache, get>>
    PROVE  PacksInv'
<1>1. PacksTypes'
  BY DEF PacksInv, PacksTypes
<1>2. ASSUME NEW s \in Slugs PROVE EntryOK(s, cache[s])'
  <2>1. EntryOK(s, cache[s]) /\ cache' = cache /\ cache[s] \in Entries
    BY DEF PacksInv, PacksTypes
  <2>2. cache[s].age \in Nat
    BY <2>1 DEF Entries
  <2> QED
    BY <2>1, <2>2, PacksAssumption DEF EntryOK
<1>3. ASSUME NEW g \in Gets PROVE GettingOK(get[g])'
  <2>1. GettingOK(get[g]) /\ get' = get /\ get[g] \in Gettings
    BY DEF PacksInv, PacksTypes
  <2>2. get[g].age \in Nat
    BY <2>1 DEF Gettings
  <2>3. ~(0 > get[g].age) /\ ~(0 >= get[g].age + TTL + MaxGetTicks)
    BY <2>2, PacksAssumption
  <2>4. PathOK(get[g]) => PathOK(get[g])'
    BY <2>1, <2>3 DEF PathOK
  <2>5. ReadOK(get[g]) => ReadOK(get[g])'
    BY <2>1, <2>3 DEF ReadOK
  <2> QED
    BY <2>1, <2>4, <2>5 DEF GettingOK
<1>4. P!EditsAreSeen'
  BY PacksValues DEF P!EditsAreSeen, P!Silent
<1> QED
  BY <1>1, <1>2, <1>3, <1>4 DEF PacksInv

\* What is known of the disk stays so while it does.
LEMMA PacksStand ==
    ASSUME UNCHANGED <<disk, quiet>>
    PROVE  /\ \A s, e : EntryOK(s, e) => EntryOK(s, e)'
           /\ \A c : GettingOK(c) => GettingOK(c)'
<1>1. \A s, text, parent : Has(s, text, parent) <=> Has(s, text, parent)'
  BY DEF Has, P!Whole
<1>2. \A s, e : EntryOK(s, e) => EntryOK(s, e)'
  BY <1>1 DEF EntryOK
<1>3. \A c : PathOK(c) => PathOK(c)'
  BY <1>1 DEF PathOK
<1>4. \A c : ReadOK(c) => ReadOK(c)'
  BY DEF ReadOK
<1> QED
  BY <1>2, <1>3, <1>4 DEF GettingOK

LEMMA GettingsStand ==
    ASSUME UNCHANGED <<disk, quiet>>, NEW g, NEW c, get'[g] = c, GettingOK(c)
    PROVE  GettingOK(get[g])'
<1>1. \A s, text, parent : Has(s, text, parent) <=> Has(s, text, parent)'
  BY DEF Has, P!Whole
<1>2. PathOK(c) => PathOK(get[g])'
  BY <1>1 DEF PathOK
<1>3. ReadOK(c) => ReadOK(get[g])'
  BY DEF ReadOK
<1> QED
  BY <1>2, <1>3 DEF GettingOK

\* A command goes on, without a change of the disk.
LEMMA CommandsKeepPacks ==
    ASSUME PacksInv, op' \in PackOps, rows' \in [Slugs -> PackRows], P!Silent,
           UNCHANGED <<disk, quiet, cache, get>>
    PROVE  PacksInv'
<1>1. PacksTypes'
  BY DEF PacksInv, PacksTypes
<1>2. ASSUME NEW s \in Slugs PROVE EntryOK(s, cache[s])'
  <2>1. EntryOK(s, cache[s]) /\ cache' = cache
    BY DEF PacksInv
  <2> QED
    BY <2>1, PacksStand DEF EntryOK, Has, P!Whole
<1>3. ASSUME NEW g \in Gets PROVE GettingOK(get[g])'
  <2>1. GettingOK(get[g]) /\ get' = get
    BY DEF PacksInv
  <2> QED
    BY <2>1, GettingsStand
<1>4. P!EditsAreSeen'
  BY PacksValues DEF P!EditsAreSeen, P!Silent
<1> QED
  BY <1>1, <1>2, <1>3, <1>4 DEF PacksInv

LEMMA InitPacksInv == ASSUME NEW on \in BOOLEAN, P!Init(on) PROVE PacksInv
<1>1. P!Clear \in [Slugs -> PackDirs]
  BY PacksValues DEF P!Clear
<1>2. \A parent \in Parents, kind \in {P!None, "template", "plain", "freeform"}, text \in Specs : P!Pack(parent, kind, text) \in PackDirs
  BY DEF P!Pack, P!Meta, PackDirs, Metas
<1>3. P!Root \in Parents /\ Slugs \subseteq Parents /\ P!Stub \in Specs
  BY DEF Parents, Specs
<1>4. P!Pack(P!Root, "template", P!Stub) \in PackDirs
  BY <1>2, <1>3
<1>5. [P!Clear EXCEPT ![Primary] = P!Pack(P!Root, "template", P!Stub)] \in [Slugs -> PackDirs]
  BY <1>1, <1>4
<1>6. ASSUME NEW p \in {P!Root} \cup (Slugs \ {Primary})
      PROVE  [s \in Slugs |-> P!Pack(IF s = Primary THEN p ELSE Primary, "freeform", P!Stub)]
               \in [Slugs -> PackDirs]
  <2>1. \A s \in Slugs : (IF s = Primary THEN p ELSE Primary) \in Parents
    BY <1>3, <1>6, PacksAssumption
  <2>2. \A s \in Slugs : P!Pack(IF s = Primary THEN p ELSE Primary, "freeform", P!Stub) \in PackDirs
    BY <1>2, <1>3, <2>1
  <2> QED
    BY <2>2
<1>7. disk \in [Slugs -> PackDirs]
  <2>1. disk \in {P!Clear} \cup
           IF ~on THEN {} ELSE
           {[P!Clear EXCEPT ![Primary] = P!Pack(P!Root, "template", P!Stub)]}
           \cup {[s \in Slugs |-> P!Pack(IF s = Primary THEN p ELSE Primary, "freeform", P!Stub)] :
                   p \in {P!Root} \cup (Slugs \ {Primary})}
    BY DEF P!Init
  <2> QED
    BY <2>1, <1>1, <1>5, <1>6
<1>8. PacksTypes
  BY <1>7, PacksValues DEF P!Init, PacksTypes, PackRows
<1>9. /\ \A s \in Slugs : cache[s] = P!NoEntry
      /\ \A g \in Gets : get[g] = P!Idle
      /\ told = P!Nothing
  BY DEF P!Init
<1> QED
  BY <1>8, <1>9, PacksValues DEF PacksInv, EntryOK, GettingOK, P!EditsAreSeen

LEMMA WritersKeepPacks ==
    ASSUME PacksInv,
           \/ P!Step
           \/ \E s \in Slugs : P!New(s) \/ P!Seed(s) \/ P!Regenerate(s) \/ P!Delete(s) \/ P!Save(s) \/ P!Upload(s)
    PROVE  PacksInv'
<1> DEFINE Edited == /\ disk' \in [Slugs -> PackDirs] /\ op' \in PackOps /\ quiet' = 0 /\ P!Silent
                     /\ UNCHANGED <<rows, cache, get>>
           Goes == /\ op' \in PackOps /\ rows' \in [Slugs -> PackRows] /\ P!Silent
                   /\ UNCHANGED <<disk, quiet, cache, get>>
<1>1. /\ disk \in [Slugs -> PackDirs] /\ rows \in [Slugs -> PackRows] /\ op \in PackOps
      /\ op.slug \in Slugs /\ op.meta \in Metas /\ op.text \in Specs /\ disk[op.slug] \in PackDirs
  BY DEF PacksInv, PacksTypes, PackOps
<1>2. /\ \A s \in Slugs : \A d \in PackDirs : [disk EXCEPT ![s] = d] \in [Slugs -> PackDirs]
      /\ \A pc : P!Goes(pc) /\ pc \in {"mkdir", "look meta", "meta", "look spec", "spec", "register",
                                      "load", "back", "rm", "deactivate", "end"} => op' \in PackOps
  <2>1. \A s \in Slugs : \A d \in PackDirs : [disk EXCEPT ![s] = d] \in [Slugs -> PackDirs]
    BY <1>1
  <2>2. ASSUME NEW pc \in {"mkdir", "look meta", "meta", "look spec", "spec", "register",
                           "load", "back", "rm", "deactivate", "end"}
        PROVE  [op EXCEPT !.at = pc] \in PackOps
    BY <1>1 DEF PackOps
  <2> QED
    BY <2>1, <2>2, PacksValues DEF P!Goes
<1>3. ASSUME NEW s \in Slugs, P!New(s) PROVE Goes
  <2>1. PICK parent \in Parents :
           P!Starts([P!NoOp EXCEPT !.cmd = "new", !.slug = s, !.at = "mkdir", !.force = TRUE,
                                   !.meta = P!Meta(parent, "template")])
    BY <1>3 DEF P!New, Parents
  <2>2. P!Meta(parent, "template") \in Metas
    BY DEF P!Meta, Metas
  <2>3. [P!NoOp EXCEPT !.cmd = "new", !.slug = s, !.at = "mkdir", !.force = TRUE,
                       !.meta = P!Meta(parent, "template")] \in PackOps
    BY <2>2, PacksValues DEF PackOps
  <2> QED
    BY <1>1, <2>1, <2>3 DEF P!Starts
<1>4. ASSUME NEW s \in Slugs, P!Seed(s) PROVE Goes
  <2>1. PICK kind \in {"template", "plain", P!None}, force \in BOOLEAN :
           P!Starts([P!NoOp EXCEPT !.cmd = "seed", !.slug = s, !.at = "mkdir", !.force = force,
                                   !.meta = P!Meta(P!Root, kind)])
    BY <1>4 DEF P!Seed
  <2>2. P!Meta(P!Root, kind) \in Metas
    BY DEF P!Meta, Metas, Parents
  <2>3. [P!NoOp EXCEPT !.cmd = "seed", !.slug = s, !.at = "mkdir", !.force = force,
                       !.meta = P!Meta(P!Root, kind)] \in PackOps
    BY <2>2, PacksValues DEF PackOps
  <2> QED
    BY <1>1, <2>1, <2>3 DEF P!Starts
<1>5. ASSUME NEW s \in Slugs, P!Regenerate(s) \/ P!Delete(s) PROVE Goes
  <2>1. PICK cmd0 \in {"regenerate", "delete"}, at0 \in {"load", "rm"} :
           P!Starts([P!NoOp EXCEPT !.cmd = cmd0, !.slug = s, !.at = at0])
    BY <1>5 DEF P!Regenerate, P!Delete
  <2>2. [P!NoOp EXCEPT !.cmd = cmd0, !.slug = s, !.at = at0] \in PackOps
    BY PacksValues DEF PackOps
  <2> QED
    BY <1>1, <2>1, <2>2 DEF P!Starts
<1>6. ASSUME NEW s \in Slugs, P!Save(s) PROVE Edited
  <2>1. PICK t \in PackTexts : disk' = [disk EXCEPT ![s] = [disk[s] EXCEPT !.spec = t]] /\ quiet' = 0
    BY <1>6 DEF P!Save, P!Write
  <2>2. [disk[s] EXCEPT !.spec = t] \in PackDirs
    BY <1>1 DEF PackDirs, Specs
  <2> QED
    BY <1>1, <1>2, <1>6, <2>1, <2>2 DEF P!Save
<1>7. ASSUME NEW s \in Slugs, P!Upload(s) PROVE Edited
  <2>1. PICK parent \in (Slugs \ {s}) \cup {P!Root}, t \in PackTexts, link \in BOOLEAN :
           disk' = [p \in Slugs |->
                CASE p = s -> P!Pack(parent, "freeform", t)
                  [] p = Primary /\ p # s /\ (link /\ s # Primary) -> [disk[p] EXCEPT !.meta.parent = s]
                  [] OTHER -> disk[p]]
    BY <1>7 DEF P!Upload
  <2>2. P!Pack(parent, "freeform", t) \in PackDirs
    BY DEF P!Pack, P!Meta, PackDirs, Metas, Parents, Specs
  <2>3. ASSUME NEW p \in Slugs PROVE disk[p] \in PackDirs /\ [disk[p] EXCEPT !.meta.parent = s] \in PackDirs
    BY <1>1 DEF PackDirs, Metas, Parents
  <2>4. disk' \in [Slugs -> PackDirs]
    BY <2>1, <2>2, <2>3
  <2> QED
    BY <1>1, <1>7, <2>4 DEF P!Upload
<1>8. CASE P!MakeDir
  <2>1. [disk[op.slug] EXCEPT !.dir = TRUE] \in PackDirs
    BY <1>1 DEF PackDirs
  <2>2. Edited
    BY <1>1, <1>2, <1>8, <2>1 DEF P!MakeDir, P!Write, P!There, P!Same
  <2> QED
    BY <2>2, WritesKeepPacks
<1>9. CASE P!LookFor("look meta", "meta") \/ P!LookFor("look spec", "spec")
  <2>1. op' \in PackOps
    BY <1>1, <1>9 DEF P!LookFor, PackOps
  <2>2. Goes
    BY <1>1, <1>9, <2>1 DEF P!LookFor, P!Same
  <2> QED
    BY <2>2, CommandsKeepPacks
<1>10. CASE P!WriteMeta
  <2>1. [disk[op.slug] EXCEPT !.meta = op.meta] \in PackDirs
    BY <1>1 DEF PackDirs
  <2>2. op' \in PackOps
    BY <1>2, <1>10 DEF P!WriteMeta
  <2>3. Edited \/ Goes
    BY <1>1, <1>2, <1>10, <2>1, <2>2 DEF P!WriteMeta, P!Write, P!There, P!Same
  <2> QED
    BY <2>3, WritesKeepPacks, CommandsKeepPacks
<1>11. CASE P!WriteSpec
  <2>1. [disk[op.slug] EXCEPT !.spec = P!Stub] \in PackDirs
    BY <1>1 DEF PackDirs, Specs
  <2>2. op' \in PackOps
    BY <1>2, <1>11 DEF P!WriteSpec
  <2>3. Edited \/ Goes
    BY <1>1, <1>2, <1>11, <2>1, <2>2 DEF P!WriteSpec, P!Write, P!There, P!Same
  <2> QED
    BY <2>3, WritesKeepPacks, CommandsKeepPacks
<1>12. CASE P!Register \/ P!Deactivate
  <2>1. op' \in PackOps
    BY <1>2, <1>12 DEF P!Register, P!Deactivate
  <2>2. rows' \in [Slugs -> PackRows]
    BY <1>1, <1>12 DEF P!Register, P!Deactivate, PackRows
  <2>3. Goes
    BY <1>12, <2>1, <2>2 DEF P!Register, P!Deactivate
  <2> QED
    BY <2>3, CommandsKeepPacks
<1>13. CASE P!ReadBack
  <2>1. disk[op.slug].spec \in Specs
    BY <1>1 DEF PackDirs
  <2>2. op' \in PackOps
    BY <1>1, <1>13, <2>1, PacksValues DEF P!ReadBack, P!There, PackOps
  <2>3. Goes
    BY <1>1, <1>13, <2>2 DEF P!ReadBack, P!Same
  <2> QED
    BY <2>3, CommandsKeepPacks
<1>14. CASE P!WriteBack
  <2>1. [disk[op.slug] EXCEPT !.spec = op.text] \in PackDirs
    BY <1>1 DEF PackDirs
  <2>2. Edited
    BY <1>1, <1>2, <1>14, <2>1 DEF P!WriteBack, P!Write, P!There, P!Same
  <2> QED
    BY <2>2, WritesKeepPacks
<1>15. CASE P!RemoveDir
  <2>1. Edited
    BY <1>1, <1>2, <1>15, PacksValues DEF P!RemoveDir, P!Write, P!Same
  <2> QED
    BY <2>1, WritesKeepPacks
<1>16. CASE \E s \in Slugs : P!New(s) \/ P!Seed(s) \/ P!Regenerate(s) \/ P!Delete(s) \/ P!Save(s) \/ P!Upload(s)
  <2>1. Edited \/ Goes
    BY <1>3, <1>4, <1>5, <1>6, <1>7, <1>16
  <2> QED
    BY <2>1, WritesKeepPacks, CommandsKeepPacks
<1> QED
  BY <1>8, <1>9, <1>10, <1>11, <1>12, <1>13, <1>14, <1>15, <1>16 DEF P!Step

\* A call goes on or ends, with an answer that is due.
LEMMA GettingGoes ==
    ASSUME PacksInv, NEW g \in Gets, UNCHANGED <<disk, op, quiet>>, rows' \in [Slugs -> PackRows],
           NEW d \in Gettings, GettingOK(d), get' = [get EXCEPT ![g] = d],
           cache' \in [Slugs -> Entries], \A s \in Slugs : EntryOK(s, cache'[s]),
           NEW t, told' = t,
           quiet = P!Settled /\ t.ans \notin {P!None, "threw"} => P!Due(t)
    PROVE  PacksInv'
<1>1. get' \in [Gets -> Gettings] /\ \A h \in Gets : get'[h] = IF h = g THEN d ELSE get[h]
  BY DEF PacksInv, PacksTypes
<1>2. PacksTypes'
  BY <1>1 DEF PacksInv, PacksTypes
<1>3. ASSUME NEW h \in Gets PROVE GettingOK(get[h])'
  <2>1. PICK c : c = get'[h]
    OBVIOUS
  <2>2. GettingOK(c)
    BY <1>1, <2>1 DEF PacksInv
  <2> QED
    BY <2>1, <2>2, GettingsStand
<1>4. ASSUME NEW s \in Slugs PROVE EntryOK(s, cache[s])'
  <2>1. EntryOK(s, cache'[s])
    OBVIOUS
  <2> QED
    BY <2>1 DEF EntryOK, Has, P!Whole
<1>5. P!EditsAreSeen'
  BY DEF P!EditsAreSeen, P!Due, P!Whole
<1> QED
  BY <1>2, <1>3, <1>4, <1>5 DEF PacksInv

\* walkAncestors, with the last pack of the path loaded.
LEMMA WalkGoes ==
    ASSUME PacksInv, NEW g \in Gets, UNCHANGED <<disk, op, quiet>>, rows' \in [Slugs -> PackRows],
           cache' \in [Slugs -> Entries], \A s \in Slugs : EntryOK(s, cache'[s]),
           NEW c \in Gettings, c.age <= MaxGetTicks, NEW cursor \in Parents,
           Len(c.path) # 0, c.path[1] = c.slug, Len(c.chain) = Len(c.path),
           \A i, j \in 1..Len(c.path) : c.path[i] = c.path[j] => i = j,
           quiet >= c.age + TTL + MaxGetTicks =>
               /\ \A i \in 1..Len(c.path) - 1 : Has(c.path[i], c.chain[i], c.path[i + 1])
               /\ Has(c.path[Len(c.path)], c.chain[Len(c.path)], cursor),
           P!Walk(g, c, cursor)
    PROVE  PacksInv'
<1> DEFINE p == c.path
           n == Len(c.path)
           settled == quiet >= c.age + TTL + MaxGetTicks
<1>1. /\ p \in Seq(Slugs) /\ n \in Nat \ {0} /\ c.chain \in Seq(Specs \cup {"unread"})
      /\ c.age \in Nat /\ \A i \in 1..n : p[i] \in Slugs
  BY DEF Gettings
<1>2. quiet = P!Settled => settled
  BY <1>1, PacksAssumption DEF P!Settled
<1>3. P!Idle \in Gettings /\ GettingOK(P!Idle)
  BY PacksValues DEF GettingOK
<1>4. CASE cursor = P!Root
  <2> DEFINE t == [slug |-> c.slug, ans |-> "ok", path |-> p, chain |-> c.chain]
  <2>1. told' = t /\ get' = [get EXCEPT ![g] = P!Idle]
    BY <1>4 DEF P!Walk, P!Answers
  <2>2. settled => P!Due(t)
    <3>1. SUFFICES ASSUME settled PROVE P!Due(t)
      OBVIOUS
    <3>2. /\ \A i \in 1..n - 1 : Has(p[i], c.chain[i], p[i + 1])
          /\ Has(p[n], c.chain[n], P!Root)
      BY <1>4, <3>1
    <3>3. \A i \in 1..n : i = n \/ i \in 1..n - 1
      BY <1>1
    <3>4. \A i \in 1..n : c.chain[i] = disk[p[i]].spec
      BY <3>2, <3>3 DEF Has
    <3>5. \A i, j \in 1..n - 1 : p[i] = p[j] => i = j
      BY <1>1
    <3>6. /\ \A i \in 1..n - 1 : P!Whole(p[i]) /\ p[i + 1] = disk[p[i]].meta.parent
          /\ P!Whole(p[n]) /\ disk[p[n]].meta.parent = P!Root
      BY <3>2 DEF Has
    <3>7. t.path = p /\ t.slug = c.slug /\ t.ans = "ok" /\ t.chain = c.chain
      OBVIOUS
    <3> HIDE DEF t, p
    <3> QED
      BY <1>1, <3>4, <3>5, <3>6, <3>7 DEF P!Due, p
  <2> HIDE DEF t
  <2> QED
    BY <1>2, <1>3, <2>1, <2>2, GettingGoes
<1>5. CASE cursor # P!Root /\ cursor \in P!ToSet(p)
  <2> DEFINE q == Append(p, cursor)
             t == [slug |-> c.slug, ans |-> "cycle", path |-> q, chain |-> <<>>]
  <2>1. told' = t /\ get' = [get EXCEPT ![g] = P!Idle]
    BY <1>5 DEF P!Walk, P!Answers
  <2>2. settled => P!Due(t)
    <3>1. SUFFICES ASSUME settled PROVE P!Due(t)
      OBVIOUS
    <3>2. Len(q) = n + 1 /\ q[n + 1] = cursor /\ \A i \in 1..n : q[i] = p[i]
      BY <1>1
    <3>3. \A i \in 1..n : P!Whole(q[i]) /\ q[i + 1] = disk[q[i]].meta.parent
      <4>1. SUFFICES ASSUME NEW i \in 1..n PROVE P!Whole(q[i]) /\ q[i + 1] = disk[q[i]].meta.parent
        OBVIOUS
      <4>2. CASE i = n
        BY <3>1, <3>2, <4>2, <1>1 DEF Has
      <4>3. CASE i # n
        <5>1. i \in 1..n - 1 /\ i + 1 \in 1..n
          BY <4>3, <1>1
        <5>2. Has(p[i], c.chain[i], p[i + 1])
          BY <3>1, <5>1
        <5> HIDE DEF q, p
        <5> QED
          BY <3>2, <5>1, <5>2 DEF Has
      <4> QED
        BY <4>2, <4>3
    <3>4. PICK i \in 1..n : p[i] = cursor
      BY <1>1, <1>5 DEF P!ToSet
    <3>5. Len(q) - 1 = n /\ q[i] = q[Len(q)] /\ q[1] = c.slug
      BY <1>1, <3>2, <3>4
    <3>6. \A k, j \in 1..n : q[k] = q[j] => k = j
      BY <3>2
    <3>7. t.path = q /\ t.slug = c.slug /\ t.ans = "cycle"
      OBVIOUS
    <3>8. Len(q) > 0
      BY <3>2, <1>1
    <3> HIDE DEF t, q, p, n
    <3> QED
      BY <3>3, <3>4, <3>5, <3>6, <3>7, <3>8 DEF P!Due
  <2> HIDE DEF t
  <2> QED
    BY <1>2, <1>3, <2>1, <2>2, GettingGoes
<1>6. CASE cursor # P!Root /\ cursor \notin P!ToSet(p)
  <2> DEFINE q == Append(p, cursor)
             d == [c EXCEPT !.at = "look", !.path = q]
  <2>1. told' = P!Nothing /\ get' = [get EXCEPT ![g] = d]
    BY <1>6 DEF P!Walk, P!Silent
  <2>2. cursor \in Slugs
    BY <1>6 DEF Parents
  <2>3. d \in Gettings /\ d.path = q /\ d.at = "look" /\ d.age = c.age /\ d.slug = c.slug /\ d.chain = c.chain
    <3>1. q \in Seq(Slugs)
      BY <1>1, <2>2
    <3> HIDE DEF q
    <3> QED
      BY <3>1 DEF Gettings
  <2>4. Len(q) = n + 1 /\ q[n + 1] = cursor /\ \A i \in 1..n : q[i] = p[i]
    BY <1>1, <2>2
  <2>5. \A i, j \in 1..n + 1 : q[i] = q[j] => i = j
    <3>1. \A i \in 1..n : p[i] # cursor
      BY <1>1, <1>6 DEF P!ToSet
    <3>2. \A i \in 1..n + 1 : i = n + 1 \/ i \in 1..n
      BY <1>1
    <3> HIDE DEF q, p, n
    <3> QED
      BY <2>4, <3>1, <3>2, <1>1 DEF p, n
  <2>6. settled => \A i \in 1..n : Has(q[i], c.chain[i], q[i + 1])
    <3>1. SUFFICES ASSUME settled, NEW i \in 1..n PROVE Has(q[i], c.chain[i], q[i + 1])
      OBVIOUS
    <3>2. CASE i = n
      BY <2>4, <3>1, <3>2
    <3>3. CASE i # n
      <4>1. i \in 1..n - 1 /\ i + 1 \in 1..n
        BY <3>3, <1>1
      <4> HIDE DEF q
      <4> QED
        BY <2>4, <3>1, <4>1
    <3> QED
      BY <3>2, <3>3
  <2>7. PathOK(d)
    <3>1. Len(q) - 1 = n /\ Len(q) # 0 /\ q[1] = c.slug
      BY <1>1, <2>4
    <3> HIDE DEF d, q
    <3> QED
      BY <2>3, <2>4, <2>5, <2>6, <3>1 DEF PathOK
  <2>8. ReadOK(d)
    <3> HIDE DEF d
    <3> QED
      BY <2>3 DEF ReadOK
  <2> HIDE DEF d
  <2> QED
    BY <2>1, <2>3, <2>7, <2>8, GettingGoes, PacksValues DEF GettingOK
<1> QED
  BY <1>4, <1>5, <1>6

LEMMA GettingsKeepPacks ==
    ASSUME PacksInv, NEW g \in Gets, P!Serve(g) \/ P!Throw(g) \/ \E s \in Slugs : P!Ask(g, s)
    PROVE  PacksInv'
<1> DEFINE c == get[g]
           n == Len(c.path)
           s == c.path[n]
<1>1. /\ UNCHANGED <<disk, op, quiet>> /\ rows \in [Slugs -> PackRows] /\ cache \in [Slugs -> Entries]
      /\ disk \in [Slugs -> PackDirs] /\ get \in [Gets -> Gettings]
      /\ c \in Gettings /\ GettingOK(c) /\ \A r \in Slugs : EntryOK(r, cache[r])
  BY DEF PacksInv, PacksTypes, P!Serve, P!Look, P!ReadSpec, P!ReadMeta, P!Select, P!Upsert, P!Throw,
         P!Ask, P!Rest
<1>2. /\ c.path \in Seq(Slugs) /\ c.age \in Nat /\ c.chain \in Seq(Specs \cup {"unread"})
      /\ c.spec \in Specs \cup {"unread"} /\ c.meta \in Metas /\ c.slug \in Slugs
  BY <1>1 DEF Gettings
<1>3. c.at # "idle" => /\ PathOK(c) /\ ReadOK(c)
                       /\ n \in Nat \ {0} /\ s \in Slugs /\ disk[s] \in PackDirs /\ s = P!Last(c.path)
  <2>1. SUFFICES ASSUME c.at # "idle"
                 PROVE  /\ PathOK(c) /\ ReadOK(c)
                        /\ n \in Nat \ {0} /\ s \in Slugs /\ disk[s] \in PackDirs /\ s = P!Last(c.path)
    OBVIOUS
  <2>2. PathOK(c) /\ ReadOK(c)
    BY <2>1, <1>1, PacksValues DEF GettingOK
  <2>3. n # 0
    BY <2>2 DEF PathOK
  <2>4. n \in Nat \ {0}
    BY <2>3, <1>2
  <2>5. s \in Slugs
    BY <2>4, <1>2
  <2> QED
    BY <2>2, <2>4, <2>5, <1>1 DEF P!Last
<1>4. P!Idle \in Gettings /\ GettingOK(P!Idle) /\ P!Nothing.ans = P!None
  BY PacksValues DEF GettingOK
<1>5. quiet = P!Settled /\ c.at # "idle" => quiet > c.age /\ quiet >= c.age + TTL + MaxGetTicks
  BY <1>2, <1>3, PacksAssumption DEF P!Settled, PathOK
\* An answer that gives up at the last pack of the path.
<1>6. ASSUME c.at # "idle", NEW ans, P!Answers(g, c, ans, c.path, <<>>), UNCHANGED rows,
             \/ cache' = cache
             \/ cache' = [cache EXCEPT ![s] = P!NoEntry],
             \/ ans = "not found" /\ ~disk[s].dir
             \/ ans = "error" /\ (quiet = P!Settled => disk[s].dir) /\ ~P!Whole(s)
             \/ ans = "threw"
      PROVE  PacksInv'
  <2> DEFINE t == [slug |-> c.slug, ans |-> ans, path |-> c.path, chain |-> <<>>]
  <2>1. told' = t /\ get' = [get EXCEPT ![g] = P!Idle]
    BY <1>6 DEF P!Answers
  <2>2. cache' \in [Slugs -> Entries] /\ \A r \in Slugs : EntryOK(r, cache'[r])
    BY <1>1, <1>3, <1>6, PacksValues DEF EntryOK
  <2>3. ASSUME quiet = P!Settled, ans # "threw" PROVE P!Due(t)
    <3>1. PathOK(c) /\ \A i \in 1..n - 1 : Has(c.path[i], c.chain[i], c.path[i + 1])
      BY <1>3, <1>5, <1>6, <2>3 DEF PathOK
    <3>2. /\ n > 0 /\ c.path[1] = c.slug
          /\ \A i, j \in 1..n - 1 : c.path[i] = c.path[j] => i = j
      <4>0. n \in Nat \ {0}
        BY <1>3, <1>6
      <4>1. n > 0 /\ 1..n - 1 \subseteq 1..n
        <5> HIDE DEF n
        <5> QED
          BY <4>0
      <4>2. c.path[1] = c.slug /\ \A i, j \in 1..n : c.path[i] = c.path[j] => i = j
        BY <3>1 DEF PathOK
      <4> HIDE DEF c, n
      <4> QED
        BY <4>1, <4>2
    <3>3. \A i \in 1..n - 1 : P!Whole(c.path[i]) /\ c.path[i + 1] = disk[c.path[i]].meta.parent
      BY <3>1 DEF Has
    <3>4. t.slug = c.slug /\ t.path = c.path /\ t.ans = ans /\ n = Len(c.path)
      OBVIOUS
    <3>5. \/ ans = "not found" /\ ~disk[c.path[n]].dir
          \/ ans = "error" /\ disk[c.path[n]].dir /\ ~P!Whole(c.path[n])
      BY <1>6, <2>3
    <3> HIDE DEF t, c, n
    <3> QED
      <4>1. /\ Len(t.path) > 0 /\ t.path[1] = t.slug
            /\ \A i \in 1..Len(t.path) - 1 : P!Whole(t.path[i]) /\ t.path[i + 1] = disk[t.path[i]].meta.parent
            /\ \A i, j \in 1..Len(t.path) - 1 : t.path[i] = t.path[j] => i = j
        BY <3>2, <3>3, <3>4
      <4>2. \/ t.ans = "not found" /\ ~disk[t.path[Len(t.path)]].dir
            \/ t.ans = "error" /\ disk[t.path[Len(t.path)]].dir /\ ~P!Whole(t.path[Len(t.path)])
        BY <3>4, <3>5, Zenon
      <4> QED
        BY <4>1, <4>2 DEF P!Due
  <2>4. quiet = P!Settled /\ t.ans \notin {P!None, "threw"} => P!Due(t)
    BY <2>3
  <2> HIDE DEF t, c
  <2> QED
    BY <1>1, <1>4, <1>6, <2>1, <2>2, <2>4, GettingGoes
\* More of the last pack is read.
<1>7. ASSUME c.at # "idle", UNCHANGED <<rows, cache>>, P!Silent, NEW d \in Gettings,
             get' = [get EXCEPT ![g] = d], d.path = c.path, d.chain = c.chain, d.age = c.age,
             d.slug = c.slug, d.at # "idle", ReadOK(d)
      PROVE  PacksInv'
  <2>1. PathOK(d)
    BY <1>3, <1>7 DEF PathOK
  <2>2. GettingOK(d)
    BY <2>1, <1>7 DEF GettingOK
  <2> HIDE DEF c
  <2> QED
    BY <1>1, <1>4, <1>7, <2>2, GettingGoes DEF P!Silent
<1>8. CASE P!Look(g)
  <2>1. c.at = "look" /\ UNCHANGED rows
    BY <1>8 DEF P!Look
  <2>2. CASE disk[s].dir
    <3> DEFINE d == [c EXCEPT !.at = "read", !.spec = "unread", !.meta = P!NoFile]
    <3>1. get' = [get EXCEPT ![g] = d] /\ P!Silent /\ UNCHANGED cache
      BY <1>1, <1>3, <1>8, <2>1, <2>2 DEF P!Look
    <3>2. /\ d \in Gettings /\ d.path = c.path /\ d.chain = c.chain /\ d.age = c.age
          /\ d.slug = c.slug /\ d.at = "read" /\ d.spec = "unread" /\ d.meta = P!NoFile
      BY <1>1, PacksValues DEF Gettings
    <3>3. ReadOK(d)
      BY <2>2, <3>2 DEF ReadOK, P!None
    <3> HIDE DEF c, d
    <3> QED
      BY <1>7, <2>1, <3>1, <3>2, <3>3
  <2>3. CASE ~disk[s].dir
    <3>1. P!Answers(g, c, "not found", c.path, <<>>) /\ cache' \in {cache, [cache EXCEPT ![s] = P!NoEntry]}
      BY <1>3, <1>8, <2>1, <2>3 DEF P!Look
    <3> QED
      BY <1>6, <2>1, <2>3, <3>1
  <2> QED
    BY <2>2, <2>3
<1>9. CASE P!ReadSpec(g)
  <2>1. c.at = "read" /\ UNCHANGED <<rows, cache>>
    BY <1>9 DEF P!ReadSpec
  <2>2. CASE disk[s].spec = P!None
    <3>1. P!Answers(g, c, "error", c.path, <<>>)
      BY <1>3, <1>9, <2>1, <2>2 DEF P!ReadSpec
    <3>2. (quiet = P!Settled => disk[s].dir) /\ ~P!Whole(s)
      BY <1>3, <1>5, <2>1, <2>2 DEF ReadOK, P!Whole
    <3> QED
      BY <1>6, <2>1, <3>1, <3>2
  <2>3. CASE disk[s].spec # P!None
    <3> DEFINE d == [c EXCEPT !.spec = disk[s].spec]
    <3>1. get' = [get EXCEPT ![g] = d] /\ P!Silent
      BY <1>1, <1>3, <1>9, <2>1, <2>3 DEF P!ReadSpec
    <3>2. disk[s].spec \in Specs
      BY <1>3, <2>1 DEF PackDirs
    <3>3. /\ d \in Gettings /\ d.path = c.path /\ d.chain = c.chain /\ d.age = c.age
          /\ d.slug = c.slug /\ d.at = "read" /\ d.spec = disk[s].spec /\ d.meta = c.meta
      BY <1>1, <2>1, <3>2 DEF Gettings
    <3>4. ReadOK(d)
      BY <1>3, <2>1, <2>3, <3>3 DEF ReadOK
    <3> HIDE DEF c, d
    <3> QED
      BY <1>7, <2>1, <3>1, <3>3, <3>4
  <2> QED
    BY <2>2, <2>3
<1>10. CASE P!ReadMeta(g)
  <2>1. c.at = "read" /\ UNCHANGED <<rows, cache>>
    BY <1>10 DEF P!ReadMeta
  <2>2. CASE disk[s].meta = P!NoFile
    <3>1. P!Answers(g, c, "error", c.path, <<>>)
      BY <1>3, <1>10, <2>1, <2>2 DEF P!ReadMeta
    <3>2. (quiet = P!Settled => disk[s].dir) /\ ~P!Whole(s)
      BY <1>3, <1>5, <2>1, <2>2 DEF ReadOK, P!Whole
    <3> QED
      BY <1>6, <2>1, <3>1, <3>2
  <2>3. CASE disk[s].meta # P!NoFile
    <3> DEFINE d == [c EXCEPT !.meta = disk[s].meta]
    <3>1. get' = [get EXCEPT ![g] = d] /\ P!Silent
      BY <1>1, <1>3, <1>10, <2>1, <2>3 DEF P!ReadMeta
    <3>2. disk[s].meta \in Metas
      BY <1>3, <2>1 DEF PackDirs
    <3>3. /\ d \in Gettings /\ d.path = c.path /\ d.chain = c.chain /\ d.age = c.age
          /\ d.slug = c.slug /\ d.at = "read" /\ d.spec = c.spec /\ d.meta = disk[s].meta
      BY <1>1, <2>1, <3>2 DEF Gettings
    <3>4. ReadOK(d)
      BY <1>3, <2>1, <2>3, <3>3 DEF ReadOK
    <3> HIDE DEF c, d
    <3> QED
      BY <1>7, <2>1, <3>1, <3>3, <3>4
  <2> QED
    BY <2>2, <2>3
<1>11. CASE P!Select(g)
  <2> DEFINE d == [c EXCEPT !.at = "row", !.row = rows[s]]
  <2>1. /\ c.at = "read" /\ c.spec # "unread" /\ c.meta # P!NoFile
        /\ UNCHANGED <<rows, cache>> /\ P!Silent
    BY <1>11 DEF P!Select
  <2>2. get' = [get EXCEPT ![g] = d] /\ rows[s] \in PackRows
    BY <1>1, <1>3, <1>11, <2>1 DEF P!Select
  <2>3. /\ d \in Gettings /\ d.path = c.path /\ d.chain = c.chain /\ d.age = c.age
        /\ d.slug = c.slug /\ d.at = "row" /\ d.spec = c.spec /\ d.meta = c.meta
    BY <1>1, <2>1, <2>2 DEF Gettings
  <2>4. ReadOK(d)
    BY <1>3, <2>1, <2>3 DEF ReadOK
  <2> HIDE DEF c, d
  <2> QED
    BY <1>7, <2>1, <2>2, <2>3, <2>4
<1>12. CASE P!Throw(g)
  <2>1. c.at # "idle" /\ UNCHANGED <<rows, cache>> /\ P!Answers(g, c, "threw", c.path, <<>>)
    BY <1>12 DEF P!Throw
  <2> QED
    BY <1>6, <2>1
<1>13. CASE P!Upsert(g)
  <2> DEFINE d == [c EXCEPT !.chain = Append(@, c.spec), !.spec = P!None, !.meta = P!NoFile,
                            !.row = P!None]
  <2>1. c.at = "row" /\ P!Walk(g, d, c.meta.parent)
    BY <1>13 DEF P!Upsert
  <2>2. rows' \in [Slugs -> PackRows]
    <3>1. c.row \in PackRows
      BY <1>1 DEF Gettings
    <3>2. rows' \in {[rows EXCEPT ![s] = IF c.row = P!None THEN "active" ELSE c.row]}
                    \cup IF c.row = P!None THEN {} ELSE {rows}
      BY <1>3, <1>13, <2>1 DEF P!Upsert
    <3> QED
      BY <1>1, <3>1, <3>2 DEF PackRows
  <2>3. c.meta.parent \in Parents /\ c.spec \notin {"unread", P!None} /\ c.meta # P!NoFile
    BY <1>2, <1>3, <2>1 DEF ReadOK, Metas
  <2>4. Append(c.chain, c.spec) \in Seq(Specs \cup {"unread"})
    BY <1>2
  <2>5. d \in Gettings /\ d.path = c.path /\ d.slug = c.slug /\ d.age = c.age /\ d.chain = Append(c.chain, c.spec)
    <3> DEFINE longer == Append(c.chain, c.spec)
    <3>1. d = [c EXCEPT !.chain = longer, !.spec = P!None, !.meta = P!NoFile, !.row = P!None]
      OBVIOUS
    <3>2. longer \in Seq(Specs \cup {"unread"}) /\ P!None \in Specs /\ P!None \in PackRows
      BY <2>4 DEF Specs, PackRows
    <3> HIDE DEF longer, d
    <3> QED
      BY <1>1, <3>1, <3>2, PacksValues DEF Gettings, longer
  <2>6. quiet > c.age => Has(s, c.spec, c.meta.parent)
    BY <1>3, <2>1, <2>3 DEF ReadOK, Has, P!Whole
  <2>7. cache' \in [Slugs -> Entries] /\ \A r \in Slugs : EntryOK(r, cache'[r])
    <3> DEFINE e == [spec |-> c.spec, parent |-> c.meta.parent, age |-> 0]
    <3>1. cache' \in {cache, [cache EXCEPT ![s] = e]}
      BY <1>3, <1>13, <2>1 DEF P!Upsert
    <3>2. e \in Entries /\ e.age = 0 /\ e.spec = c.spec /\ e.parent = c.meta.parent
      BY <1>2, <2>3 DEF Entries
    <3>3. c.age <= MaxGetTicks
      BY <1>3, <2>1 DEF PathOK
    <3>4. 0 < TTL /\ (quiet > 0 + MaxGetTicks => quiet > c.age)
      <4>1. quiet \in Nat
        BY DEF PacksInv, PacksTypes
      <4> HIDE DEF c
      <4> QED
        BY <1>2, <3>3, <4>1, PacksAssumption
    <3>5. EntryOK(s, e)
      <4> HIDE DEF c, e, s
      <4> QED
        BY <2>3, <2>6, <3>2, <3>4 DEF EntryOK
    <3> HIDE DEF e, c, s
    <3> QED
      BY <1>1, <3>1, <3>2, <3>5
  <2>8. /\ Len(d.chain) = n /\ Len(d.path) = n /\ n # 0 /\ d.path[1] = d.slug /\ d.age <= MaxGetTicks
        /\ d.chain[n] = c.spec /\ \A i \in 1..n - 1 : d.chain[i] = c.chain[i]
        /\ \A i, j \in 1..n : d.path[i] = d.path[j] => i = j
    BY <1>2, <1>3, <2>1, <2>5 DEF PathOK
  <2>9. quiet >= c.age + TTL + MaxGetTicks =>
           /\ \A i \in 1..n - 1 : Has(d.path[i], d.chain[i], d.path[i + 1])
           /\ Has(d.path[n], d.chain[n], c.meta.parent)
    <3>1. SUFFICES ASSUME quiet >= c.age + TTL + MaxGetTicks
                   PROVE  /\ \A i \in 1..n - 1 : Has(d.path[i], d.chain[i], d.path[i + 1])
                          /\ Has(d.path[n], d.chain[n], c.meta.parent)
      OBVIOUS
    <3>2. quiet > c.age
      BY <1>1, <1>2, <3>1, PacksAssumption DEF PacksInv, PacksTypes
    <3>3. \A i \in 1..n - 1 : Has(c.path[i], c.chain[i], c.path[i + 1])
      BY <1>3, <2>1, <3>1 DEF PathOK
    <3> HIDE DEF d
    <3> QED
      BY <2>5, <2>6, <2>8, <3>2, <3>3
  <2> HIDE DEF d, n, c
  <2> QED
    BY <1>1, <2>1, <2>2, <2>3, <2>5, <2>7, <2>8, <2>9, WalkGoes
<1>14. ASSUME NEW r \in Slugs, P!Ask(g, r) PROVE PacksInv'
  <2> DEFINE d == [P!Idle EXCEPT !.slug = r, !.path = <<r>>, !.at = "look"]
             e == cache[r]
             f == [d EXCEPT !.chain = <<e.spec>>]
  <2>1. UNCHANGED <<rows, cache>> /\ e \in Entries /\ EntryOK(r, e)
    BY <1>1, <1>14 DEF P!Ask
  <2>2. /\ d \in Gettings /\ d.path = <<r>> /\ d.slug = r /\ d.at = "look" /\ d.age = 0
        /\ d.chain = <<>>
    <3>1. <<r>> \in Seq(Slugs)
      OBVIOUS
    <3>2. P!Idle.chain = <<>> /\ P!Idle.age = 0
      BY DEF P!Idle
    <3> QED
      BY <3>1, <3>2, PacksValues DEF Gettings
  <2>3. <<r>> \in Seq(Slugs) /\ Len(<<r>>) = 1 /\ <<r>>[1] = r
    OBVIOUS
  <2>4. CASE e = P!NoEntry
    <3>1. get' = [get EXCEPT ![g] = d] /\ P!Silent
      BY <1>14, <2>4 DEF P!Ask
    <3>2. PathOK(d)
      <4>1. Len(<<>>) = 0 /\ 1..0 = {} /\ \A i, j \in 1..1 : i = j
        OBVIOUS
      <4> HIDE DEF d
      <4> QED
        BY <2>2, <2>3, <4>1, PacksAssumption DEF PathOK
    <3>3. ReadOK(d)
      BY <2>2 DEF ReadOK
    <3> HIDE DEF d, e
    <3> QED
      BY <1>1, <1>4, <2>1, <2>2, <3>1, <3>2, <3>3, GettingGoes DEF P!Silent, GettingOK
  <2>5. CASE e # P!NoEntry
    <3>1. P!Walk(g, f, e.parent)
      BY <1>14, <2>5 DEF P!Ask
    <3>2. <<e.spec>> \in Seq(Specs \cup {"unread"}) /\ e.age \in Nat /\ e.parent \in Parents
      BY <2>1 DEF Entries
    <3>3. f \in Gettings /\ f.path = <<r>> /\ f.slug = r /\ f.age = 0 /\ f.chain = <<e.spec>>
      <4> DEFINE one == <<e.spec>>
      <4> HIDE DEF d, one
      <4>1. [d EXCEPT !.chain = one] \in Gettings
        BY <2>2, <3>2 DEF Gettings, one
      <4>2. /\ [d EXCEPT !.chain = one].path = d.path /\ [d EXCEPT !.chain = one].slug = d.slug
            /\ [d EXCEPT !.chain = one].age = d.age /\ [d EXCEPT !.chain = one].chain = one
        BY <2>2 DEF Gettings
      <4> QED
        BY <2>2, <4>1, <4>2 DEF one
    <3>4. Len(<<e.spec>>) = 1 /\ <<e.spec>>[1] = e.spec /\ \A i, j \in 1..1 : i = j
      OBVIOUS
    <3>5. quiet >= 0 + TTL + MaxGetTicks => Has(r, e.spec, e.parent)
      BY <2>1, <2>5, <3>2, PacksAssumption DEF EntryOK, PacksInv, PacksTypes
    <3>6. 1..1 - 1 = {} /\ 0 <= MaxGetTicks
      BY PacksAssumption
    <3> HIDE DEF f, d, e
    <3>7. /\ Len(f.path) = 1 /\ f.path[1] = f.slug /\ Len(f.chain) = 1 /\ f.age <= MaxGetTicks
          /\ \A i, j \in 1..Len(f.path) : f.path[i] = f.path[j] => i = j
      BY <2>3, <3>3, <3>4, <3>6
    <3>8. quiet >= f.age + TTL + MaxGetTicks =>
             /\ \A i \in 1..Len(f.path) - 1 : Has(f.path[i], f.chain[i], f.path[i + 1])
             /\ Has(f.path[Len(f.path)], f.chain[Len(f.path)], e.parent)
      BY <2>3, <3>3, <3>4, <3>5, <3>6, <3>7
    <3>9. cache' \in [Slugs -> Entries] /\ (\A u \in Slugs : EntryOK(u, cache'[u])) /\ rows' \in [Slugs -> PackRows]
      BY <1>1, <2>1
    <3>10. Len(f.path) # 0 /\ Len(f.chain) = Len(f.path) /\ UNCHANGED <<disk, op, quiet>>
      BY <1>1, <3>7
    <3> QED
      BY <3>1, <3>2, <3>3, <3>7, <3>8, <3>9, <3>10, WalkGoes
  <2> QED
    BY <2>4, <2>5
<1> QED
  BY <1>8, <1>9, <1>10, <1>11, <1>12, <1>13, <1>14 DEF P!Serve

LEMMA TickKeepsPacks == ASSUME PacksInv, P!Tick PROVE PacksInv'
<1>1. /\ UNCHANGED <<disk, rows, op>> /\ told' = P!Nothing /\ PacksTypes
      /\ quiet' = IF quiet < P!Settled THEN quiet + 1 ELSE quiet
      /\ \A g \in Gets : get[g].age < MaxGetTicks
      /\ cache' = [s \in Slugs |-> P!Aged(cache[s])]
      /\ get' = [g \in Gets |-> IF get[g] = P!Idle THEN P!Idle ELSE [get[g] EXCEPT !.age = @ + 1]]
  BY DEF P!Tick, P!Silent, PacksInv
<1>2. P!Settled \in Nat /\ quiet \in Nat /\ quiet' \in Nat /\ quiet' <= quiet + 1
      /\ (quiet' = quiet + 1 \/ (quiet' = quiet /\ quiet >= TTL + 2 * MaxGetTicks))
  BY <1>1, PacksAssumption DEF PacksTypes, P!Settled
<1>3. \A s, text, parent : Has(s, text, parent) => Has(s, text, parent)'
  BY <1>1 DEF Has, P!Whole
<1>4. ASSUME NEW s \in Slugs PROVE cache'[s] \in Entries /\ EntryOK(s, cache[s])'
  <2> DEFINE e == cache[s]
  <2>1. e \in Entries /\ EntryOK(s, e) /\ cache'[s] = P!Aged(e) /\ e.age \in Nat
    BY <1>1 DEF PacksInv, PacksTypes, Entries
  <2>2. CASE e = P!NoEntry \/ e.age + 1 >= TTL
    BY <2>1, <2>2, PacksValues DEF P!Aged, EntryOK
  <2>3. CASE ~(e = P!NoEntry \/ e.age + 1 >= TTL)
    <3> DEFINE f == [e EXCEPT !.age = @ + 1]
    <3>1. cache'[s] = f /\ f \in Entries /\ f.age = e.age + 1 /\ f.spec = e.spec /\ f.parent = e.parent
      BY <2>1, <2>3 DEF P!Aged, Entries
    <3>2. e.spec # P!None /\ (quiet > e.age + MaxGetTicks => Has(s, e.spec, e.parent))
      BY <2>1, <2>3 DEF EntryOK
    <3>3. quiet' > e.age + 1 + MaxGetTicks => quiet > e.age + MaxGetTicks
      BY <1>2, <2>1, <2>3, PacksAssumption
    <3>4. e.age + 1 < TTL
      BY <2>1, <2>3, PacksAssumption
    <3> HIDE DEF f, e
    <3> QED
      BY <1>3, <3>1, <3>2, <3>3, <3>4 DEF EntryOK
  <2> QED
    BY <2>2, <2>3
<1>5. ASSUME NEW g \in Gets PROVE get'[g] \in Gettings /\ GettingOK(get[g])'
  <2> DEFINE c == get[g]
  <2>1. c \in Gettings /\ GettingOK(c) /\ c.age \in Nat /\ c.age < MaxGetTicks
    BY <1>1 DEF PacksInv, PacksTypes, Gettings
  <2>2. CASE c = P!Idle
    BY <1>1, <2>2, PacksValues DEF GettingOK
  <2>3. CASE c # P!Idle
    <3> DEFINE d == [c EXCEPT !.age = @ + 1]
    <3>1. /\ get'[g] = d /\ d \in Gettings /\ d.age = c.age + 1 /\ d.path = c.path /\ d.slug = c.slug
          /\ d.chain = c.chain /\ d.at = c.at /\ d.spec = c.spec /\ d.meta = c.meta
      BY <1>1, <2>1, <2>3, SMTT(60) DEF Gettings
    <3>2. PathOK(c) /\ ReadOK(c)
      BY <2>1, <2>3 DEF GettingOK
    <3>3. quiet' > c.age + 1 => quiet > c.age
      BY <1>2, <2>1, PacksAssumption
    <3>4. quiet' >= c.age + 1 + TTL + MaxGetTicks => quiet >= c.age + TTL + MaxGetTicks
      BY <1>2, <2>1, PacksAssumption
    <3>5. c.age + 1 <= MaxGetTicks
      BY <2>1, PacksAssumption
    <3> HIDE DEF d, c
    <3>6. PathOK(get[g])'
      BY <1>3, <3>1, <3>2, <3>4, <3>5 DEF PathOK
    <3>7. ReadOK(get[g])'
      BY <1>1, <3>1, <3>2, <3>3 DEF ReadOK
    <3> QED
      BY <3>1, <3>6, <3>7 DEF GettingOK
  <2> QED
    BY <2>2, <2>3
<1>6. PacksTypes'
  BY <1>1, <1>2, <1>4, <1>5 DEF PacksTypes
<1>7. P!EditsAreSeen'
  BY <1>1, PacksValues DEF P!EditsAreSeen
<1> QED
  BY <1>4, <1>5, <1>6, <1>7 DEF PacksInv

LEMMA RestartKeepsPacks == ASSUME PacksInv, P!Restart PROVE PacksInv'
<1>1. /\ UNCHANGED <<disk, rows, op, quiet>> /\ told' = P!Nothing
      /\ \A s \in Slugs : cache'[s] = P!NoEntry
      /\ \A g \in Gets : get'[g] = P!Idle
      /\ cache' \in [Slugs -> Entries] /\ get' \in [Gets -> Gettings]
  BY PacksValues DEF P!Restart, P!Rest, P!Silent
<1>2. PacksTypes'
  BY <1>1 DEF PacksInv, PacksTypes
<1> QED
  BY <1>1, <1>2, PacksValues DEF PacksInv, EntryOK, GettingOK, P!EditsAreSeen

\* However packs are written, deleted and read at once: when the files have been left alone
\* for the life of an entry and of two calls, get_feature_pack answers what they say.
THEOREM PacksHold == WorkSpec => []EditsAreSeen
<1>1. WorkInit => PacksInv
  BY InitPacksInv DEF WorkInit
<1>2. PacksInv /\ [WorkNext]_workVars => PacksInv'
  <2>1. ASSUME PacksInv, UNCHANGED packsVars PROVE PacksInv'
    <3>1. PacksTypes' /\ P!EditsAreSeen'
      BY <2>1 DEF packsVars, PacksInv, PacksTypes, P!EditsAreSeen, P!Due, P!Whole
    <3>2. \A s \in Slugs : EntryOK(s, cache[s])'
      BY <2>1 DEF packsVars, PacksInv, EntryOK, Has, P!Whole
    <3>3. \A g \in Gets : GettingOK(get[g])'
      BY <2>1, GettingsStand DEF packsVars, PacksInv
    <3> QED
      BY <3>1, <3>2, <3>3 DEF PacksInv
  <2>2. [WorkNext]_workVars => P!Next \/ UNCHANGED packsVars
    BY DEF WorkNext, Among, workVars
  <2> QED
    BY <2>1, <2>2, WritersKeepPacks, GettingsKeepPacks, TickKeepsPacks, RestartKeepsPacks DEF P!Next
<1>3. PacksInv => EditsAreSeen
  BY DEF PacksInv, EditsAreSeen
<1> QED
  BY <1>1, <1>2, <1>3, PTL DEF WorkSpec

-----------------------------------------------------------------------------
(* The files of init and uninstall.                                         *)

Kinds == Users \cup I!Owned \cup {"legacy"}

IsHooks(h) ==
    /\ h = [e \in Events |-> h[e]]
    /\ \A e \in Events : \A r \in h[e] : r.kind \in Kinds

\* What a file may hold.
Holds(f, c) ==
    /\ f = "marker" => c \in {I!Absent, I!Broken, I!Slug("init"), I!Slug("user")}
    /\ f = "mcp" => c \in {I!Absent, I!Broken} \/ c = I!Mcp(c.ours, c.servers)
    /\ f = "env" => c = I!Absent \/ (c = I!Env(c.keys) /\ c.keys = [k \in EnvKeys |-> c.keys[k]])
    /\ f = "settings" => c \in {I!Absent, I!Broken} \/ (c = I!Settings(c.hooks) /\ IsHooks(c.hooks))

\* What init leaves there, and what uninstall does.
HasOurs(f, c) ==
    /\ f = "marker" => c # I!Absent
    /\ f = "mcp" => c.is = "mcp" /\ c.ours # "none"
    /\ f = "env" => c.is = "env" /\ \A k \in EnvKeys : c.keys[k] # "none"
    /\ f = "settings" /\ c # I!Broken =>
          c.is = "settings" /\ \A e \in HookEvents : I!Current(c.hooks[e])

HasNone(f, c) ==
    /\ f = "settings" /\ c.is = "settings" =>
          \A e \in Events : \A r \in c.hooks[e] : r.kind \in Users
    /\ f = "mcp" /\ c.is = "mcp" => c.ours = "none"

\* The user's entries of two settings are the same if they are so event by event.
LEMMA OwnOfHooks ==
    ASSUME NEW g, NEW h, \A e \in Events : I!Ones(Users, g[e]) = I!Ones(Users, h[e])
    PROVE  I!Own("settings", I!Settings(g)) = I!Own("settings", I!Settings(h))
<1>1. \A x : I!Own("settings", I!Settings(x)) = UNION {{e} \X I!Ones(Users, x[e]) : e \in Events}
  BY DEF I!Own, I!Settings, I!Absent, I!Broken
<1>2. {{e} \X I!Ones(Users, g[e]) : e \in Events} = {{e} \X I!Ones(Users, h[e]) : e \in Events}
  OBVIOUS
<1> QED
  BY <1>1, <1>2

\* There are none in files without hooks.
LEMMA OwnOfNothing == I!Own("settings", I!Settings(I!NoHooks)) = {}
<1>1. I!Own("settings", I!Settings(I!NoHooks)) = UNION {{e} \X I!Ones(Users, I!NoHooks[e]) : e \in Events}
  BY DEF I!Own, I!Settings, I!Absent, I!Broken
<1>2. \A e \in Events : I!Ones(Users, I!NoHooks[e]) = {}
  BY DEF I!Ones, I!NoHooks
<1>3. \A z \in {{e} \X I!Ones(Users, I!NoHooks[e]) : e \in Events} : z = {}
  BY <1>2
<1> QED
  BY <1>1, <1>3

\* A renewed event has the one entry of ours, and all of the user's.
LEMMA RenewedIs ==
    ASSUME NEW es
    PROVE  /\ I!Current(I!Renewed(es))
           /\ I!Ones(Users, I!Renewed(es)) = I!Ones(Users, es)
           /\ (\A r \in es : r.kind \in Kinds) => \A r \in I!Renewed(es) : r.kind \in Kinds
<1>1. PICK b : b.kind = "baseline" /\ I!Renewed(es) = (es \ I!Ones(I!Owned, es)) \cup {b}
  BY DEF I!Renewed, I!Add, I!Entry
<1>2. I!Ones(I!Owned, I!Renewed(es)) = {b}
  BY <1>1 DEF I!Ones, I!Owned
<1>3. I!Current(I!Renewed(es))
  BY <1>1, <1>2 DEF I!Current
<1>4. I!Ones(Users, I!Renewed(es)) = I!Ones(Users, es)
  BY <1>1, SetupAssumption DEF I!Ones, I!Owned, SetupAssumption
<1>5. (\A r \in es : r.kind \in Kinds) => \A r \in I!Renewed(es) : r.kind \in Kinds
  BY <1>1 DEF Kinds, I!Owned
<1> QED
  BY <1>3, <1>4, <1>5

\* The same of a merged event; one that is as it should be stays.
LEMMA MergedIs ==
    ASSUME NEW es
    PROVE  /\ I!Current(I!MergeEvent(es))
           /\ I!Ones(Users, I!MergeEvent(es)) = I!Ones(Users, es)
           /\ (\A r \in es : r.kind \in Kinds) => \A r \in I!MergeEvent(es) : r.kind \in Kinds
           /\ I!Current(es) => I!MergeEvent(es) = es
  BY RenewedIs DEF I!MergeEvent

\* mergeClaudeSettings, which keeps the user's entries, leaves one of ours, and changes
\* nothing where that is so.
LEMMA MergeSettingsIs ==
    ASSUME NEW c, Holds("settings", c), NEW force \in BOOLEAN
    PROVE  LET w == I!MergeSettings(c, force) IN
           /\ Holds("settings", w) /\ HasOurs("settings", w)
           /\ I!Own("settings", w) = I!Own("settings", c)
           /\ ~force /\ HasOurs("settings", c) => w = c
           /\ w = I!Broken => c = I!Broken
<1> DEFINE hooks == IF c = I!Absent THEN I!NoHooks ELSE c.hooks
           Merge(all) == [e \in Events |-> IF e \notin HookEvents THEN hooks[e]
                                           ELSE IF all THEN I!Renewed(hooks[e]) ELSE I!MergeEvent(hooks[e])]
           all == force /\ Merge(FALSE) = hooks
           w == I!MergeSettings(c, force)
<1>1. CASE c = I!Broken
  <2>1. w = I!Broken
    BY <1>1 DEF I!MergeSettings
  <2> QED
    BY <2>1, <1>1 DEF Holds, HasOurs
<1>2. CASE c # I!Broken
  <2>1. w = I!Settings(Merge(all))
    BY <1>2 DEF I!MergeSettings
  <2>2. IsHooks(hooks)
    BY <1>2 DEF Holds, IsHooks, I!NoHooks
  <2>3. I!Own("settings", c) = I!Own("settings", I!Settings(hooks))
    <3>1. CASE c = I!Absent
      <4>1. I!Own("settings", I!Absent) = {}
        BY DEF I!Own, I!Absent, I!Broken
      <4>2. hooks = I!NoHooks
        BY <3>1
      <4> QED
        BY <4>1, <4>2, <3>1, OwnOfNothing
    <3>2. CASE c # I!Absent
      BY <3>2, <1>2 DEF Holds
    <3> QED
      BY <3>1, <3>2
  <2>4. HookEvents \subseteq Events
    BY SetupAssumption DEF SetupAssumption
  <2> HIDE DEF hooks, all
  <2>5. \A e \in Events :
          /\ I!Ones(Users, Merge(all)[e]) = I!Ones(Users, hooks[e])
          /\ (\A r \in hooks[e] : r.kind \in Kinds) => \A r \in Merge(all)[e] : r.kind \in Kinds
          /\ e \in HookEvents => I!Current(Merge(all)[e])
    <3>1. \A e \in Events : Merge(all)[e] \in {hooks[e]} \cup {I!Renewed(hooks[e]), I!MergeEvent(hooks[e])}
      OBVIOUS
    <3>2. \A e \in Events : e \in HookEvents => Merge(all)[e] \in {I!Renewed(hooks[e]), I!MergeEvent(hooks[e])}
      OBVIOUS
    <3>3. SUFFICES ASSUME NEW e \in Events
                   PROVE  /\ I!Ones(Users, Merge(all)[e]) = I!Ones(Users, hooks[e])
                          /\ (\A r \in hooks[e] : r.kind \in Kinds) => \A r \in Merge(all)[e] : r.kind \in Kinds
                          /\ e \in HookEvents => I!Current(Merge(all)[e])
      OBVIOUS
    <3> HIDE DEF Merge
    <3> QED
      BY <3>1, <3>2, RenewedIs, MergedIs
  <2>6. IsHooks(Merge(all))
    <3>1. Merge(all) = [e \in Events |-> Merge(all)[e]]
      OBVIOUS
    <3> HIDE DEF Merge
    <3> QED
      BY <2>2, <2>5, <3>1 DEF IsHooks
  <2>7. ~force /\ HasOurs("settings", c) => w = c
    <3>1. SUFFICES ASSUME ~force, HasOurs("settings", c)
                   PROVE  w = c
      OBVIOUS
    <3>2. c.is = "settings" /\ \A e \in HookEvents : I!Current(c.hooks[e])
      BY <3>1, <1>2 DEF HasOurs
    <3>3. c = I!Settings(c.hooks) /\ hooks = c.hooks
      BY <3>2, <1>2 DEF Holds, I!Absent, I!Broken, hooks
    <3>4. ~all
      BY <3>1 DEF all
    <3>5. \A e \in Events : Merge(all)[e] = hooks[e]
      BY <3>2, <3>3, <3>4, MergedIs
    <3>6. Merge(all) = hooks
      BY <3>5, <2>2 DEF IsHooks
    <3> QED
      BY <3>6, <3>3, <2>1
  <2> HIDE DEF Merge, w
  <2>8. w.is = "settings" /\ w.hooks = Merge(all) /\ w # I!Broken
    BY <2>1 DEF I!Settings, I!Broken
  <2>9. Holds("settings", w) /\ HasOurs("settings", w)
    BY <2>8, <2>1, <2>6, <2>5, <2>4 DEF Holds, HasOurs
  <2>10. I!Own("settings", w) = I!Own("settings", c)
    BY <2>1, <2>3, <2>5, OwnOfHooks
  <2> QED
    BY <2>7, <2>8, <2>9, <2>10 DEF w
<1> QED
  BY <1>1, <1>2

\* The uninstaller's, which leaves the user's entries and no other.
LEMMA RemoveSettingsIs ==
    ASSUME NEW c, Holds("settings", c)
    PROVE  LET w == I!RemoveSettings(c) IN
           /\ Holds("settings", w) /\ HasNone("settings", w)
           /\ I!Own("settings", w) = I!Own("settings", c)
           /\ w = I!Broken => c = I!Broken
<1> DEFINE w == I!RemoveSettings(c)
           left == [e \in Events |-> c.hooks[e] \ I!Ones(I!Owned \cup {"legacy"}, c.hooks[e])]
<1>1. CASE c \in {I!Absent, I!Broken}
  BY <1>1 DEF I!RemoveSettings, Holds, HasNone, I!Absent, I!Broken
<1>2. CASE c \notin {I!Absent, I!Broken}
  <2>1. w = I!Settings(left) /\ c = I!Settings(c.hooks) /\ IsHooks(c.hooks)
    BY <1>2 DEF I!RemoveSettings, Holds
  <2>2. \A e \in Events :
          /\ I!Ones(Users, left[e]) = I!Ones(Users, c.hooks[e])
          /\ \A r \in left[e] : r.kind \in Users
    BY <2>1, SetupAssumption DEF SetupAssumption, IsHooks, Kinds, I!Ones, I!Owned
  <2>3. IsHooks(left)
    <3>1. left = [e \in Events |-> left[e]]
      OBVIOUS
    <3> HIDE DEF left
    <3> QED
      BY <2>2, <3>1 DEF IsHooks, Kinds
  <2> HIDE DEF left, w
  <2>4. w.is = "settings" /\ w.hooks = left /\ w # I!Broken
    BY <2>1 DEF I!Settings, I!Broken
  <2>5. I!Own("settings", w) = I!Own("settings", c)
    BY <2>1, <2>2, OwnOfHooks
  <2> QED
    BY <2>1, <2>2, <2>3, <2>4, <2>5 DEF Holds, HasNone, w
<1> QED
  BY <1>1, <1>2

\* mergeMcpJson, which throws for a file that does not parse, and the uninstaller's.
LEMMA McpIs ==
    ASSUME NEW c, Holds("mcp", c), NEW force \in BOOLEAN
    PROVE  /\ LET w == I!MergeMcp(c, force) IN
              /\ Holds("mcp", w)
              /\ w # I!Broken => HasOurs("mcp", w)
              /\ I!Own("mcp", w) = I!Own("mcp", c)
              /\ HasOurs("mcp", c) /\ ~force => w = c
              /\ w = I!Broken => c = I!Broken
           /\ LET w == I!RemoveMcp(c) IN
              /\ Holds("mcp", w) /\ HasNone("mcp", w)
              /\ I!Own("mcp", w) = I!Own("mcp", c)
              /\ w = I!Broken => c = I!Broken
<1>1. I!Own("mcp", I!Absent) = {} /\ I!Own("mcp", I!Broken) = {}
  BY DEF I!Own, I!Absent, I!Broken
<1>2. \A o, z : /\ I!Own("mcp", I!Mcp(o, z)) = z
                /\ I!Mcp(o, z).is = "mcp" /\ I!Mcp(o, z).ours = o /\ I!Mcp(o, z).servers = z
                /\ I!Mcp(o, z) \notin {I!Absent, I!Broken}
                /\ \A x : [I!Mcp(o, z) EXCEPT !.ours = x] = I!Mcp(x, z)
  BY DEF I!Own, I!Mcp, I!Absent, I!Broken
<1>3. I!Absent # I!Broken /\ I!Absent.is = "absent" /\ I!Broken.is = "broken"
  BY DEF I!Absent, I!Broken
<1>8. \A o, z : /\ Holds("mcp", I!Mcp(o, z))
                /\ o # "none" <=> HasOurs("mcp", I!Mcp(o, z))
                /\ o = "none" => HasNone("mcp", I!Mcp(o, z))
  BY <1>2 DEF Holds, HasOurs, HasNone
<1>9. \A x \in {I!Absent, I!Broken} : Holds("mcp", x) /\ ~HasOurs("mcp", x) /\ HasNone("mcp", x)
  BY <1>3 DEF Holds, HasOurs, HasNone
<1>4. CASE c = I!Absent
  <2>1. I!MergeMcp(c, force) = I!Mcp("baseline", {}) /\ I!RemoveMcp(c) = c
    BY <1>4, <1>3 DEF I!MergeMcp, I!RemoveMcp
  <2>2. /\ Holds("mcp", I!Mcp("baseline", {})) /\ HasOurs("mcp", I!Mcp("baseline", {}))
        /\ I!Own("mcp", I!Mcp("baseline", {})) = {} /\ I!Mcp("baseline", {}) # I!Broken
    BY <1>2, <1>8
  <2>3. I!Absent # I!Broken /\ Holds("mcp", I!Absent) /\ ~HasOurs("mcp", I!Absent) /\ HasNone("mcp", I!Absent)
    BY <1>9, <1>3
  <2> QED
    BY <2>1, <2>2, <2>3, <1>1, <1>4, Zenon
<1>5. CASE c = I!Broken
  <2>1. I!MergeMcp(c, force) = I!Broken /\ I!RemoveMcp(c) = c
    BY <1>5, <1>3 DEF I!MergeMcp, I!RemoveMcp
  <2> QED
    BY <2>1, <1>1, <1>3, <1>5, <1>8, <1>9
<1>6. CASE c \notin {I!Absent, I!Broken}
  <2>1. PICK o, z : c = I!Mcp(o, z)
    BY <1>6 DEF Holds
  <2>2. I!MergeMcp(c, force) = IF force \/ o = "none" THEN I!Mcp("baseline", z) ELSE c
    BY <2>1, <1>2, <1>6 DEF I!MergeMcp
  <2>3. I!RemoveMcp(c) = I!Mcp("none", z)
    BY <2>1, <1>2, <1>6 DEF I!RemoveMcp
  <2>5. CASE force \/ o = "none"
    <3>1. I!MergeMcp(c, force) = I!Mcp("baseline", z)
      BY <2>2, <2>5
    <3> QED
      BY <3>1, <2>1, <2>3, <2>5, <1>2, <1>8
  <2>6. CASE ~(force \/ o = "none")
    <3>1. I!MergeMcp(c, force) = c
      BY <2>2, <2>6
    <3> QED
      BY <3>1, <2>1, <2>3, <2>6, <1>2, <1>8
  <2> QED
    BY <2>5, <2>6
<1> QED
  BY <1>4, <1>5, <1>6 DEF Holds

\* mergeEnvFile, which gives every key of the baseline a value.
LEMMA EnvIs ==
    ASSUME NEW c, Holds("env", c), NEW force \in BOOLEAN
    PROVE  LET w == I!MergeEnv(c, force) IN
           /\ Holds("env", w) /\ HasOurs("env", w) /\ w # I!Broken
           /\ ~force => I!Own("env", w) = I!Own("env", c)
           /\ HasOurs("env", c) /\ ~force => w = c
<1> DEFINE keys == IF c = I!Absent THEN I!NoKeys ELSE c.keys
           merged == [k \in EnvKeys |-> IF force \/ keys[k] = "none" THEN "init" ELSE keys[k]]
           w == I!MergeEnv(c, force)
<1>1. w = I!Env(merged)
  BY DEF I!MergeEnv
<1>2. \A h : /\ I!Own("env", I!Env(h)) = {k \in EnvKeys : h[k] = "user"}
             /\ I!Env(h).is = "env" /\ I!Env(h).keys = h
             /\ I!Env(h) \notin {I!Absent, I!Broken}
  BY DEF I!Own, I!Env, I!Absent, I!Broken
<1>3. keys = [k \in EnvKeys |-> keys[k]]
  BY DEF Holds, I!NoKeys
<1>4. I!Own("env", c) = {k \in EnvKeys : keys[k] = "user"}
  <2>1. CASE c = I!Absent
    <3>1. I!Own("env", I!Absent) = {}
      BY DEF I!Own, I!Absent, I!Broken
    <3>2. \A k \in EnvKeys : keys[k] # "user"
      BY <2>1 DEF I!NoKeys
    <3> QED
      BY <3>1, <3>2, <2>1
  <2>2. CASE c # I!Absent
    BY <2>2, <1>2 DEF Holds
  <2> QED
    BY <2>1, <2>2
<1>5. \A k \in EnvKeys : merged[k] # "none" /\ (~force => (merged[k] = "user" <=> keys[k] = "user"))
  OBVIOUS
<1>6. HasOurs("env", c) /\ ~force => w = c
  <2>1. SUFFICES ASSUME HasOurs("env", c), ~force
                 PROVE  w = c
    OBVIOUS
  <2>2. c # I!Absent /\ \A k \in EnvKeys : c.keys[k] # "none"
    BY <2>1 DEF HasOurs, I!Absent
  <2>3. c = I!Env(keys)
    BY <2>2 DEF Holds
  <2>4. \A k \in EnvKeys : merged[k] = keys[k]
    BY <2>1, <2>2
  <2>5. merged = keys
    BY <2>4, <1>3
  <2> QED
    BY <2>3, <2>5, <1>1
<1>7. merged = [k \in EnvKeys |-> merged[k]]
  OBVIOUS
<1> HIDE DEF merged, keys, w
<1>8. Holds("env", w) /\ HasOurs("env", w) /\ w # I!Broken
  BY <1>1, <1>2, <1>5, <1>7 DEF Holds, HasOurs
<1>9. ~force => I!Own("env", w) = I!Own("env", c)
  <2>1. I!Own("env", w) = {k \in EnvKeys : merged[k] = "user"}
    BY <1>1, <1>2
  <2> QED
    BY <2>1, <1>4, <1>5
<1> QED
  BY <1>6, <1>8, <1>9 DEF w

\* writeContextosJson.
LEMMA MarkerIs ==
    ASSUME NEW c, Holds("marker", c), NEW force \in BOOLEAN
    PROVE  LET w == I!WriteMarker(c, force) IN
           /\ Holds("marker", w) /\ HasOurs("marker", w)
           /\ ~force => I!Own("marker", w) = I!Own("marker", c)
           /\ HasOurs("marker", c) /\ ~force => w = c
           /\ w = I!Broken => c = I!Broken
<1>1. /\ I!Own("marker", I!Absent) = {}
      /\ I!Own("marker", I!Slug("init")) = {}
  BY DEF I!Own, I!Absent, I!Broken, I!Slug
<1>2. I!Slug("init") \notin {I!Absent, I!Broken}
  BY DEF I!Absent, I!Broken, I!Slug
<1>3. CASE c = I!Absent \/ force
  <2>1. I!WriteMarker(c, force) = I!Slug("init")
    BY <1>3 DEF I!WriteMarker
  <2> QED
    BY <2>1, <1>1, <1>2, <1>3 DEF Holds, HasOurs
<1>4. CASE ~(c = I!Absent \/ force)
  <2>1. I!WriteMarker(c, force) = c
    BY <1>4 DEF I!WriteMarker
  <2> QED
    BY <2>1, <1>4 DEF Holds, HasOurs
<1> QED
  BY <1>3, <1>4

\* Where a command is.
IsAt ==
    /\ setupCmd.kind \in {"init", "uninstall"}
    /\ setupCmd.at \in 1..Len(I!Steps(setupCmd.kind))

LEMMA HereIs ==
    ASSUME IsAt
    PROVE  /\ setupCmd.at \in Nat \ {0}
           /\ setupCmd.kind = "init" =>
                /\ Len(I!Steps(setupCmd.kind)) = 7 /\ setupCmd.at <= 7
                /\ I!Here \in I!Names <=> setupCmd.at \in 3..6
                /\ I!Here = "marker" <=> setupCmd.at = 3
                /\ I!Here = "mcp" <=> setupCmd.at = 4
                /\ I!Here = "env" <=> setupCmd.at = 5
                /\ I!Here = "settings" <=> setupCmd.at = 6
           /\ setupCmd.kind = "uninstall" =>
                /\ Len(I!Steps(setupCmd.kind)) = 3 /\ setupCmd.at <= 3
                /\ I!Here \in I!Names <=> setupCmd.at \in 1..2
                /\ I!Here = "settings" <=> setupCmd.at = 1
                /\ I!Here = "mcp" <=> setupCmd.at = 2
                /\ I!Here \notin {"marker", "env"}
<1>1. CASE setupCmd.kind = "init"
  <2>1. I!Steps(setupCmd.kind) = <<"db", "runtime", "marker", "mcp", "env", "settings", "seed">>
    BY <1>1 DEF I!Steps
  <2>2. Len(I!Steps(setupCmd.kind)) = 7
    BY <2>1
  <2>3. setupCmd.at \in 1..7
    BY <2>2 DEF IsAt
  <2>4. I!Here = <<"db", "runtime", "marker", "mcp", "env", "settings", "seed">>[setupCmd.at]
    BY <2>1 DEF I!Here
  <2>5. setupCmd.at \in {1, 2, 3, 4, 5, 6, 7}
    BY <2>3
  <2> QED
    BY <2>2, <2>3, <2>4, <2>5, <1>1 DEF I!Names
<1>2. CASE setupCmd.kind = "uninstall"
  <2>1. I!Steps(setupCmd.kind) = <<"settings", "mcp", "home">>
    BY <1>2 DEF I!Steps
  <2>2. Len(I!Steps(setupCmd.kind)) = 3
    BY <2>1
  <2>3. setupCmd.at \in 1..3
    BY <2>2 DEF IsAt
  <2>4. I!Here = <<"settings", "mcp", "home">>[setupCmd.at]
    BY <2>1 DEF I!Here
  <2>5. setupCmd.at \in {1, 2, 3}
    BY <2>3
  <2> QED
    BY <2>2, <2>3, <2>4, <2>5, <1>2 DEF I!Names
<1> QED
  BY <1>1, <1>2 DEF IsAt

\* What a command makes of the file it is at.
LEMMA WantedIs ==
    ASSUME IsAt, I!Here \in I!Names, setupCmd.force \in BOOLEAN,
           NEW c, Holds(I!Here, c)
    PROVE  LET w == I!Wanted(I!Here, c) IN
           /\ Holds(I!Here, w)
           /\ ~(setupCmd.force /\ I!Here \in {"env", "marker"}) => I!Own(I!Here, w) = I!Own(I!Here, c)
           /\ setupCmd.kind = "init" =>
                /\ w # I!Broken \/ I!Here # "mcp" => HasOurs(I!Here, w)
                /\ HasOurs(I!Here, c) /\ ~setupCmd.force => w = c
           /\ setupCmd.kind = "uninstall" => HasNone(I!Here, w)
           /\ w = I!Broken => c = I!Broken
<1>1. CASE setupCmd.kind = "init"
  <2>1. I!Here \in {"marker", "mcp", "env", "settings"}
    BY DEF I!Names
  <2>2. CASE I!Here = "marker"
    <3>1. I!Wanted(I!Here, c) = I!WriteMarker(c, setupCmd.force)
      BY <1>1, <2>2 DEF I!Wanted
    <3> QED
      BY <3>1, <2>2, <1>1, MarkerIs
  <2>3. CASE I!Here = "mcp"
    <3>1. I!Wanted(I!Here, c) = I!MergeMcp(c, setupCmd.force)
      BY <1>1, <2>3 DEF I!Wanted
    <3> QED
      BY <3>1, <2>3, <1>1, McpIs
  <2>4. CASE I!Here = "env"
    <3>1. I!Wanted(I!Here, c) = I!MergeEnv(c, setupCmd.force)
      BY <1>1, <2>4 DEF I!Wanted
    <3> QED
      BY <3>1, <2>4, <1>1, EnvIs
  <2>5. CASE I!Here = "settings"
    <3>1. I!Wanted(I!Here, c) = I!MergeSettings(c, setupCmd.force)
      BY <1>1, <2>5 DEF I!Wanted
    <3> QED
      BY <3>1, <2>5, <1>1, MergeSettingsIs
  <2> QED
    BY <2>1, <2>2, <2>3, <2>4, <2>5
<1>2. CASE setupCmd.kind = "uninstall"
  <2>1. I!Here \in {"mcp", "settings"}
    BY <1>2, HereIs DEF I!Names
  <2>2. CASE I!Here = "mcp"
    <3>1. I!Wanted(I!Here, c) = I!RemoveMcp(c)
      BY <1>2, <2>2 DEF I!Wanted
    <3> QED
      BY <3>1, <2>2, <1>2, McpIs
  <2>3. CASE I!Here = "settings"
    <3>1. I!Wanted(I!Here, c) = I!RemoveSettings(c)
      BY <1>2, <2>3 DEF I!Wanted
    <3> QED
      BY <3>1, <2>3, <1>2, RemoveSettingsIs
  <2> QED
    BY <2>1, <2>2, <2>3
<1> QED
  BY <1>1, <1>2 DEF IsAt

-----------------------------------------------------------------------------
(* What holds while they run.                                               *)

FilesAreOwn ==
    /\ file = [f \in I!Names |-> file[f]] /\ user = [f \in I!Names |-> user[f]]
    /\ \A f \in I!Names : Holds(f, file[f]) /\ I!Own(f, file[f]) = user[f]

\* The steps a command has done.
Past == {f \in I!Names : \E i \in 1..(setupCmd.at - 1) : I!Steps(setupCmd.kind)[i] = f}

\* What a command of this kind leaves in f.
IsLeft(f, c) == IF setupCmd.kind = "init" THEN HasOurs(f, c) ELSE HasNone(f, c)

CmdIsSound ==
    /\ setupCmd = [kind |-> setupCmd.kind, force |-> setupCmd.force, at |-> setupCmd.at,
                   next |-> setupCmd.next, edited |-> setupCmd.edited, late |-> setupCmd.late,
                   repeats |-> setupCmd.repeats, before |-> setupCmd.before]
    /\ {setupCmd.force, setupCmd.edited, setupCmd.late, setupCmd.repeats} \subseteq BOOLEAN
    /\ I!Running =>
          /\ IsAt
          /\ setupTold = "nothing" \/ (setupTold = "ready" /\ setupCmd.repeats)
          /\ ~setupCmd.edited => \A f \in Past : IsLeft(f, file[f])

\* What is about to be written.
NextIsSound ==
    I!Running /\ setupCmd.next # I!Unread =>
        /\ I!Here \in I!Names
        /\ Holds(I!Here, setupCmd.next) /\ IsLeft(I!Here, setupCmd.next)
        /\ ~I!Forgotten(I!Here) => I!Own(I!Here, setupCmd.next) = I!Own(I!Here, file[I!Here])

RepeatIsSound ==
    setupCmd.repeats =>
        /\ I!Running /\ setupCmd.kind = "init" /\ ~setupCmd.force
        /\ file = setupCmd.before /\ setupCmd.next = I!Unread
        /\ \A f \in I!Names : HasOurs(f, file[f])

ToldIsSound ==
    ~I!Running =>
        /\ setupTold = "ready" => \A f \in I!Names : HasOurs(f, file[f])
        /\ setupTold = "removed" => \A f \in I!Names : HasNone(f, file[f])

SetupInv == FilesAreOwn /\ CmdIsSound /\ NextIsSound /\ RepeatIsSound /\ ToldIsSound

\* What the four properties say follows.
LEMMA SetupInvSuffices == SetupInv => I!SetupIsClean
<1> SUFFICES ASSUME SetupInv PROVE I!SetupIsClean
  OBVIOUS
<1>1. I!OthersStay
  BY DEF SetupInv, FilesAreOwn, I!OthersStay
<1>2. {"marker", "mcp", "env", "settings"} \subseteq I!Names
  BY DEF I!Names
<1>3. I!ReadyIsReady
  <2>1. SUFFICES ASSUME setupTold = "ready", ~I!Running
                 PROVE  /\ file["settings"] # I!Broken =>
                              \A e \in HookEvents : I!Current(file["settings"].hooks[e])
                        /\ file["mcp"].ours # "none"
                        /\ \A k \in EnvKeys : file["env"].keys[k] # "none"
                        /\ file["marker"] # I!Absent
    BY DEF I!ReadyIsReady
  <2>2. \A f \in I!Names : HasOurs(f, file[f])
    BY <2>1 DEF SetupInv, ToldIsSound
  <2> QED
    BY <2>2, <1>2 DEF HasOurs
<1>4. I!AgainIsNothing
  BY DEF SetupInv, RepeatIsSound, I!AgainIsNothing
<1>5. I!RemovedIsGone
  <2>1. SUFFICES ASSUME setupTold = "removed"
                 PROVE  /\ file["settings"].is = "settings" =>
                              \A e \in Events : \A r \in file["settings"].hooks[e] : r.kind \in Users
                        /\ file["mcp"].is = "mcp" => file["mcp"].ours = "none"
    BY DEF I!RemovedIsGone
  <2>2. ~I!Running
    BY <2>1 DEF SetupInv, CmdIsSound
  <2>3. \A f \in I!Names : HasNone(f, file[f])
    BY <2>1, <2>2 DEF SetupInv, ToldIsSound
  <2> QED
    BY <2>3, <1>2 DEF HasNone
<1> QED
  BY <1>1, <1>3, <1>4, <1>5 DEF I!SetupIsClean

\* A command that has ended, or died, and says nothing.
LEMMA DiesKeeps ==
    ASSUME I!Dies, FilesAreOwn'
    PROVE  SetupInv'
<1>1. setupCmd' = I!NoCmd /\ setupTold' = "nothing"
  BY DEF I!Dies
<1>2. ~I!Running'
  BY <1>1 DEF I!Running
<1>3. CmdIsSound'
  BY <1>1, <1>2 DEF CmdIsSound, I!NoCmd
<1>4. RepeatIsSound'
  BY <1>1 DEF RepeatIsSound, I!NoCmd
<1> QED
  BY <1>1, <1>2, <1>3, <1>4 DEF SetupInv, NextIsSound, ToldIsSound

LEMMA InitSetupInv ==
    ASSUME NEW on \in BOOLEAN, I!Init(on)
    PROVE  SetupInv
<1>1. setupCmd = I!NoCmd /\ setupTold = "nothing" /\ user = [f \in I!Names |-> I!Own(f, file[f])]
  BY DEF I!Init
<1>2. ~I!Running
  BY <1>1 DEF I!Running
<1>3. file = [f \in I!Names |-> file[f]] /\ \A f \in I!Names : Holds(f, file[f])
  <2>1. CASE file = [f \in I!Names |-> I!Absent]
    BY <2>1 DEF Holds
  <2>2. CASE file # [f \in I!Names |-> I!Absent]
    <3>1. PICK es \in {{I!Entry("legacy", 1)}, {I!Entry("stale", 1), I!Entry("legacy", 2)},
                       {I!Entry("stale", 1), I!Entry("stale", 2)}}, u \in EnvKeys :
            file = I!Earlier(es, u)
      BY <2>2 DEF I!Init
    <3>2. \A r \in es : r.kind \in Kinds
      BY <3>1 DEF I!Entry, Kinds, I!Owned
    <3>3. Holds("settings", I!Settings([e \in Events |-> es]))
      BY <3>2 DEF Holds, IsHooks, I!Settings
    <3>4. Holds("mcp", I!Mcp("none", Servers))
      BY DEF Holds, I!Mcp
    <3>5. \A h : h = [k \in EnvKeys |-> h[k]] => Holds("env", I!Env(h))
      BY DEF Holds, I!Env
    <3>6. Holds("env", I!Env([k \in EnvKeys |-> IF k = u THEN "user" ELSE "none"]))
      BY <3>5
    <3>7. Holds("marker", I!Absent)
      BY DEF Holds
    <3>8. /\ file = [f \in I!Names |-> file[f]]
          /\ file["settings"] = I!Settings([e \in Events |-> es])
          /\ file["mcp"] = I!Mcp("none", Servers)
          /\ file["env"] = I!Env([k \in EnvKeys |-> IF k = u THEN "user" ELSE "none"])
          /\ file["marker"] = I!Absent
      BY <3>1 DEF I!Names, I!Earlier
    <3> QED
      BY <3>3, <3>4, <3>6, <3>7, <3>8 DEF I!Names
  <2> QED
    BY <2>1, <2>2
<1>4. FilesAreOwn
  BY <1>1, <1>3 DEF FilesAreOwn
<1>5. CmdIsSound
  BY <1>1, <1>2 DEF CmdIsSound, I!NoCmd
<1>6. RepeatIsSound
  BY <1>1 DEF RepeatIsSound, I!NoCmd
<1> QED
  BY <1>1, <1>2, <1>4, <1>5, <1>6 DEF SetupInv, NextIsSound, ToldIsSound

\* A step is done: the next one, or the end.
LEMMA GoesKeeps ==
    ASSUME SetupInv, I!Running, I!Goes, FilesAreOwn',
           \A f \in I!Names \ {I!Here} : file'[f] = file[f],
           ~setupCmd.edited /\ I!Here \in I!Names => IsLeft(I!Here, file'[I!Here]),
           setupCmd.repeats => file' = file
    PROVE  SetupInv'
<1> DEFINE at == setupCmd.at
           steps == I!Steps(setupCmd.kind)
<1>1. IsAt
  BY DEF SetupInv, CmdIsSound
<1>2. at \in Nat \ {0} /\ Len(steps) \in Nat /\ at <= Len(steps)
  BY <1>1, HereIs DEF IsAt
<1>3. ASSUME ~setupCmd.edited, NEW f \in I!Names, NEW i \in 1..at, steps[i] = f
      PROVE  IsLeft(f, file'[f])
  <2>1. CASE f = I!Here
    BY <2>1, <1>3
  <2>2. CASE f # I!Here
    <3>1. i # at
      BY <2>2, <1>3 DEF I!Here
    <3>2. i \in 1..(at - 1)
      BY <3>1, <1>2
    <3>3. f \in Past
      BY <3>2, <1>3 DEF Past
    <3> QED
      BY <3>3, <2>2, <1>3 DEF SetupInv, CmdIsSound
  <2> QED
    BY <2>1, <2>2
<1>4. CASE at < Len(steps)
  <2>1. /\ setupCmd' = [setupCmd EXCEPT !.at = @ + 1, !.next = I!Unread, !.late = FALSE]
        /\ setupTold' = setupTold
    BY <1>4 DEF I!Goes
  <2>2. /\ setupCmd' = [kind |-> setupCmd.kind, force |-> setupCmd.force, at |-> at + 1,
                        next |-> I!Unread, edited |-> setupCmd.edited, late |-> FALSE,
                        repeats |-> setupCmd.repeats, before |-> setupCmd.before]
    BY <2>1 DEF SetupInv, CmdIsSound
  <2>3. /\ setupCmd'.kind = setupCmd.kind /\ setupCmd'.force = setupCmd.force
        /\ setupCmd'.at = at + 1 /\ setupCmd'.next = I!Unread
        /\ setupCmd'.edited = setupCmd.edited /\ setupCmd'.late = FALSE
        /\ setupCmd'.repeats = setupCmd.repeats /\ setupCmd'.before = setupCmd.before
    BY <2>2
  <2>4. IsAt'
    <3>1. at + 1 \in 1..Len(steps)
      BY <1>2, <1>4
    <3> QED
      BY <3>1, <2>3, <1>1 DEF IsAt
  <2>5. I!Running'
    BY <2>3, <1>1 DEF I!Running, I!NoCmd, IsAt
  <2>6. ~setupCmd.edited => \A f \in Past' : IsLeft(f, file[f])'
    <3>1. SUFFICES ASSUME ~setupCmd.edited, NEW f \in Past'
                   PROVE  IsLeft(f, file[f])'
      OBVIOUS
    <3>2. PICK i \in 1..((at + 1) - 1) : steps[i] = f
      BY <2>3 DEF Past
    <3>3. i \in 1..at
      BY <1>2
    <3>4. f \in I!Names
      BY DEF Past
    <3>5. IsLeft(f, file'[f])
      BY <3>1, <3>2, <3>3, <3>4, <1>3
    <3> QED
      BY <3>5, <2>3 DEF IsLeft
  <2>7. CmdIsSound'
    <3>1. setupTold = "nothing" \/ (setupTold = "ready" /\ setupCmd.repeats)
      BY DEF SetupInv, CmdIsSound
    <3>2. {setupCmd.force, setupCmd.edited, FALSE, setupCmd.repeats} \subseteq BOOLEAN
      BY DEF SetupInv, CmdIsSound
    <3> QED
      BY <2>1, <2>2, <2>3, <2>4, <2>5, <2>6, <3>1, <3>2 DEF CmdIsSound
  <2>8. NextIsSound'
    BY <2>3 DEF NextIsSound
  <2>9. RepeatIsSound'
    BY <2>3, <2>5 DEF RepeatIsSound, SetupInv
  <2>10. ToldIsSound'
    BY <2>5 DEF ToldIsSound
  <2> QED
    BY <2>7, <2>8, <2>9, <2>10 DEF SetupInv
<1>5. CASE ~(at < Len(steps))
  <2>1. at = Len(steps)
    BY <1>2, <1>5
  <2>2. setupCmd' = I!NoCmd
    BY <1>5 DEF I!Goes
  <2>3. ~I!Running'
    BY <2>2 DEF I!Running
  <2>4. CASE setupCmd.edited
    <3>1. setupTold' = "nothing"
      BY <1>5, <2>4 DEF I!Goes
    <3> QED
      BY <2>2, <3>1, DiesKeeps DEF I!Dies
  <2>5. CASE ~setupCmd.edited /\ setupCmd.kind = "init"
    <3>1. setupTold' = "ready"
      BY <1>5, <2>5 DEF I!Goes
    <3>2. steps = <<"db", "runtime", "marker", "mcp", "env", "settings", "seed">>
      BY <2>5 DEF I!Steps
    <3>3. at = 7 /\ {3, 4, 5, 6} \subseteq 1..at
      BY <3>2, <2>1
    <3>4. \A f \in I!Names : \E i \in 1..at : steps[i] = f
      BY <3>2, <3>3 DEF I!Names
    <3>5. \A f \in I!Names : HasOurs(f, file'[f])
      BY <3>4, <1>3, <2>5 DEF IsLeft
    <3>6. ToldIsSound'
      BY <3>1, <3>5 DEF ToldIsSound
    <3>7. CmdIsSound'
      BY <2>2, <2>3 DEF CmdIsSound, I!NoCmd
    <3>8. RepeatIsSound'
      BY <2>2 DEF RepeatIsSound, I!NoCmd
    <3> QED
      BY <2>3, <3>6, <3>7, <3>8 DEF SetupInv, NextIsSound
  <2>6. CASE ~setupCmd.edited /\ setupCmd.kind = "uninstall"
    <3>1. setupTold' = "removed"
      BY <1>5, <2>6 DEF I!Goes
    <3>2. steps = <<"settings", "mcp", "home">>
      BY <2>6 DEF I!Steps
    <3>3. at = 3 /\ {1, 2} \subseteq 1..at
      BY <3>2, <2>1
    <3>4. \A f \in {"settings", "mcp"} : \E i \in 1..at : steps[i] = f
      BY <3>2, <3>3
    <3>5. \A f \in I!Names : HasNone(f, file'[f])
      <4>1. \A f \in {"settings", "mcp"} : HasNone(f, file'[f])
        BY <3>4, <1>3, <2>6 DEF IsLeft, I!Names
      <4>2. \A f \in {"marker", "env"} : HasNone(f, file'[f])
        BY DEF HasNone
      <4> QED
        BY <4>1, <4>2 DEF I!Names
    <3>6. ToldIsSound'
      BY <3>1, <3>5 DEF ToldIsSound
    <3>7. CmdIsSound'
      BY <2>2, <2>3 DEF CmdIsSound, I!NoCmd
    <3>8. RepeatIsSound'
      BY <2>2 DEF RepeatIsSound, I!NoCmd
    <3> QED
      BY <2>3, <3>6, <3>7, <3>8 DEF SetupInv, NextIsSound
  <2> QED
    BY <2>4, <2>5, <2>6, <1>1 DEF IsAt
<1> QED
  BY <1>4, <1>5

LEMMA BeginKeeps ==
    ASSUME SetupInv, NEW kind \in {"init", "uninstall"}, NEW force \in BOOLEAN,
           I!Begin(kind, force)
    PROVE  SetupInv'
<1>1. /\ ~I!Running /\ file' = file /\ user' = user
      /\ setupCmd' = [I!NoCmd EXCEPT !.kind = kind, !.force = force, !.at = 1, !.before = file,
                         !.repeats = (kind = "init" /\ ~force /\ setupTold = "ready")]
      /\ setupTold' = IF setupTold = "ready" /\ setupCmd'.repeats THEN setupTold ELSE "nothing"
  BY DEF I!Begin
<1> DEFINE again == kind = "init" /\ ~force /\ setupTold = "ready"
<1>2. again \in BOOLEAN
  OBVIOUS
<1> HIDE DEF again
<1>3. setupCmd' = [kind |-> kind, force |-> force, at |-> 1, next |-> I!Unread, edited |-> FALSE,
                   late |-> FALSE, repeats |-> again, before |-> file]
  BY <1>1 DEF I!NoCmd, again
<1>4. /\ setupCmd'.kind = kind /\ setupCmd'.force = force /\ setupCmd'.at = 1
      /\ setupCmd'.next = I!Unread /\ setupCmd'.edited = FALSE /\ setupCmd'.late = FALSE
      /\ setupCmd'.repeats = again /\ setupCmd'.before = file
  BY <1>3
<1>5. IsAt'
  <2>1. Len(I!Steps(kind)) \in {3, 7}
    <3>1. CASE kind = "init"
      <4>1. I!Steps(kind) = <<"db", "runtime", "marker", "mcp", "env", "settings", "seed">>
        BY <3>1 DEF I!Steps
      <4> QED
        BY <4>1
    <3>2. CASE kind = "uninstall"
      <4>1. I!Steps(kind) = <<"settings", "mcp", "home">>
        BY <3>2 DEF I!Steps
      <4> QED
        BY <4>1
    <3> QED
      BY <3>1, <3>2
  <2>2. 1 \in 1..Len(I!Steps(kind))
    <3>1. PICK n \in {3, 7} : n = Len(I!Steps(kind))
      BY <2>1
    <3>2. 1 \in 1..n
      OBVIOUS
    <3> QED
      BY <3>1, <3>2
  <2> QED
    BY <2>2, <1>4 DEF IsAt
<1>6. I!Running'
  BY <1>4 DEF I!Running, I!NoCmd
<1>7. Past' = {}
  <2>1. 1..(1 - 1) = {}
    OBVIOUS
  <2> QED
    BY <2>1, <1>4 DEF Past
<1>8. FilesAreOwn'
  BY <1>1 DEF SetupInv, FilesAreOwn
<1>9. setupTold' = "nothing" \/ (setupTold' = "ready" /\ again)
  BY <1>1, <1>4
<1>10. CmdIsSound'
  BY <1>2, <1>3, <1>4, <1>5, <1>6, <1>7, <1>9 DEF CmdIsSound
<1>11. again => \A f \in I!Names : HasOurs(f, file[f])
  BY <1>1 DEF SetupInv, ToldIsSound, again
<1>12. again => kind = "init" /\ ~force
  BY DEF again
<1>13. RepeatIsSound'
  BY <1>1, <1>4, <1>6, <1>11, <1>12 DEF RepeatIsSound
<1>14. NextIsSound'
  BY <1>4 DEF NextIsSound
<1>15. ToldIsSound'
  BY <1>6 DEF ToldIsSound
<1> QED
  BY <1>8, <1>10, <1>13, <1>14, <1>15 DEF SetupInv

LEMMA OtherKeeps ==
    ASSUME SetupInv, I!Other
    PROVE  SetupInv'
<1>1. FilesAreOwn' /\ file' = file
  BY DEF SetupInv, FilesAreOwn, I!Other
<1>2. I!Running /\ I!Here \notin I!Names /\ (I!Goes \/ I!Dies)
  BY DEF I!Other
<1>3. CASE I!Goes
  BY <1>1, <1>2, <1>3, GoesKeeps
<1>4. CASE I!Dies
  BY <1>1, <1>4, DiesKeeps
<1> QED
  BY <1>2, <1>3, <1>4

\* What is read is what the file holds; what is to be written is right for it.
LEMMA ReadKeeps ==
    ASSUME SetupInv, I!ReadFile
    PROVE  SetupInv'
<1> DEFINE c == file[I!Here]
           want == I!Wanted(I!Here, c)
<1>1. /\ I!Running /\ I!Here \in I!Names /\ setupCmd.next = I!Unread
      /\ file' = file /\ user' = user
  BY DEF I!ReadFile
<1>2. FilesAreOwn'
  BY <1>1 DEF SetupInv, FilesAreOwn
<1>3. IsAt /\ setupCmd.force \in BOOLEAN /\ Holds(I!Here, c)
  BY <1>1 DEF SetupInv, CmdIsSound, FilesAreOwn
<1>4. /\ Holds(I!Here, want)
      /\ ~(setupCmd.force /\ I!Here \in {"env", "marker"}) => I!Own(I!Here, want) = I!Own(I!Here, c)
      /\ setupCmd.kind = "init" =>
            /\ want # I!Broken \/ I!Here # "mcp" => HasOurs(I!Here, want)
            /\ HasOurs(I!Here, c) /\ ~setupCmd.force => want = c
      /\ setupCmd.kind = "uninstall" => HasNone(I!Here, want)
      /\ want = I!Broken => c = I!Broken
  BY <1>1, <1>3, WantedIs
<1>5. setupCmd.kind \in {"init", "uninstall"}
  BY <1>3 DEF IsAt
<1> HIDE DEF want
<1>6. CASE want = I!Broken /\ I!Here = "mcp" /\ setupCmd.kind = "init"
  <2>1. I!Dies
    BY <1>6 DEF I!ReadFile, want
  <2> QED
    BY <2>1, <1>2, DiesKeeps
<1>7. ASSUME ~(want = I!Broken /\ I!Here = "mcp" /\ setupCmd.kind = "init")
      PROVE  IsLeft(I!Here, want)
  BY <1>7, <1>4, <1>5 DEF IsLeft
<1>8. CASE /\ ~(want = I!Broken /\ I!Here = "mcp" /\ setupCmd.kind = "init")
           /\ want = I!Broken \/ (want = c /\ ~setupCmd.force)
  <2>1. I!Goes
    BY <1>8 DEF I!ReadFile, want
  <2>2. c = want
    BY <1>8, <1>4
  <2>3. IsLeft(I!Here, file'[I!Here])
    BY <1>7, <1>8, <2>2, <1>1
  <2> QED
    BY <2>1, <2>3, <1>1, <1>2, GoesKeeps
<1>9. CASE /\ ~(want = I!Broken /\ I!Here = "mcp" /\ setupCmd.kind = "init")
           /\ ~(want = I!Broken \/ (want = c /\ ~setupCmd.force))
  <2>1. setupCmd' = [setupCmd EXCEPT !.next = want] /\ setupTold' = setupTold
    BY <1>9 DEF I!ReadFile, want
  <2>2. setupCmd' = [kind |-> setupCmd.kind, force |-> setupCmd.force, at |-> setupCmd.at,
                     next |-> want, edited |-> setupCmd.edited, late |-> setupCmd.late,
                     repeats |-> setupCmd.repeats, before |-> setupCmd.before]
    BY <2>1 DEF SetupInv, CmdIsSound
  <2>3. /\ setupCmd'.kind = setupCmd.kind /\ setupCmd'.force = setupCmd.force
        /\ setupCmd'.at = setupCmd.at /\ setupCmd'.next = want
        /\ setupCmd'.edited = setupCmd.edited /\ setupCmd'.late = setupCmd.late
        /\ setupCmd'.repeats = setupCmd.repeats /\ setupCmd'.before = setupCmd.before
    BY <2>2
  <2>4. ~setupCmd.repeats
    <3>1. SUFFICES ASSUME setupCmd.repeats PROVE FALSE
      OBVIOUS
    <3>2. setupCmd.kind = "init" /\ ~setupCmd.force /\ HasOurs(I!Here, c)
      BY <3>1, <1>1 DEF SetupInv, RepeatIsSound
    <3> QED
      BY <3>2, <1>4, <1>9
  <2>5. I!Running'
    BY <2>3, <1>5 DEF I!Running, I!NoCmd
  <2>6. IsAt' /\ Past' = Past /\ I!Here' = I!Here
    BY <2>3, <1>3 DEF IsAt, Past, I!Here
  <2>7. \A f \in I!Names : IsLeft(f, file[f])' <=> IsLeft(f, file[f])
    BY <2>3, <1>1 DEF IsLeft
  <2>8. Past \subseteq I!Names
    BY DEF Past
  <2>9. CmdIsSound'
    <3>1. /\ {setupCmd.force, setupCmd.edited, setupCmd.late, setupCmd.repeats} \subseteq BOOLEAN
          /\ setupTold = "nothing" \/ (setupTold = "ready" /\ setupCmd.repeats)
          /\ ~setupCmd.edited => \A f \in Past : IsLeft(f, file[f])
      BY <1>1 DEF SetupInv, CmdIsSound
    <3>2. ~setupCmd.edited => \A f \in Past' : IsLeft(f, file[f])'
      BY <3>1, <2>6, <2>7, <2>8
    <3> QED
      BY <2>1, <2>2, <2>3, <2>6, <3>1, <3>2 DEF CmdIsSound
  <2>10. NextIsSound'
    <3>2. IsLeft(I!Here, setupCmd.next)'
      BY <1>7, <1>9, <2>3, <2>6 DEF IsLeft
    <3>3. I!Forgotten(I!Here)' <=> I!Forgotten(I!Here)
      BY <2>3, <2>6 DEF I!Forgotten
    <3>4. ~I!Forgotten(I!Here) => I!Own(I!Here, want) = I!Own(I!Here, c)
      BY <1>4 DEF I!Forgotten
    <3> QED
      BY <1>1, <1>4, <2>3, <2>6, <3>2, <3>3, <3>4 DEF NextIsSound
  <2>11. RepeatIsSound'
    BY <2>3, <2>4 DEF RepeatIsSound
  <2>12. ToldIsSound'
    BY <2>5 DEF ToldIsSound
  <2> QED
    BY <1>2, <2>9, <2>10, <2>11, <2>12 DEF SetupInv
<1> QED
  BY <1>6, <1>8, <1>9

\* What is written is the user's still, and what the command is to leave.
LEMMA WriteKeeps ==
    ASSUME SetupInv, I!WriteFile
    PROVE  SetupInv'
<1>1. /\ I!Running /\ setupCmd.next # I!Unread /\ I!Goes
      /\ file' = [file EXCEPT ![I!Here] = setupCmd.next]
      /\ user' = [user EXCEPT ![I!Here] =
                    IF I!Forgotten(I!Here) THEN I!Own(I!Here, setupCmd.next) ELSE @]
  BY DEF I!WriteFile
<1>2. /\ I!Here \in I!Names
      /\ Holds(I!Here, setupCmd.next) /\ IsLeft(I!Here, setupCmd.next)
      /\ ~I!Forgotten(I!Here) => I!Own(I!Here, setupCmd.next) = I!Own(I!Here, file[I!Here])
  BY <1>1 DEF SetupInv, NextIsSound
<1>3. /\ file = [f \in I!Names |-> file[f]] /\ user = [f \in I!Names |-> user[f]]
      /\ \A f \in I!Names : Holds(f, file[f]) /\ I!Own(f, file[f]) = user[f]
  BY DEF SetupInv, FilesAreOwn
<1>4. /\ file' = [f \in I!Names |-> file'[f]] /\ user' = [f \in I!Names |-> user'[f]]
      /\ file'[I!Here] = setupCmd.next
      /\ user'[I!Here] = IF I!Forgotten(I!Here) THEN I!Own(I!Here, setupCmd.next) ELSE user[I!Here]
      /\ \A f \in I!Names \ {I!Here} : file'[f] = file[f] /\ user'[f] = user[f]
  BY <1>1, <1>2, <1>3
<1>5. I!Own(I!Here, setupCmd.next) = user'[I!Here]
  BY <1>2, <1>3, <1>4
<1>6. \A f \in I!Names : Holds(f, file'[f]) /\ I!Own(f, file'[f]) = user'[f]
  BY <1>2, <1>3, <1>4, <1>5
<1>7. FilesAreOwn'
  BY <1>4, <1>6 DEF FilesAreOwn
<1>8. ~setupCmd.repeats
  BY <1>1 DEF SetupInv, RepeatIsSound
<1> QED
  BY <1>1, <1>2, <1>4, <1>7, <1>8, GoesKeeps

\* A file that is cut off holds what such a file may.
LEMMA CrashKeeps ==
    ASSUME SetupInv, I!Crash
    PROVE  SetupInv'
<1>1. I!Running /\ I!Dies
  BY DEF I!Crash
<1>2. /\ file = [f \in I!Names |-> file[f]] /\ user = [f \in I!Names |-> user[f]]
      /\ \A f \in I!Names : Holds(f, file[f]) /\ I!Own(f, file[f]) = user[f]
  BY DEF SetupInv, FilesAreOwn
<1>3. CASE setupCmd.next = I!Unread
  <2>1. file' = file /\ user' = user
    BY <1>3 DEF I!Crash
  <2>2. FilesAreOwn'
    BY <2>1, <1>2 DEF FilesAreOwn
  <2> QED
    BY <2>2, <1>1, DiesKeeps
<1>4. CASE setupCmd.next # I!Unread
  <2>1. PICK c \in I!Torn(I!Here) : file' = [file EXCEPT ![I!Here] = c]
    BY <1>4 DEF I!Crash
  <2>2. user' = IF I!Here = "settings" THEN user
                ELSE [user EXCEPT ![I!Here] = I!Own(I!Here, file'[I!Here])]
    BY <1>4 DEF I!Crash
  <2>3. I!Here \in I!Names
    BY <1>1, <1>4 DEF SetupInv, NextIsSound
  <2>4. Holds(I!Here, c) /\ (I!Here = "settings" => c = file[I!Here])
    <3>1. CASE I!Here = "settings"
      BY <3>1, <2>1, <2>3, <1>2 DEF I!Torn
    <3>2. CASE I!Here = "env"
      <4>1. c = file[I!Here] \/ \E Z \in SUBSET EnvKeys :
              c = I!Env([k \in EnvKeys |-> IF k \in Z THEN setupCmd.next.keys[k] ELSE "none"])
        BY <3>2, <2>1 DEF I!Torn
      <4>2. \A h : h = [k \in EnvKeys |-> h[k]] => Holds("env", I!Env(h))
        BY DEF Holds, I!Env
      <4>3. \A Z : Holds("env", I!Env([k \in EnvKeys |-> IF k \in Z THEN setupCmd.next.keys[k] ELSE "none"]))
        BY <4>2
      <4> QED
        BY <4>1, <4>3, <3>2, <2>3, <1>2
    <3>3. CASE I!Here \in {"mcp", "marker"}
      <4>1. c \in {file[I!Here], I!Broken}
        BY <3>3, <2>1 DEF I!Torn
      <4> QED
        BY <4>1, <3>3, <2>3, <1>2 DEF Holds
    <3> QED
      BY <3>1, <3>2, <3>3, <2>3 DEF I!Names
  <2>5. /\ file' = [f \in I!Names |-> file'[f]] /\ user' = [f \in I!Names |-> user'[f]]
        /\ file'[I!Here] = c
        /\ \A f \in I!Names \ {I!Here} : file'[f] = file[f] /\ user'[f] = user[f]
    BY <2>1, <2>2, <2>3, <1>2
  <2>6. I!Own(I!Here, c) = user'[I!Here]
    <3>1. CASE I!Here = "settings"
      BY <3>1, <2>2, <2>3, <2>4, <1>2
    <3>2. CASE I!Here # "settings"
      BY <3>2, <2>2, <2>3, <2>5, <1>2
    <3> QED
      BY <3>1, <3>2
  <2>7. \A f \in I!Names : Holds(f, file'[f]) /\ I!Own(f, file'[f]) = user'[f]
    BY <2>4, <2>5, <2>6, <1>2
  <2>8. FilesAreOwn'
    BY <2>5, <2>7 DEF FilesAreOwn
  <2> QED
    BY <2>8, <1>1, DiesKeeps
<1> QED
  BY <1>3, <1>4

\* What an editor leaves is a file of its kind.
LEMMA ChangedIs ==
    ASSUME NEW f \in I!Names, Holds(f, file[f]), NEW c \in I!Changed(f)
    PROVE  Holds(f, c)
<1>1. CASE f = "settings"
  <2>1. \A h : IsHooks(h) => Holds("settings", I!Settings(h))
    BY DEF Holds, I!Settings
  <2>2. \A es, x : (\A r \in es : r.kind \in Kinds) /\ x \in Kinds =>
            /\ \A r \in I!Add(es, x) : r.kind \in Kinds
            /\ \A r \in I!Turned(es, x) : r.kind \in Kinds
    BY DEF I!Add, I!Turned, I!Entry
  <2>3. \A h, e, es : IsHooks(h) /\ e \in Events /\ (\A r \in es : r.kind \in Kinds) =>
            IsHooks([h EXCEPT ![e] = es])
    BY DEF IsHooks
  <2>4. IsHooks(I!NoHooks)
    BY DEF IsHooks, I!NoHooks
  <2>5. HookEvents \subseteq Events /\ Users \subseteq Kinds /\ {"stale", "shared"} \subseteq Kinds
    BY SetupAssumption DEF SetupAssumption, Kinds, I!Owned
  <2>6. ASSUME NEW e \in HookEvents, NEW x \in Users, c = I!Settings([I!NoHooks EXCEPT ![e] = I!Add({}, x)])
        PROVE  Holds("settings", c)
    BY <2>6, <2>1, <2>2, <2>3, <2>4, <2>5
  <2>0. c \in I!Rehooked(file[f])
    BY <1>1 DEF I!Changed
  <2>7. CASE file[f].is # "settings"
    <3>1. c \in {I!Settings([I!NoHooks EXCEPT ![e] = I!Add({}, x)]) : e \in HookEvents, x \in Users}
      BY <2>0, <2>7 DEF I!Rehooked
    <3>2. PICK e \in HookEvents, x \in Users : c = I!Settings([I!NoHooks EXCEPT ![e] = I!Add({}, x)])
      BY <3>1
    <3> QED
      BY <3>2, <2>6, <1>1
  <2>8. CASE file[f].is = "settings"
    <3> DEFINE h == file[f].hooks
               Anew == {I!Settings([I!NoHooks EXCEPT ![e] = I!Add({}, x)]) : e \in HookEvents, x \in Users}
               More == {I!Settings([h EXCEPT ![e] = I!Add(@, x)]) : e \in Events, x \in Users}
               Other == {I!Settings([h EXCEPT ![e] = I!Turned(@, x)]) : e \in HookEvents, x \in {"stale", "shared"}}
    <3>1. IsHooks(h)
      BY <1>1, <2>8 DEF Holds, I!Absent, I!Broken
    <3>2. c \in Anew \/ c = I!Broken \/ c \in More \/ c \in Other
      <4>1. c \in Anew \cup IF file[f].is # "settings" THEN {} ELSE {I!Broken} \cup More \cup Other
        BY <2>0 DEF I!Rehooked
      <4> HIDE DEF Anew, More, Other
      <4> QED
        BY <4>1, <2>8
    <3> HIDE DEF h
    <3>3. ASSUME NEW e \in Events, NEW x \in Users, c = I!Settings([h EXCEPT ![e] = I!Add(@, x)])
          PROVE  Holds("settings", c)
      <4>1. \A r \in I!Add(h[e], x) : r.kind \in Kinds
        BY <3>1, <2>2, <2>5 DEF IsHooks
      <4> QED
        BY <4>1, <3>1, <3>3, <2>1, <2>3
    <3>4. ASSUME NEW e \in HookEvents, NEW x \in {"stale", "shared"},
                 c = I!Settings([h EXCEPT ![e] = I!Turned(@, x)])
          PROVE  Holds("settings", c)
      <4>1. \A r \in I!Turned(h[e], x) : r.kind \in Kinds
        BY <3>1, <2>2, <2>5 DEF IsHooks
      <4> QED
        BY <4>1, <3>1, <3>4, <2>1, <2>3, <2>5
    <3>5. Holds("settings", I!Broken)
      BY DEF Holds
    <3>6. CASE c \in Anew
      <4>1. PICK e \in HookEvents, x \in Users : c = I!Settings([I!NoHooks EXCEPT ![e] = I!Add({}, x)])
        BY <3>6
      <4> QED
        BY <4>1, <2>6, <1>1
    <3>7. CASE c \in More
      <4>1. PICK e \in Events, x \in Users : c = I!Settings([h EXCEPT ![e] = I!Add(@, x)])
        BY <3>7
      <4> QED
        BY <4>1, <3>3, <1>1
    <3>8. CASE c \in Other
      <4>1. PICK e \in HookEvents, x \in {"stale", "shared"} : c = I!Settings([h EXCEPT ![e] = I!Turned(@, x)])
        BY <3>8
      <4> QED
        BY <4>1, <3>4, <1>1
    <3> HIDE DEF Anew, More, Other
    <3> QED
      BY <3>2, <3>5, <3>6, <3>7, <3>8, <1>1
  <2> QED
    BY <2>7, <2>8
<1>2. CASE f = "mcp"
  BY <1>2 DEF I!Changed, Holds, I!Mcp
<1>3. CASE f = "env"
  <2>1. PICK k0 \in EnvKeys : c = I!Env([I!NoKeys EXCEPT ![k0] = "user"])
    BY <1>3 DEF I!Changed
  <2>2. \A h : h = [k \in EnvKeys |-> h[k]] => Holds("env", I!Env(h))
    BY DEF Holds, I!Env
  <2>3. [I!NoKeys EXCEPT ![k0] = "user"] = [k \in EnvKeys |-> [I!NoKeys EXCEPT ![k0] = "user"][k]]
    BY DEF I!NoKeys
  <2> QED
    BY <2>1, <2>2, <2>3, <1>3
<1>4. CASE f = "marker"
  BY <1>4 DEF I!Changed, Holds
<1> QED
  BY <1>1, <1>2, <1>3, <1>4 DEF I!Names

LEMMA EditKeeps ==
    ASSUME SetupInv, NEW f \in I!Names, I!Edit(f)
    PROVE  SetupInv'
<1>1. PICK c \in I!Changed(f) :
        file' = [file EXCEPT ![f] = c] /\ user' = [user EXCEPT ![f] = I!Own(f, c)]
  BY DEF I!Edit
<1>2. /\ file = [g \in I!Names |-> file[g]] /\ user = [g \in I!Names |-> user[g]]
      /\ \A g \in I!Names : Holds(g, file[g]) /\ I!Own(g, file[g]) = user[g]
  BY DEF SetupInv, FilesAreOwn
<1>3. Holds(f, c)
  BY <1>2, ChangedIs
<1>4. /\ file' = [g \in I!Names |-> file'[g]] /\ user' = [g \in I!Names |-> user'[g]]
      /\ file'[f] = c /\ user'[f] = I!Own(f, c)
      /\ \A g \in I!Names \ {f} : file'[g] = file[g] /\ user'[g] = user[g]
  BY <1>1, <1>2
<1>5. \A g \in I!Names : Holds(g, file'[g]) /\ I!Own(g, file'[g]) = user'[g]
  BY <1>2, <1>3, <1>4
<1>6. FilesAreOwn'
  BY <1>4, <1>5 DEF FilesAreOwn
<1>7. setupTold' = "nothing"
  BY DEF I!Edit
<1>8. CASE ~I!Running
  <2>1. setupCmd' = I!NoCmd
    BY <1>8 DEF I!Edit, I!Running
  <2> QED
    BY <2>1, <1>6, <1>7, DiesKeeps DEF I!Dies
<1>9. CASE I!Running
  <2> DEFINE late == setupCmd.late \/ (setupCmd.next # I!Unread /\ I!Here = f)
  <2>1. setupCmd' = [setupCmd EXCEPT !.edited = TRUE, !.repeats = FALSE, !.late = late]
    BY <1>9 DEF I!Edit
  <2>2. late \in BOOLEAN
    BY DEF SetupInv, CmdIsSound
  <2>3. ~late => ~setupCmd.late /\ (setupCmd.next # I!Unread => I!Here # f)
    OBVIOUS
  <2> HIDE DEF late
  <2>4. setupCmd' = [kind |-> setupCmd.kind, force |-> setupCmd.force, at |-> setupCmd.at,
                     next |-> setupCmd.next, edited |-> TRUE, late |-> late,
                     repeats |-> FALSE, before |-> setupCmd.before]
    BY <2>1 DEF SetupInv, CmdIsSound
  <2>5. /\ setupCmd'.kind = setupCmd.kind /\ setupCmd'.force = setupCmd.force
        /\ setupCmd'.at = setupCmd.at /\ setupCmd'.next = setupCmd.next
        /\ setupCmd'.edited = TRUE /\ setupCmd'.late = late
        /\ setupCmd'.repeats = FALSE /\ setupCmd'.before = setupCmd.before
    BY <2>4
  <2>6. IsAt /\ setupCmd.force \in BOOLEAN
    BY <1>9 DEF SetupInv, CmdIsSound
  <2>7. IsAt' /\ I!Here' = I!Here
    BY <2>5, <2>6 DEF IsAt, I!Here
  <2>8. CmdIsSound'
    BY <1>7, <2>2, <2>4, <2>5, <2>6, <2>7 DEF CmdIsSound
  <2>9. NextIsSound'
    <3>1. SUFFICES ASSUME setupCmd.next # I!Unread
                   PROVE  /\ I!Here \in I!Names
                          /\ Holds(I!Here, setupCmd.next) /\ IsLeft(I!Here, setupCmd.next)'
                          /\ ~I!Forgotten(I!Here)' =>
                                I!Own(I!Here, setupCmd.next) = I!Own(I!Here, file'[I!Here])
      BY <2>5, <2>7 DEF NextIsSound
    <3>2. /\ I!Here \in I!Names
          /\ Holds(I!Here, setupCmd.next) /\ IsLeft(I!Here, setupCmd.next)
          /\ ~I!Forgotten(I!Here) => I!Own(I!Here, setupCmd.next) = I!Own(I!Here, file[I!Here])
      BY <3>1, <1>9 DEF SetupInv, NextIsSound
    <3>3. IsLeft(I!Here, setupCmd.next)'
      BY <3>2, <2>5, <2>7 DEF IsLeft
    <3>4. ASSUME ~I!Forgotten(I!Here)'
          PROVE  I!Own(I!Here, setupCmd.next) = I!Own(I!Here, file'[I!Here])
      <4>1. ~late
        BY <3>4, <2>5 DEF I!Forgotten
      <4>2. I!Here # f /\ ~I!Forgotten(I!Here)
        BY <4>1, <2>3, <3>1, <3>4, <2>5, <2>7 DEF I!Forgotten
      <4> QED
        BY <4>2, <3>2, <1>4
    <3> QED
      BY <3>2, <3>3, <3>4
  <2>10. RepeatIsSound'
    BY <2>5 DEF RepeatIsSound
  <2>11. I!Running'
    BY <2>5, <2>6 DEF I!Running, I!NoCmd, IsAt
  <2>12. ToldIsSound'
    BY <2>11 DEF ToldIsSound
  <2> QED
    BY <1>6, <2>8, <2>9, <2>10, <2>12 DEF SetupInv
<1> QED
  BY <1>8, <1>9

\* The user's entries, keys and servers survive init and uninstall; what either says it has
\* done is so; and a second init changes nothing.
THEOREM SetupHolds == WorkSpec => []SetupIsClean
<1>1. WorkInit => SetupInv
  BY InitSetupInv DEF WorkInit
<1>2. SetupInv /\ [WorkNext]_workVars => SetupInv'
  <2> SUFFICES ASSUME SetupInv, [WorkNext]_workVars PROVE SetupInv'
    OBVIOUS
  <2>1. ASSUME UNCHANGED setupVars
        PROVE  SetupInv'
    <3>1. /\ file' = file /\ setupCmd' = setupCmd /\ user' = user /\ setupTold' = setupTold
      BY <2>1 DEF setupVars
    <3>2. FilesAreOwn'
      BY <3>1 DEF SetupInv, FilesAreOwn
    <3>3. I!Running' <=> I!Running
      BY <3>1 DEF I!Running
    <3>4. I!Here' = I!Here /\ Past' = Past /\ (IsAt' <=> IsAt)
      BY <3>1 DEF I!Here, Past, IsAt
    <3>5. CmdIsSound'
      BY <3>1, <3>3, <3>4 DEF SetupInv, CmdIsSound, IsLeft
    <3>6. NextIsSound'
      BY <3>1, <3>3, <3>4 DEF SetupInv, NextIsSound, IsLeft, I!Forgotten
    <3>7. RepeatIsSound' /\ ToldIsSound'
      BY <3>1, <3>3 DEF SetupInv, RepeatIsSound, ToldIsSound
    <3> QED
      BY <3>2, <3>5, <3>6, <3>7 DEF SetupInv
  <2>2. ASSUME I!Next
        PROVE  SetupInv'
    <3>1. CASE \E force \in BOOLEAN : I!Begin("init", force)
      BY <3>1, BeginKeeps
    <3>2. CASE I!Begin("uninstall", FALSE)
      BY <3>2, BeginKeeps
    <3>3. CASE I!Other
      BY <3>3, OtherKeeps
    <3>4. CASE I!ReadFile
      BY <3>4, ReadKeeps
    <3>5. CASE I!WriteFile
      BY <3>5, WriteKeeps
    <3>6. CASE I!Crash
      BY <3>6, CrashKeeps
    <3>7. CASE \E f \in I!Names : I!Edit(f)
      BY <3>7, EditKeeps
    <3> QED
      BY <2>2, <3>1, <3>2, <3>3, <3>4, <3>5, <3>6, <3>7 DEF I!Next
  <2>3. UNCHANGED setupVars \/ I!Next
    BY DEF WorkNext, Among, workVars
  <2> QED
    BY <2>1, <2>2, <2>3
<1>3. SetupInv => SetupIsClean
  BY SetupInvSuffices DEF SetupIsClean
<1> QED
  BY <1>1, <1>2, <1>3, PTL DEF WorkSpec

=============================================================================
