------------------------- MODULE UpdateChannelProofs -------------------------
(***************************************************************************)
(* Proofs about UpdateChannel, for any number of hubs, directories,        *)
(* agents, platforms, releases and faults: an agent only moves up, to      *)
(* verified builds, and a mirror that was left in peace is consistent.     *)
(***************************************************************************)
EXTENDS UpdateChannel, TLAPS

Manifests == [version : 0..Cut, signed : BOOLEAN]
SyncStates ==
  [at : {"idle", "asked", "fetch", "fetched", "open", "written"}, rel : 0..MaxRelease,
   signed : BOOLEAN, todo : SUBSET Platforms, alone : BOOLEAN, into : {"tmp", "manifest", "gone"}]
Updates ==
  [at : {"run", "checked", "staged", "moved", "installed", "dead"}, version : 0..Cut,
   signed : BOOLEAN]

Types ==
  /\ latest \in 0..MaxRelease /\ faults \in 0..MaxFaults
  /\ conf \in [dir : [Hubs -> Dirs], platform : [Agents -> Platforms], keyed : SUBSET Agents]

HubTypes ==
  /\ spoiled \subseteq Dirs
  /\ files \in [Dirs -> [Platforms -> 0..MaxRelease]]
  /\ manifest \in [Dirs -> Manifests] /\ tmp \in [Dirs -> Manifests]
  /\ sync \in [Hubs -> SyncStates]

AgentTypes ==
  /\ running \in [Agents -> Releases] /\ exe \in [Agents -> 0..MaxRelease]
  /\ update \in [Agents -> Updates]

-----------------------------------------------------------------------------
(* The invariant of the hubs.                                              *)

\* A manifest is called signed only when its release is.
SignedOK ==
  /\ \A d \in Dirs : /\ manifest[d].signed => manifest[d].version \in Signed
                     /\ tmp[d].signed => tmp[d].version \in Signed
  /\ \A h \in Hubs : sync[h].signed => sync[h].rel \in Signed

RelOK ==
  \A h \in Hubs : /\ sync[h].at # "idle" => sync[h].rel \in Releases
                  /\ sync[h].signed => Syncing(h)
                  /\ sync[h].into # "tmp" => sync[h].at = "open"

\* The only one at work on its directory.
OnlyOne(h) == \A g \in Hubs \ {h} : Dir(g) = Dir(h) => ~Syncing(g)

\* How far a sync has come that nobody disturbed.
Progress(h) ==
  /\ sync[h].at = "fetch" =>
       \A p \in Assets[sync[h].rel] \ sync[h].todo : files[Dir(h)][p] = sync[h].rel
  /\ sync[h].at \in {"fetched", "open", "written"} =>
       \A p \in Assets[sync[h].rel] : files[Dir(h)][p] = sync[h].rel
  /\ sync[h].into = "tmp"
  /\ sync[h].at = "written" => tmp[Dir(h)] = Content(h)

AloneOK == \A h \in Hubs : Syncing(h) /\ sync[h].alone => OnlyOne(h) /\ Progress(h)
SpoiledOK == \A h \in Hubs : Syncing(h) /\ ~sync[h].alone => Dir(h) \in spoiled

HInv == HubTypes /\ SignedOK /\ RelOK /\ AloneOK /\ SpoiledOK /\ FilesMatch

-----------------------------------------------------------------------------
(* The invariant of the agents.                                            *)

\* A build that agent a may come to run.
Upward(c, a) == c \in Releases /\ c > running[a] /\ (a \in conf.keyed => c \in Signed)

AgentOK(a) ==
  /\ exe[a] \in {Missing, running[a]} \/ Upward(exe[a], a)
  /\ update[a].at = "checked" => /\ update[a].version \in Releases
                                 /\ update[a].version > running[a]
                                 /\ update[a].signed => update[a].version \in Signed
  /\ update[a].at \in {"staged", "moved"} => Upward(update[a].version, a)

AInv == AgentTypes /\ \A a \in Agents : AgentOK(a)

IInv == Types /\ HInv /\ AInv

-----------------------------------------------------------------------------

LEMMA InitInv == Init => IInv
<1> SUFFICES ASSUME Init PROVE IInv
  OBVIOUS
<1> USE DEF Init
<1>1. Types
  BY ChannelAssumption DEF Types
<1>2. HubTypes
  BY ChannelAssumption DEF HubTypes, NoManifest, Missing, Cut, Manifests, Quiet, SyncStates
<1>3. SignedOK /\ RelOK /\ AloneOK /\ SpoiledOK
  BY DEF SignedOK, RelOK, AloneOK, SpoiledOK, NoManifest, Quiet, Syncing
<1>4. FilesMatch
  BY ChannelAssumption DEF FilesMatch, NoManifest, Missing, Releases
<1>5. AInv
  BY ChannelAssumption DEF AInv, AgentTypes, AgentOK, Releases, NoUpdate, Updates, Cut
<1> QED BY <1>1, <1>2, <1>3, <1>4, <1>5 DEF IInv, HInv

-----------------------------------------------------------------------------
(* The hubs' steps, one lemma each.                                        *)

LEMMA DirType == ASSUME Types, NEW h \in Hubs PROVE Dir(h) \in Dirs
BY DEF Types, Dir

\* A step of hub h that changes nothing but its own state, from outside a sync to
\* outside a sync.
LEMMA OutsideInv ==
  ASSUME Types, HInv, NEW h \in Hubs, NEW s \in SyncStates,
         sync[h].at \in {"idle", "asked"}, sync' = [sync EXCEPT ![h] = s],
         s.at \in {"idle", "asked"}, ~s.signed,
         s.at = "asked" => s.rel \in Releases, s.into = "tmp",
         UNCHANGED <<conf, files, manifest, tmp, spoiled>>
  PROVE  HInv'
<1>1. /\ sync'[h] = s /\ \A g \in Hubs : g # h => sync'[g] = sync[g]
      /\ sync' \in [Hubs -> SyncStates]
  BY DEF HInv, HubTypes
<1>2. \A g \in Hubs : /\ Dir(g)' = Dir(g) /\ (Syncing(g)' <=> Syncing(g))
                      /\ Syncing(g) => sync'[g] = sync[g]
  BY <1>1 DEF Dir, Syncing
<1>3. HubTypes'
  BY <1>1 DEF HInv, HubTypes
<1>4. SignedOK' /\ RelOK'
  BY <1>1, <1>2 DEF HInv, SignedOK, RelOK
<1>5. AloneOK'
  <2> SUFFICES ASSUME NEW g \in Hubs, Syncing(g)', sync'[g].alone PROVE OnlyOne(g)' /\ Progress(g)'
    BY DEF AloneOK
  <2>1. Syncing(g) /\ sync'[g] = sync[g] /\ OnlyOne(g) /\ Progress(g)
    BY <1>2 DEF HInv, AloneOK
  <2> QED BY <1>2, <2>1 DEF OnlyOne, Progress, Content
<1>6. SpoiledOK'
  BY <1>2 DEF HInv, SpoiledOK
<1>7. FilesMatch'
  BY <1>2 DEF HInv, FilesMatch
<1> QED BY <1>3, <1>4, <1>5, <1>6, <1>7 DEF HInv

LEMMA AskInv == ASSUME Types, HInv, NEW h \in Hubs, Ask(h) PROVE HInv'
<1> DEFINE s == [sync[h] EXCEPT !.at = "asked", !.rel = latest]
<1>1. sync' = [sync EXCEPT ![h] = s] /\ sync[h].at = "idle"
  BY DEF Ask, HInv, HubTypes, SyncStates
<1>2. /\ s \in SyncStates /\ s.at = "asked" /\ s.rel = latest
      /\ ~s.signed /\ s.into = "tmp"
  BY <1>1 DEF HInv, HubTypes, SyncStates, Types, RelOK, Syncing
<1>3. latest \in Releases
  BY DEF Ask, Types, Releases
<1>4. UNCHANGED <<conf, files, manifest, tmp, spoiled>>
  BY DEF Ask
<1> HIDE DEF s
<1> QED BY <1>1, <1>2, <1>3, <1>4, OutsideInv

LEMMA NothingToDoInv == ASSUME Types, HInv, NEW h \in Hubs, NothingToDo(h) PROVE HInv'
<1>1. /\ Quiet \in SyncStates /\ Quiet.at = "idle" /\ ~Quiet.signed /\ Quiet.into = "tmp"
  BY ChannelAssumption DEF Quiet, SyncStates
<1>2. /\ sync' = [sync EXCEPT ![h] = Quiet] /\ sync[h].at = "asked"
      /\ UNCHANGED <<conf, files, manifest, tmp, spoiled>>
  BY DEF NothingToDo
<1> QED BY <1>1, <1>2, OutsideInv

LEMMA BeginInv == ASSUME Types, HInv, NEW h \in Hubs, Begin(h) PROVE HInv'
<1>1. PICK b \in BOOLEAN :
        /\ b => sync[h].rel \in Signed
        /\ sync' = [g \in Hubs |->
            IF g = h THEN [sync[h] EXCEPT !.at = "fetch", !.signed = b,
                             !.todo = Assets[sync[h].rel], !.alone = Others(h) = {}]
            ELSE IF g \in Others(h) THEN [sync[g] EXCEPT !.alone = FALSE] ELSE sync[g]]
  BY DEF Begin
<1>2. /\ sync[h].at = "asked" /\ sync[h].rel \in Releases /\ sync[h].into = "tmp"
      /\ UNCHANGED <<conf, files, manifest, tmp>>
      /\ spoiled' = IF Others(h) = {} THEN spoiled ELSE spoiled \cup {Dir(h)}
      /\ Dir(h) \in Dirs /\ Assets[sync[h].rel] \subseteq Platforms
  BY DirType, ChannelAssumption DEF Begin, HInv, RelOK
<1>3. /\ sync'[h] \in SyncStates /\ sync'[h].at = "fetch" /\ sync'[h].signed = b
      /\ sync'[h].rel = sync[h].rel /\ sync'[h].todo = Assets[sync[h].rel]
      /\ sync'[h].alone = (Others(h) = {}) /\ sync'[h].into = "tmp"
  BY <1>1, <1>2 DEF HInv, HubTypes, SyncStates
<1>4. ASSUME NEW g \in Hubs, g # h
      PROVE  /\ sync'[g] \in SyncStates /\ sync'[g].at = sync[g].at /\ sync'[g].rel = sync[g].rel
             /\ sync'[g].signed = sync[g].signed /\ sync'[g].todo = sync[g].todo
             /\ sync'[g].into = sync[g].into
             /\ sync'[g].alone = (sync[g].alone /\ g \notin Others(h))
  BY <1>1, <1>4 DEF HInv, HubTypes, SyncStates
<1>5. /\ \A g \in Hubs : Dir(g)' = Dir(g) /\ (g # h => (Syncing(g)' <=> Syncing(g)))
      /\ Syncing(h)' /\ ~Syncing(h)
  BY <1>2, <1>3, <1>4 DEF Dir, Syncing
<1>6. HubTypes'
  <2>1. sync' \in [Hubs -> SyncStates]
    <3>1. \A g \in Hubs : sync'[g] \in SyncStates
      BY <1>3, <1>4
    <3>2. sync' = [g \in Hubs |-> sync'[g]]
      BY <1>1
    <3> QED BY <3>1, <3>2
  <2> QED BY <1>2, <2>1 DEF HInv, HubTypes
<1>7. SignedOK'
  BY <1>1, <1>2, <1>3, <1>4 DEF HInv, SignedOK
<1>8. RelOK'
  BY <1>2, <1>3, <1>4, <1>5 DEF HInv, RelOK
<1>9. AloneOK'
  <2> SUFFICES ASSUME NEW g \in Hubs, Syncing(g)', sync'[g].alone PROVE OnlyOne(g)' /\ Progress(g)'
    BY DEF AloneOK
  <2>1. CASE g = h
    <3>1. OnlyOne(g)'
      <4>1. Others(h) = {}
        BY <1>3, <2>1
      <4>2. \A k \in Hubs \ {h} : Dir(k) = Dir(h) => ~Syncing(k)
        BY <4>1 DEF Others
      <4> QED BY <1>5, <2>1, <4>2 DEF OnlyOne
    <3>2. Progress(g)'
      BY <1>3, <2>1 DEF Progress
    <3> QED BY <3>1, <3>2
  <2>2. CASE g # h
    <3>1. Syncing(g) /\ sync[g].alone /\ g \notin Others(h)
      BY <1>4, <1>5, <2>2
    <3>2. Dir(g) # Dir(h) /\ OnlyOne(g) /\ Progress(g)
      BY <2>2, <3>1 DEF Others, HInv, AloneOK
    <3>3. OnlyOne(g)'
      BY <1>5, <2>2, <3>2 DEF OnlyOne
    <3>4. Progress(g)'
      BY <1>2, <1>4, <1>5, <2>2, <3>2 DEF Progress, Content
    <3> QED BY <3>3, <3>4
  <2> QED BY <2>1, <2>2
<1>10. SpoiledOK'
  <2> SUFFICES ASSUME NEW g \in Hubs, Syncing(g)', ~sync'[g].alone PROVE Dir(g)' \in spoiled'
    BY DEF SpoiledOK
  <2>1. CASE g = h
    BY <1>2, <1>3, <1>5, <2>1
  <2>2. CASE g # h /\ g \in Others(h)
    BY <1>2, <1>5, <2>2 DEF Others
  <2>3. CASE g # h /\ g \notin Others(h)
    BY <1>2, <1>4, <1>5, <2>3 DEF HInv, SpoiledOK
  <2> QED BY <2>1, <2>2, <2>3
<1>11. FilesMatch'
  BY <1>2, <1>4, <1>5 DEF HInv, FilesMatch
<1> QED BY <1>6, <1>7, <1>8, <1>9, <1>10, <1>11 DEF HInv

\* A step of hub h within its sync that takes no other hub's manifest away: what
\* remains to be shown is about its own directory.
LEMMA InsideInv ==
  ASSUME Types, HInv, NEW h \in Hubs, NEW s \in SyncStates,
         Syncing(h), s.at \in {"fetch", "fetched", "open", "written"},
         s.rel = sync[h].rel, s.signed = sync[h].signed, s.alone = sync[h].alone,
         s.into # "tmp" => s.at = "open",
         sync' = [sync EXCEPT ![h] = s],
         HubTypes', \A d \in Dirs : /\ manifest'[d].signed => manifest'[d].version \in Signed
                                    /\ tmp'[d].signed => tmp'[d].version \in Signed,
         \A d \in Dirs \ {Dir(h)} :
           files'[d] = files[d] /\ manifest'[d] = manifest[d] /\ tmp'[d] = tmp[d],
         UNCHANGED <<conf, spoiled>>,
         sync[h].alone /\ Progress(h) => Progress(h)'
  PROVE  HInv'
<1>1. sync'[h] = s /\ \A g \in Hubs : g # h => sync'[g] = sync[g]
  BY DEF HInv, HubTypes
<1>2. /\ \A g \in Hubs : Dir(g)' = Dir(g) /\ Dir(g) \in Dirs /\ (Syncing(g)' <=> Syncing(g))
      /\ \A g \in Hubs : OnlyOne(g)' <=> OnlyOne(g)
  <2>1. \A g \in Hubs : Dir(g)' = Dir(g) /\ Dir(g) \in Dirs /\ (Syncing(g)' <=> Syncing(g))
    BY <1>1, DirType DEF Dir, Syncing
  <2> QED BY <2>1 DEF OnlyOne
<1>3. SignedOK' /\ RelOK'
  BY <1>1, <1>2 DEF HInv, SignedOK, RelOK, Syncing
<1>4. AloneOK'
  <2> SUFFICES ASSUME NEW g \in Hubs, Syncing(g)', sync'[g].alone PROVE OnlyOne(g)' /\ Progress(g)'
    BY DEF AloneOK
  <2>1. sync[g].alone /\ Syncing(g) /\ OnlyOne(g) /\ Progress(g)
    BY <1>1, <1>2 DEF HInv, AloneOK
  <2>2. CASE g = h
    BY <1>2, <2>1, <2>2
  <2>3. CASE g # h
    <3>1. Dir(g) # Dir(h) /\ Dir(g) \in Dirs /\ sync'[g] = sync[g]
      BY <1>1, <1>2, <2>1, <2>3 DEF OnlyOne
    <3>2. files'[Dir(g)] = files[Dir(g)] /\ tmp'[Dir(g)] = tmp[Dir(g)]
      BY <3>1
    <3>3. Dir(g)' = Dir(g) /\ Content(g)' = Content(g)
      BY <1>2, <3>1 DEF Content
    <3> QED BY <1>2, <2>1, <3>1, <3>2, <3>3 DEF Progress
  <2> QED BY <2>2, <2>3
<1>5. SpoiledOK'
  BY <1>1, <1>2 DEF HInv, SpoiledOK
<1>6. FilesMatch'
  <2> SUFFICES ASSUME NEW d \in Dirs \ spoiled, \A g \in Hubs : Dir(g) = d => ~Syncing(g),
                      NEW p \in Platforms, manifest'[d].version \in Releases,
                      p \in Assets[manifest'[d].version]
               PROVE  files'[d][p] = manifest'[d].version
    BY <1>2 DEF FilesMatch
  <2>1. d # Dir(h) /\ files'[d] = files[d] /\ manifest'[d] = manifest[d]
    OBVIOUS
  <2> QED BY <2>1 DEF HInv, FilesMatch
<1> QED BY <1>3, <1>4, <1>5, <1>6 DEF HInv

LEMMA FetchInv == ASSUME Types, HInv, NEW h \in Hubs, Fetch(h) PROVE HInv'
<1> DEFINE s == [sync[h] EXCEPT !.todo = NextAsset(h),
                                !.at = IF NextAsset(h) = {} THEN "fetched" ELSE "fetch"]
           q == Min(sync[h].todo)
<1>1. /\ sync[h].at = "fetch" /\ Syncing(h) /\ sync' = [sync EXCEPT ![h] = s]
      /\ files' = [files EXCEPT ![Dir(h)][q] = sync[h].rel]
      /\ UNCHANGED <<conf, manifest, tmp, spoiled>>
      /\ Dir(h) \in Dirs /\ NextAsset(h) = sync[h].todo \ {q}
  BY DirType DEF Fetch, Syncing, NextAsset, HInv, HubTypes, SyncStates
<1> HIDE DEF q
<1>2. /\ s \in SyncStates /\ s.at \in {"fetch", "fetched"} /\ s.rel = sync[h].rel
      /\ s.signed = sync[h].signed /\ s.alone = sync[h].alone /\ s.into = sync[h].into
      /\ s.todo = sync[h].todo \ {q} /\ (s.at = "fetched" => s.todo = {})
  BY <1>1 DEF HInv, HubTypes, SyncStates
<1>3. sync'[h] = s /\ sync[h].into = "tmp" /\ sync[h].rel \in Releases
  BY <1>1 DEF HInv, HubTypes, RelOK
<1> HIDE DEF s
<1>4. /\ files' \in [Dirs -> [Platforms -> 0..MaxRelease]]
      /\ \A d \in Dirs \ {Dir(h)} : files'[d] = files[d]
      /\ \A p \in Platforms : files'[Dir(h)][p] = IF p = q THEN sync[h].rel ELSE files[Dir(h)][p]
  <2> DEFINE row == [files[Dir(h)] EXCEPT ![q] = sync[h].rel]
  <2>1. files' = [files EXCEPT ![Dir(h)] = row]
    BY <1>1
  <2>2. /\ files \in [Dirs -> [Platforms -> 0..MaxRelease]] /\ Dir(h) \in Dirs
        /\ files[Dir(h)] \in [Platforms -> 0..MaxRelease] /\ sync[h].rel \in 0..MaxRelease
    BY <1>1, <1>3, ChannelAssumption DEF HInv, HubTypes, Releases
  <2>3. /\ row \in [Platforms -> 0..MaxRelease]
        /\ \A p \in Platforms : row[p] = IF p = q THEN sync[h].rel ELSE files[Dir(h)][p]
    BY <2>2
  <2> HIDE DEF row
  <2> QED BY <2>1, <2>2, <2>3
<1>5. HubTypes'
  BY <1>1, <1>2, <1>4 DEF HInv, HubTypes
<1>6. ASSUME Progress(h) PROVE Progress(h)'
  <2>1. ASSUME NEW p \in Assets[s.rel] \ s.todo PROVE files'[Dir(h)][p] = s.rel
    <3>1. p \in Platforms
      BY <1>2, <1>3, <2>1, ChannelAssumption
    <3>2. CASE p = q
      BY <1>2, <1>4, <3>1, <3>2
    <3>3. CASE p # q
      <4>1. p \in Assets[sync[h].rel] \ sync[h].todo
        BY <1>2, <2>1, <3>3
      <4> QED BY <1>1, <1>2, <1>4, <1>6, <3>1, <3>3, <4>1 DEF Progress
    <3> QED BY <3>2, <3>3
  <2>2. Dir(h)' = Dir(h)
    BY <1>1 DEF Dir
  <2> QED BY <1>2, <1>3, <2>1, <2>2 DEF Progress
<1>7. s.into # "tmp" => s.at = "open"
  BY <1>2, <1>3
<1>8. \A d \in Dirs : /\ manifest'[d].signed => manifest'[d].version \in Signed
                      /\ tmp'[d].signed => tmp'[d].version \in Signed
  BY <1>1 DEF HInv, SignedOK
<1> QED BY <1>1, <1>2, <1>4, <1>5, <1>6, <1>7, <1>8, InsideInv

LEMMA OpenTmpInv == ASSUME Types, HInv, NEW h \in Hubs, OpenTmp(h) PROVE HInv'
<1> DEFINE s == [sync[h] EXCEPT !.at = "open"]
<1>1. /\ sync[h].at = "fetched" /\ Syncing(h) /\ sync' = [sync EXCEPT ![h] = s]
      /\ tmp' = [tmp EXCEPT ![Dir(h)] = Torn]
      /\ UNCHANGED <<conf, files, manifest, spoiled>>
      /\ Dir(h) \in Dirs
  BY DirType DEF OpenTmp, Syncing, HInv, HubTypes, SyncStates
<1>2. /\ s \in SyncStates /\ s.at = "open" /\ s.rel = sync[h].rel
      /\ s.signed = sync[h].signed /\ s.alone = sync[h].alone /\ s.into = sync[h].into
      /\ s.todo = sync[h].todo /\ sync'[h] = s
  BY <1>1 DEF HInv, HubTypes, SyncStates
<1> HIDE DEF s
<1>3. Torn \in Manifests /\ ~Torn.signed
  BY ChannelAssumption DEF Torn, Manifests, Cut
<1>4. HubTypes'
  BY <1>1, <1>2, <1>3 DEF HInv, HubTypes
<1>5. \A d \in Dirs : /\ manifest'[d].signed => manifest'[d].version \in Signed
                      /\ tmp'[d].signed => tmp'[d].version \in Signed
                      /\ d # Dir(h) => tmp'[d] = tmp[d]
  BY <1>1, <1>3 DEF HInv, HubTypes, SignedOK
<1>6. Progress(h) => Progress(h)'
  BY <1>1, <1>2 DEF Progress, Dir
<1> QED BY <1>1, <1>2, <1>4, <1>5, <1>6, InsideInv

LEMMA WriteTmpInv == ASSUME Types, HInv, NEW h \in Hubs, WriteTmp(h) PROVE HInv'
<1> DEFINE s == [sync[h] EXCEPT !.at = "written", !.into = "tmp"]
<1>1. /\ sync[h].at = "open" /\ Syncing(h) /\ sync' = [sync EXCEPT ![h] = s]
      /\ tmp' = (IF sync[h].into = "tmp" THEN [tmp EXCEPT ![Dir(h)] = Content(h)] ELSE tmp)
      /\ manifest' = (IF sync[h].into = "manifest"
                        THEN [manifest EXCEPT ![Dir(h)] = Content(h)] ELSE manifest)
      /\ UNCHANGED <<conf, files, spoiled>>
      /\ Dir(h) \in Dirs
  BY DirType DEF WriteTmp, Syncing, HInv, HubTypes, SyncStates
<1>2. /\ s \in SyncStates /\ s.at = "written" /\ s.rel = sync[h].rel
      /\ s.signed = sync[h].signed /\ s.alone = sync[h].alone /\ s.into = "tmp"
      /\ s.todo = sync[h].todo /\ sync'[h] = s
  BY <1>1 DEF HInv, HubTypes, SyncStates
<1> HIDE DEF s
<1>3. Content(h) \in Manifests /\ (Content(h).signed => Content(h).version \in Signed)
  BY ChannelAssumption DEF Content, Manifests, Cut, HInv, HubTypes, SyncStates, SignedOK
<1>4. HubTypes'
  <2>1. tmp' \in [Dirs -> Manifests] /\ manifest' \in [Dirs -> Manifests]
    BY <1>1, <1>3 DEF HInv, HubTypes
  <2> QED BY <1>1, <1>2, <2>1 DEF HInv, HubTypes
<1>5. \A d \in Dirs : /\ manifest'[d].signed => manifest'[d].version \in Signed
                      /\ tmp'[d].signed => tmp'[d].version \in Signed
                      /\ d # Dir(h) => tmp'[d] = tmp[d] /\ manifest'[d] = manifest[d]
  BY <1>1, <1>3 DEF HInv, HubTypes, SignedOK
<1>6. ASSUME Progress(h) PROVE Progress(h)'
  <2>1. tmp'[Dir(h)] = Content(h)
    BY <1>1, <1>6 DEF Progress, HInv, HubTypes
  <2>2. Content(h)' = Content(h) /\ Dir(h)' = Dir(h)
    BY <1>1, <1>2 DEF Content, Dir
  <2> QED BY <1>1, <1>2, <1>6, <2>1, <2>2 DEF Progress
<1> QED BY <1>1, <1>2, <1>4, <1>5, <1>6, InsideInv

\* Hub h ends its sync: it may take the temporary manifest of its directory away
\* from the others, who then have a file open that is elsewhere.
LEMMA EndsInv ==
  ASSUME Types, HInv, NEW h \in Hubs, Syncing(h), HubTypes', sync'[h] = Quiet,
         \A g \in Hubs \ {h} :
           /\ Dir(g) # Dir(h) => sync'[g] = sync[g]
           /\ sync'[g].at = sync[g].at /\ sync'[g].rel = sync[g].rel
           /\ sync'[g].signed = sync[g].signed /\ sync'[g].alone = sync[g].alone
           /\ sync'[g].into # sync[g].into => sync[g].at = "open",
         \A d \in Dirs : /\ manifest'[d].signed => manifest'[d].version \in Signed
                         /\ tmp'[d].signed => tmp'[d].version \in Signed,
         \A d \in Dirs \ {Dir(h)} : manifest'[d] = manifest[d] /\ tmp'[d] = tmp[d],
         UNCHANGED <<conf, files>>,
         \/ spoiled' = spoiled \cup {Dir(h)}
         \/ spoiled' = spoiled /\ ~sync[h].alone
         \/ /\ spoiled' = spoiled \ {Dir(h)} /\ sync[h].alone
            /\ sync[h].at = "written" /\ manifest'[Dir(h)] = Content(h)
  PROVE  HInv'
<1>1. /\ \A g \in Hubs : Dir(g)' = Dir(g) /\ Dir(g) \in Dirs
      /\ \A g \in Hubs \ {h} : Syncing(g)' <=> Syncing(g)
      /\ ~Syncing(h)' /\ ~Quiet.signed /\ Quiet.into = "tmp" /\ Quiet.at = "idle"
  BY DirType DEF Dir, Syncing, Quiet
<1>2. SignedOK'
  BY <1>1 DEF HInv, SignedOK
<1>3. RelOK'
  BY <1>1 DEF HInv, RelOK
<1>4. AloneOK'
  <2> SUFFICES ASSUME NEW g \in Hubs, Syncing(g)', sync'[g].alone PROVE OnlyOne(g)' /\ Progress(g)'
    BY DEF AloneOK
  <2>1. g # h /\ Syncing(g) /\ sync[g].alone
    BY <1>1
  <2>2. OnlyOne(g) /\ Progress(g) /\ Dir(g) # Dir(h)
    BY <2>1 DEF HInv, AloneOK, OnlyOne
  <2>3. OnlyOne(g)'
    BY <1>1, <2>2 DEF OnlyOne
  <2>4. sync'[g] = sync[g] /\ tmp'[Dir(g)] = tmp[Dir(g)] /\ Dir(g)' = Dir(g)
    BY <1>1, <2>1, <2>2
  <2> QED BY <2>2, <2>3, <2>4 DEF Progress, Content
<1>5. SpoiledOK'
  <2> SUFFICES ASSUME NEW g \in Hubs, Syncing(g)', ~sync'[g].alone PROVE Dir(g) \in spoiled'
    BY <1>1 DEF SpoiledOK
  <2>1. g # h /\ Syncing(g) /\ ~sync[g].alone /\ Dir(g) \in spoiled
    BY <1>1 DEF HInv, SpoiledOK
  <2>2. CASE sync[h].alone
    BY <2>1, <2>2 DEF HInv, AloneOK, OnlyOne
  <2>3. CASE ~sync[h].alone
    BY <2>1, <2>3
  <2> QED BY <2>2, <2>3
<1>6. FilesMatch'
  <2> SUFFICES ASSUME NEW d \in Dirs \ spoiled', \A g \in Hubs : Dir(g) = d => ~Syncing(g)',
                      NEW p \in Platforms, manifest'[d].version \in Releases,
                      p \in Assets[manifest'[d].version]
               PROVE  files[d][p] = manifest'[d].version
    BY <1>1 DEF FilesMatch
  <2>1. CASE d = Dir(h)
    <3>1. sync[h].alone /\ sync[h].at = "written" /\ manifest'[d] = Content(h)
      BY <2>1 DEF HInv, SpoiledOK
    <3>2. Progress(h) /\ manifest'[d].version = sync[h].rel
      BY <3>1 DEF HInv, AloneOK, Content
    <3> QED BY <2>1, <3>1, <3>2 DEF Progress
  <2>2. CASE d # Dir(h)
    <3>1. d \notin spoiled /\ manifest'[d] = manifest[d] /\ \A g \in Hubs : Dir(g) = d => ~Syncing(g)
      BY <1>1, <2>2
    <3> QED BY <3>1 DEF HInv, FilesMatch
  <2> QED BY <2>1, <2>2
<1> QED BY <1>2, <1>3, <1>4, <1>5, <1>6 DEF HInv

LEMMA RenameInv == ASSUME Types, HInv, NEW h \in Hubs, Rename(h) PROVE HInv'
<1>1. /\ sync[h].at = "written" /\ Syncing(h) /\ Dir(h) \in Dirs /\ conf' = conf
      /\ manifest' = [manifest EXCEPT ![Dir(h)] = tmp[Dir(h)]]
      /\ tmp' = [tmp EXCEPT ![Dir(h)] = NoManifest]
      /\ files' = files
      /\ spoiled' = IF sync[h].alone THEN spoiled \ {Dir(h)} ELSE spoiled
      /\ sync' = [g \in Hubs |->
           IF g = h THEN Quiet
           ELSE IF Dir(g) = Dir(h) /\ sync[g].at = "open"
             THEN [sync[g] EXCEPT !.into = Moved(sync[g].into)]
           ELSE sync[g]]
  BY DirType DEF Rename, Syncing
<1>2. NoManifest \in Manifests /\ ~NoManifest.signed /\ Quiet \in SyncStates
  BY ChannelAssumption DEF NoManifest, Manifests, Cut, Missing, Quiet, SyncStates
<1>3. ASSUME NEW g \in Hubs \ {h}
      PROVE  /\ Dir(g) # Dir(h) => sync'[g] = sync[g]
             /\ sync'[g].at = sync[g].at /\ sync'[g].rel = sync[g].rel
             /\ sync'[g].signed = sync[g].signed /\ sync'[g].alone = sync[g].alone
             /\ sync'[g].into # sync[g].into => sync[g].at = "open"
             /\ sync'[g] \in SyncStates
  <2>1. sync[g] \in SyncStates /\ Moved(sync[g].into) \in {"manifest", "gone"}
    BY DEF HInv, HubTypes, Moved
  <2>2. CASE Dir(g) = Dir(h) /\ sync[g].at = "open"
    <3>1. sync'[g] = [sync[g] EXCEPT !.into = Moved(sync[g].into)]
      BY <1>1, <2>2
    <3> QED BY <2>1, <2>2, <3>1 DEF SyncStates
  <2>3. CASE ~(Dir(g) = Dir(h) /\ sync[g].at = "open")
    <3>1. sync'[g] = sync[g]
      BY <1>1, <2>3
    <3> QED BY <2>1, <3>1
  <2> QED BY <2>2, <2>3
<1>4. HubTypes'
  <2>1. sync' \in [Hubs -> SyncStates]
    <3>1. sync' = [g \in Hubs |-> sync'[g]] /\ sync'[h] = Quiet
      BY <1>1
    <3>2. \A g \in Hubs : sync'[g] \in SyncStates
      BY <1>2, <1>3, <3>1
    <3> QED BY <3>1, <3>2
  <2> QED BY <1>1, <1>2, <2>1 DEF HInv, HubTypes
<1>5. \A d \in Dirs : /\ manifest'[d].signed => manifest'[d].version \in Signed
                      /\ tmp'[d].signed => tmp'[d].version \in Signed
                      /\ d # Dir(h) => manifest'[d] = manifest[d] /\ tmp'[d] = tmp[d]
  BY <1>1, <1>2 DEF HInv, HubTypes, SignedOK
<1>6. sync[h].alone => manifest'[Dir(h)] = Content(h)
  BY <1>1 DEF HInv, HubTypes, AloneOK, Progress
<1>7. sync'[h] = Quiet
  BY <1>1
<1> QED BY <1>1, <1>3, <1>4, <1>5, <1>6, <1>7, EndsInv

\* It finds the file gone, a request or a write fails, or it dies.
LEMMA StopsInv == ASSUME Types, HInv, NEW h \in Hubs, RenameFails(h) \/ SyncFails(h) PROVE HInv'
<1>1. /\ Syncing(h) /\ Dir(h) \in Dirs /\ sync' = [sync EXCEPT ![h] = Quiet]
      /\ UNCHANGED <<conf, files, manifest, tmp>>
      /\ spoiled' \in {spoiled, spoiled \cup {Dir(h)}}
  BY DirType DEF RenameFails, SyncFails, Syncing
<1>2. Quiet \in SyncStates
  BY ChannelAssumption DEF Quiet, SyncStates
<1>3. HubTypes' /\ sync'[h] = Quiet /\ \A g \in Hubs \ {h} : sync'[g] = sync[g]
  BY <1>1, <1>2 DEF HInv, HubTypes
<1>4. \/ spoiled' = spoiled \cup {Dir(h)}
      \/ spoiled' = spoiled /\ ~sync[h].alone
  <2>1. CASE SyncFails(h)
    BY <2>1 DEF SyncFails
  <2>2. CASE RenameFails(h)
    <3>1. spoiled' = spoiled /\ sync[h].at = "written" /\ tmp[Dir(h)] = NoManifest
      BY <2>2 DEF RenameFails
    <3>2. ASSUME sync[h].alone PROVE FALSE
      <4>1. Content(h) = NoManifest /\ sync[h].rel \in Releases
        BY <1>1, <3>1, <3>2 DEF HInv, AloneOK, Progress, RelOK
      <4> QED BY <4>1, ChannelAssumption DEF Content, NoManifest, Missing, Releases
    <3> QED BY <3>1, <3>2
  <2> QED BY <2>1, <2>2
<1>5. \A d \in Dirs : /\ manifest'[d].signed => manifest'[d].version \in Signed
                      /\ tmp'[d].signed => tmp'[d].version \in Signed
  BY <1>1 DEF HInv, SignedOK
<1> QED BY <1>1, <1>3, <1>4, <1>5, EndsInv

\* Nothing a hub keeps is touched by the other steps.
LEMMA HubsQuiet == ASSUME HInv, UNCHANGED <<conf, hubVars>> PROVE HInv'
<1>1. UNCHANGED <<conf, files, manifest, tmp, sync, spoiled>>
  BY DEF hubVars
<1>2. \A h \in Hubs : Dir(h)' = Dir(h) /\ Syncing(h)' = Syncing(h)
  BY <1>1 DEF Dir, Syncing
<1>3. \A h \in Hubs : OnlyOne(h)' = OnlyOne(h) /\ Progress(h)' = Progress(h)
  BY <1>1, <1>2 DEF OnlyOne, Progress, Content
<1>4. HubTypes' /\ SignedOK' /\ RelOK'
  BY <1>1, <1>2 DEF HInv, HubTypes, SignedOK, RelOK
<1>5. AloneOK' /\ SpoiledOK'
  BY <1>1, <1>2, <1>3 DEF HInv, AloneOK, SpoiledOK
<1>6. FilesMatch'
  BY <1>1, <1>2 DEF HInv, FilesMatch
<1> QED BY <1>4, <1>5, <1>6 DEF HInv

-----------------------------------------------------------------------------
(* The agents' steps.                                                      *)

\* A step of agent a that keeps what runs.
LEMMA AgentKeeps ==
  ASSUME Types, AInv, NEW a \in Agents, NEW u \in Updates, NEW c \in 0..MaxRelease,
         update' = [update EXCEPT ![a] = u], exe' = [exe EXCEPT ![a] = c],
         UNCHANGED <<running, conf>>,
         c \in {Missing, running[a]} \/ Upward(c, a),
         u.at = "checked" => /\ u.version \in Releases /\ u.version > running[a]
                             /\ u.signed => u.version \in Signed,
         u.at \in {"staged", "moved"} => Upward(u.version, a)
  PROVE  AInv'
<1>1. AgentTypes'
  BY DEF AInv, AgentTypes
<1>2. update'[a] = u /\ exe'[a] = c
  BY DEF AInv, AgentTypes
<1>3. \A b \in Agents \ {a} : update'[b] = update[b] /\ exe'[b] = exe[b]
  BY DEF AInv, AgentTypes
<1>4. ASSUME NEW b \in Agents PROVE AgentOK(b)'
  <2>1. CASE b = a
    BY <1>2, <2>1 DEF AgentOK, Upward
  <2>2. CASE b # a
    <3>1. update'[b] = update[b] /\ exe'[b] = exe[b] /\ AgentOK(b)
      BY <1>3, <2>2 DEF AInv
    <3> QED BY <3>1 DEF AgentOK, Upward
  <2> QED BY <2>1, <2>2
<1> QED BY <1>1, <1>4 DEF AInv

LEMMA NoUpdateType == NoUpdate \in Updates /\ NoUpdate.at = "run"
BY ChannelAssumption DEF NoUpdate, Updates, Cut

LEMMA CheckInv ==
  ASSUME Types, HInv, AInv, NEW a \in Agents, NEW h \in Hubs, Check(a, h)
  PROVE  AInv'
<1> DEFINE m == manifest[Dir(h)]
           u == [at |-> "checked", version |-> m.version, signed |-> m.signed]
<1>1. /\ m \in Manifests /\ (m.signed => m.version \in Signed)
      /\ m.version \in Releases /\ m.version > running[a]
      /\ update' = [update EXCEPT ![a] = u] /\ UNCHANGED <<running, exe, conf>>
  BY DirType DEF Check, Newer, HInv, HubTypes, SignedOK
<1>2. u \in Updates
  BY <1>1 DEF Manifests, Updates
<1>3. exe[a] \in 0..MaxRelease /\ exe' = [exe EXCEPT ![a] = exe[a]]
      /\ (exe[a] \in {Missing, running[a]} \/ Upward(exe[a], a))
  BY <1>1 DEF AInv, AgentTypes, AgentOK
<1> QED BY <1>1, <1>2, <1>3, AgentKeeps

LEMMA DownloadInv ==
  ASSUME Types, HInv, AInv, NEW a \in Agents, NEW h \in Hubs, Download(a, h)
  PROVE  AInv'
<1>1. /\ update[a].at = "checked" /\ update[a] \in Updates /\ UNCHANGED <<running, exe, conf>>
      /\ update[a].version \in Releases /\ update[a].version > running[a]
      /\ update[a].signed => update[a].version \in Signed
  BY DEF Download, AInv, AgentTypes, AgentOK
<1>2. exe[a] \in 0..MaxRelease /\ exe' = [exe EXCEPT ![a] = exe[a]]
      /\ (exe[a] \in {Missing, running[a]} \/ Upward(exe[a], a))
  BY <1>1 DEF AInv, AgentTypes, AgentOK
<1>3. ASSUME update' = [update EXCEPT ![a] = NoUpdate] PROVE AInv'
  BY <1>1, <1>2, <1>3, NoUpdateType, AgentKeeps
<1>4. ASSUME NEW c, Verifies(a, c),
             update' = [update EXCEPT ![a] = [update[a] EXCEPT !.at = "staged", !.version = c]]
      PROVE  AInv'
  <2> DEFINE u == [update[a] EXCEPT !.at = "staged", !.version = c]
  <2>1. c = update[a].version /\ (a \in conf.keyed => update[a].signed)
    BY <1>4 DEF Verifies
  <2>2. u \in Updates /\ u.at = "staged" /\ u.version = c
    BY <1>1, <2>1 DEF Updates
  <2>3. Upward(c, a)
    BY <1>1, <2>1 DEF Upward
  <2> HIDE DEF u
  <2>4. update' = [update EXCEPT ![a] = u]
    BY <1>4 DEF u
  <2> QED BY <1>1, <1>2, <2>2, <2>3, <2>4, AgentKeeps
<1>5. \E c : \/ update' = [update EXCEPT ![a] = NoUpdate]
             \/ /\ Verifies(a, c)
                /\ update' = [update EXCEPT ![a] = [update[a] EXCEPT !.at = "staged", !.version = c]]
  BY DEF Download
<1> QED BY <1>3, <1>4, <1>5

LEMMA InstallInv ==
  ASSUME Types, AInv, NEW a \in Agents, MoveAway(a) \/ MoveIn(a) \/ MoveInFails(a)
  PROVE  AInv'
<1>1. /\ update[a] \in Updates /\ exe[a] \in 0..MaxRelease /\ running[a] \in 0..MaxRelease
      /\ UNCHANGED <<running, conf>> /\ 0 \in 0..MaxRelease
      /\ update \in [Agents -> Updates] /\ exe \in [Agents -> 0..MaxRelease]
      /\ update[a].at \in {"staged", "moved"} /\ Upward(update[a].version, a)
  BY ChannelAssumption DEF MoveAway, MoveIn, MoveInFails, AInv, AgentTypes, AgentOK, Releases
<1>2. CASE MoveAway(a)
  <2>1. exe' = [exe EXCEPT ![a] = Missing] /\ Missing \in 0..MaxRelease
    BY <1>1, <1>2 DEF MoveAway, Missing
  <2>2. CASE exe[a] = Missing
    <3>1. update' = [update EXCEPT ![a] = NoUpdate]
      BY <1>2, <2>2 DEF MoveAway
    <3> QED BY <1>1, <2>1, <3>1, NoUpdateType, AgentKeeps
  <2>3. CASE exe[a] # Missing
    <3> DEFINE u == [update[a] EXCEPT !.at = "moved"]
    <3>1. update' = [update EXCEPT ![a] = u]
      BY <1>1, <1>2, <2>3 DEF MoveAway
    <3>2. u \in Updates /\ u.at = "moved" /\ u.version = update[a].version
      BY <1>1 DEF Updates
    <3> HIDE DEF u
    <3>3. Upward(u.version, a)
      BY <1>1, <3>2
    <3> QED BY <1>1, <2>1, <3>1, <3>2, <3>3, AgentKeeps
  <2> QED BY <2>2, <2>3
<1>3. CASE MoveIn(a)
  <2> DEFINE u == [update[a] EXCEPT !.at = "installed"]
  <2>1. exe' = [exe EXCEPT ![a] = update[a].version] /\ update' = [update EXCEPT ![a] = u]
    BY <1>1, <1>3 DEF MoveIn
  <2>2. u \in Updates /\ u.at = "installed"
    BY <1>1 DEF Updates
  <2>3. update[a].version \in 0..MaxRelease
    BY <1>1, ChannelAssumption DEF Upward, Releases
  <2> HIDE DEF u
  <2> QED BY <1>1, <2>1, <2>2, <2>3, AgentKeeps
<1>4. CASE MoveInFails(a)
  <2>1. PICK c \in Back(a) : exe' = [exe EXCEPT ![a] = c]
    BY <1>4 DEF MoveInFails
  <2>2. c \in {Missing, running[a]} /\ c \in 0..MaxRelease
    BY <1>1 DEF Back, Missing
  <2>3. update' = [update EXCEPT ![a] = NoUpdate]
    BY <1>4 DEF MoveInFails
  <2> QED BY <1>1, <2>1, <2>2, <2>3, NoUpdateType, AgentKeeps
<1> QED BY <1>2, <1>3, <1>4

LEMMA StartedInv ==
  ASSUME Types, AInv, NEW a \in Agents, Started(a), UNCHANGED <<exe, conf>>
  PROVE  /\ AInv'
         /\ \A b \in Agents : running'[b] # running[b] => Upward(running'[b], b)
<1>1. /\ exe[a] \in 0..MaxRelease /\ running[a] \in Releases
      /\ exe[a] \in {Missing, running[a]} \/ Upward(exe[a], a)
      /\ exe[a] # Missing => exe[a] \in Releases
  BY DEF AInv, AgentTypes, AgentOK, Releases, Missing
<1>2. /\ running' = [running EXCEPT ![a] = IF exe[a] = Missing THEN running[a] ELSE exe[a]]
      /\ update' = [update EXCEPT ![a] = IF exe[a] = Missing THEN [NoUpdate EXCEPT !.at = "dead"]
                                         ELSE NoUpdate]
  BY DEF Started, AInv, AgentTypes
<1>3. /\ NoUpdate \in Updates /\ NoUpdate.at = "run"
      /\ [NoUpdate EXCEPT !.at = "dead"] \in Updates
      /\ [NoUpdate EXCEPT !.at = "dead"].at = "dead"
  BY NoUpdateType DEF Updates
<1>4. AgentTypes'
  BY <1>1, <1>2, <1>3 DEF AInv, AgentTypes
<1>5. /\ running'[a] = (IF exe[a] = Missing THEN running[a] ELSE exe[a])
      /\ update'[a].at \in {"run", "dead"}
      /\ \A b \in Agents \ {a} : running'[b] = running[b] /\ update'[b] = update[b]
  BY <1>2, <1>3 DEF AInv, AgentTypes
<1>6. ASSUME NEW b \in Agents PROVE AgentOK(b)'
  <2>1. CASE b = a
    BY <1>1, <1>5, <2>1 DEF AgentOK
  <2>2. CASE b # a
    BY <1>5, <2>2 DEF AInv, AgentOK, Upward
  <2> QED BY <2>1, <2>2
<1>7. ASSUME NEW b \in Agents, running'[b] # running[b] PROVE Upward(running'[b], b)
  <2>1. b = a /\ exe[a] # Missing /\ running'[a] = exe[a] /\ exe[a] # running[a]
    BY <1>5, <1>7
  <2> QED BY <1>1, <2>1 DEF Upward
<1> QED BY <1>4, <1>6, <1>7 DEF AInv

LEMMA AgentsQuiet == ASSUME AInv, UNCHANGED <<conf, agentVars>> PROVE AInv'
<1>1. UNCHANGED <<running, exe, update, conf>>
  BY DEF agentVars
<1>2. ASSUME NEW a \in Agents PROVE AgentOK(a)'
  BY <1>1 DEF AInv, AgentOK, Upward
<1> QED BY <1>1, <1>2 DEF AInv, AgentTypes

-----------------------------------------------------------------------------
(* The invariant is inductive, and what runs only moves up.                *)

LEMMA FaultsBounded ==
  ASSUME Types, Fault \/ faults' = faults
  PROVE  faults' \in 0..MaxFaults
BY ChannelAssumption DEF Types, Fault

LEMMA TypesStay == ASSUME Types, [Next]_vars PROVE Types'
<1>1. conf' = conf /\ latest' \in 0..MaxRelease /\ faults' \in 0..MaxFaults
  <2>1. CASE Release
    BY <2>1, ChannelAssumption DEF Release, Types
  <2>2. CASE UNCHANGED vars
    BY <2>2 DEF vars, Types
  <2>3. ASSUME NEW h \in Hubs, Sync(h) \/ SyncFails(h)
        PROVE  conf' = conf /\ latest' = latest /\ faults' \in 0..MaxFaults
    <3>1. Fault \/ faults' = faults
      BY <2>3
         DEF Sync, Ask, NothingToDo, Begin, Fetch, OpenTmp, WriteTmp, Rename, RenameFails, SyncFails
    <3>2. faults' \in 0..MaxFaults
      BY <3>1, FaultsBounded
    <3> QED BY <2>3, <3>2
        DEF Sync, Ask, NothingToDo, Begin, Fetch, OpenTmp, WriteTmp, Rename, RenameFails, SyncFails
  <2>4. ASSUME NEW a \in Agents, Apply(a) \/ MoveInFails(a) \/ Crash(a)
        PROVE  conf' = conf /\ latest' = latest /\ faults' \in 0..MaxFaults
    <3>1. Fault \/ faults' = faults
      BY <2>4 DEF Apply, Check, Download, MoveAway, MoveIn, Exit, MoveInFails, Crash
    <3>2. faults' \in 0..MaxFaults
      BY <3>1, FaultsBounded
    <3> QED BY <2>4, <3>2 DEF Apply, Check, Download, MoveAway, MoveIn, Exit, MoveInFails, Crash
  <2> QED BY <2>1, <2>2, <2>3, <2>4 DEF Next, Types
<1> QED BY <1>1 DEF Types

LEMMA NextInv ==
  ASSUME IInv, [Next]_vars
  PROVE  /\ IInv'
         /\ \A a \in Agents : running'[a] # running[a] => Upward(running'[a], a)
<1>1. Types'
  BY TypesStay DEF IInv
<1>2. CASE Release \/ UNCHANGED vars
  <2>1. UNCHANGED <<conf, hubVars, agentVars>>
    BY <1>2 DEF Release, vars
  <2>2. HInv' /\ AInv'
    BY <2>1, HubsQuiet, AgentsQuiet DEF IInv
  <2> QED BY <1>1, <2>1, <2>2 DEF IInv, agentVars
<1>3. ASSUME NEW h \in Hubs, Sync(h) \/ SyncFails(h) PROVE HInv' /\ UNCHANGED <<conf, agentVars>>
  <2>1. UNCHANGED <<conf, agentVars>>
    BY <1>3
       DEF Sync, Ask, NothingToDo, Begin, Fetch, OpenTmp, WriteTmp, Rename, RenameFails, SyncFails
  <2>2. HInv'
    BY <1>3, AskInv, NothingToDoInv, BeginInv, FetchInv, OpenTmpInv, WriteTmpInv, RenameInv, StopsInv
       DEF Sync, IInv
  <2> QED BY <2>1, <2>2
<1>4. CASE \E h \in Hubs : Sync(h) \/ SyncFails(h)
  <2>1. HInv' /\ UNCHANGED <<conf, agentVars>>
    BY <1>3, <1>4
  <2>2. AInv'
    BY <2>1, AgentsQuiet DEF IInv
  <2> QED BY <1>1, <2>1, <2>2 DEF IInv, agentVars
<1>5. ASSUME NEW a \in Agents, Apply(a) \/ MoveInFails(a) \/ Crash(a)
      PROVE  /\ UNCHANGED <<conf, hubVars>> /\ AInv'
             /\ \A b \in Agents : running'[b] # running[b] => Upward(running'[b], b)
  <2>1. UNCHANGED <<conf, hubVars>>
    BY <1>5 DEF Apply, Check, Download, MoveAway, MoveIn, Exit, MoveInFails, Crash
  <2>2. CASE \E h \in Hubs : Check(a, h) \/ Download(a, h)
    <3>1. AInv'
      BY <2>2, CheckInv, DownloadInv DEF IInv
    <3>2. running' = running
      BY <2>2 DEF Check, Download
    <3> QED BY <2>1, <3>1, <3>2
  <2>3. CASE MoveAway(a) \/ MoveIn(a) \/ MoveInFails(a)
    <3>1. AInv'
      BY <2>3, InstallInv DEF IInv
    <3>2. running' = running
      BY <2>3 DEF MoveAway, MoveIn, MoveInFails
    <3> QED BY <2>1, <3>1, <3>2
  <2>4. CASE Exit(a) \/ Crash(a)
    <3>1. Started(a) /\ UNCHANGED <<exe, conf>>
      BY <2>4 DEF Exit, Crash
    <3> QED BY <2>1, <3>1, StartedInv DEF IInv
  <2> QED BY <1>5, <2>2, <2>3, <2>4 DEF Apply
<1>6. CASE \E a \in Agents : Apply(a) \/ MoveInFails(a) \/ Crash(a)
  <2>1. /\ UNCHANGED <<conf, hubVars>> /\ AInv'
        /\ \A b \in Agents : running'[b] # running[b] => Upward(running'[b], b)
    BY <1>5, <1>6
  <2>2. HInv'
    BY <2>1, HubsQuiet DEF IInv
  <2> QED BY <1>1, <2>1, <2>2 DEF IInv
<1> QED BY <1>2, <1>4, <1>6 DEF Next

LEMMA Invariance == Spec => []IInv
<1>1. IInv /\ [Next]_vars => IInv'
  BY NextInv
<1> QED BY <1>1, InitInv, PTL DEF Spec

-----------------------------------------------------------------------------
(* The theorems.                                                           *)

\* The state of hubs, directories and agents is well typed.
THEOREM TypeCorrect == Spec => []TypeOK
<1>1. IInv => TypeOK
  BY DEF IInv, Types, HInv, HubTypes, AInv, AgentTypes, TypeOK, Manifests, SyncStates, Updates
<1> QED BY <1>1, Invariance, PTL

\* A directory in which no sync was cut short or met another one has the binaries of
\* its manifest, for any number of hubs that share it at different times
\* (githubsync.go:146-183).
THEOREM MirrorsConsistent == Spec => []FilesMatch
<1>1. IInv => FilesMatch
  BY DEF IInv, HInv
<1> QED BY <1>1, Invariance, PTL

\* No interleaving of hubs, withdrawn releases, mixed-up directories, torn manifests,
\* cut downloads and crashes makes an agent run anything but a newer build that it
\* has verified (client.go:76-84, update.go:193-223).
THEOREM NeverDowngraded == Spec => OnlyUpward
<1>1. IInv /\ [Next]_vars =>
        [\A a \in Agents : running'[a] # running[a] =>
           /\ running'[a] \in Releases /\ running'[a] > running[a]
           /\ a \in conf.keyed => running'[a] \in Signed]_vars
  BY NextInv DEF Upward
<1> QED BY <1>1, Invariance, PTL DEF Spec, OnlyUpward

=============================================================================
