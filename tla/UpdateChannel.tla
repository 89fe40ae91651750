---------------------------- MODULE UpdateChannel ----------------------------
(***************************************************************************)
(* The update channel of the agents (internal/update, server/updates.go).  *)
(* Every hub process mirrors the latest GitHub release into the directory  *)
(* of its channel: first the agent binaries, one by one, then the          *)
(* manifest.  Agents ask a hub for the manifest, fetch the binary in a     *)
(* second request (the load balancer may send it to another hub), verify   *)
(* it, put it in the place of their own and restart.                       *)
(*                                                                         *)
(* A build is named by the release it belongs to; its SHA-256 is taken to  *)
(* tell builds apart.  GitHub and the supervisor that restarts agents are  *)
(* external.                                                               *)
(***************************************************************************)
EXTENDS Naturals, FiniteSetsExt

CONSTANTS
  Hubs,        \* hub processes, each with its syncer
  Dirs,        \* directories updates/<channel>
  Platforms,   \* ghTargets, in their order
  Agents,
  MaxRelease,  \* bound: releases 1..MaxRelease, in the order of CompareVersions
  Assets,      \* the platforms each release has a binary for
  Signed,      \* releases that carry a signed manifest.json
  MaxFaults    \* bound: failed requests and writes, crashes

Releases == 1..MaxRelease

ASSUME ChannelAssumption ==
  /\ Platforms \subseteq Nat /\ IsFiniteSet(Platforms)
  /\ MaxRelease \in Nat \ {0} /\ MaxFaults \in Nat
  /\ Assets \in [Releases -> SUBSET Platforms]
  /\ Signed \subseteq Releases

VARIABLES
  latest,    \* GitHub: releases/latest (0: none)
  conf,      \* the deployment: directory of each hub, platform and -update-key of each agent
  files,     \* contents of the binaries in each directory
  manifest,  \* manifest.json of each directory
  tmp,       \* .manifest.json.tmp of each directory
  sync,      \* SyncOnce, per hub
  running,   \* the build each agent runs
  exe,       \* the contents of its binary on disk
  update,    \* ApplyTo, per agent
  faults,
  spoiled    \* history: directories where a sync was cut short or met another one

hubVars == <<files, manifest, tmp, sync, spoiled>>
agentVars == <<running, exe, update>>
vars == <<latest, conf, hubVars, agentVars, faults>>

\* File contents that are no build: no such file, a part of one.
Missing == 0
Cut == MaxRelease + 1

\* manifest.json: version 0 is no file; Cut, one that ParseManifest refuses.
NoManifest == [version |-> Missing, signed |-> FALSE]
Torn == [version |-> Cut, signed |-> FALSE]

Quiet == [at |-> "idle", rel |-> 0, signed |-> FALSE, todo |-> {}, alone |-> FALSE, into |-> "tmp"]
NoUpdate == [at |-> "run", version |-> 0, signed |-> FALSE]

Init ==
  /\ latest = 0
  /\ conf \in [dir : [Hubs -> Dirs], platform : [Agents -> Platforms], keyed : SUBSET Agents]
  /\ files = [d \in Dirs |-> [p \in Platforms |-> Missing]]
  /\ manifest = [d \in Dirs |-> NoManifest]
  /\ tmp = [d \in Dirs |-> NoManifest]
  /\ sync = [h \in Hubs |-> Quiet]
  /\ running = [a \in Agents |-> 1] /\ exe = running
  /\ update = [a \in Agents |-> NoUpdate]
  /\ faults = 0 /\ spoiled = {}

Fault == faults < MaxFaults /\ faults' = faults + 1

-----------------------------------------------------------------------------
(* GitHub.                                                                 *)

\* A release is published, or the latest one is taken back to a draft.
Release ==
  /\ \/ latest < MaxRelease /\ latest' = latest + 1
     \/ latest > 1 /\ latest' = latest - 1
  /\ UNCHANGED <<conf, hubVars, agentVars, faults>>

-----------------------------------------------------------------------------
(* SyncOnce.                                                               *)

Dir(h) == conf.dir[h]
Syncing(h) == sync[h].at \notin {"idle", "asked"}
Others(h) == {g \in Hubs \ {h} : Dir(g) = Dir(h) /\ Syncing(g)}

\* The answer of the API.
Ask(h) ==
  /\ sync[h].at = "idle" /\ latest # 0
  /\ sync' = [sync EXCEPT ![h].at = "asked", ![h].rel = latest]
  /\ UNCHANGED <<latest, conf, files, manifest, tmp, spoiled, agentVars, faults>>

MutIsCurrent(h) == manifest[Dir(h)] # NoManifest
IsCurrent(h) == manifest[Dir(h)].version = sync[h].rel

\* The manifest of the directory names this release already, or the release has
\* no binary for any platform.
NothingToDo(h) ==
  /\ sync[h].at = "asked"
  /\ IsCurrent(h) \/ Assets[sync[h].rel] = {}
  /\ sync' = [sync EXCEPT ![h] = Quiet]
  /\ UNCHANGED <<latest, conf, files, manifest, tmp, spoiled, agentVars, faults>>

\* Otherwise its signed manifest is fetched first; without it, or when it cannot
\* be fetched, the hub will write one that has no signatures.
Begin(h) ==
  /\ sync[h].at = "asked"
  /\ ~IsCurrent(h) /\ Assets[sync[h].rel] # {}
  /\ \E s \in BOOLEAN :
       /\ IF s = (sync[h].rel \in Signed) THEN UNCHANGED faults ELSE ~s /\ Fault
       /\ sync' = [g \in Hubs |->
            IF g = h THEN [sync[h] EXCEPT !.at = "fetch", !.signed = s,
                             !.todo = Assets[sync[h].rel], !.alone = Others(h) = {}]
            ELSE IF g \in Others(h) THEN [sync[g] EXCEPT !.alone = FALSE] ELSE sync[g]]
  /\ spoiled' = IF Others(h) = {} THEN spoiled ELSE spoiled \cup {Dir(h)}
  /\ UNCHANGED <<latest, conf, files, manifest, tmp, agentVars>>

MutNextAsset(h) == sync[h].todo \ {Max(sync[h].todo)}
NextAsset(h) == sync[h].todo \ {Min(sync[h].todo)}

\* download: the next binary, completed in a file of its own, then renamed.
Fetch(h) ==
  /\ sync[h].at = "fetch"
  /\ files' = [files EXCEPT ![Dir(h)][Min(sync[h].todo)] = sync[h].rel]
  /\ sync' = [sync EXCEPT ![h].todo = NextAsset(h),
                          ![h].at = IF NextAsset(h) = {} THEN "fetched" ELSE "fetch"]
  /\ UNCHANGED <<latest, conf, manifest, tmp, spoiled, agentVars, faults>>

\* os.WriteFile of the manifest: the temporary file, which all processes on this
\* directory share, is truncated ...
OpenTmp(h) ==
  /\ sync[h].at = "fetched"
  /\ tmp' = [tmp EXCEPT ![Dir(h)] = Torn]
  /\ sync' = [sync EXCEPT ![h].at = "open"]
  /\ UNCHANGED <<latest, conf, files, manifest, spoiled, agentVars, faults>>

Content(h) == [version |-> sync[h].rel, signed |-> sync[h].signed]

\* ... and written, wherever another process has moved it meanwhile ...
WriteTmp(h) ==
  /\ sync[h].at = "open"
  /\ tmp' = IF sync[h].into = "tmp" THEN [tmp EXCEPT ![Dir(h)] = Content(h)] ELSE tmp
  /\ manifest' = IF sync[h].into = "manifest"
                   THEN [manifest EXCEPT ![Dir(h)] = Content(h)] ELSE manifest
  /\ sync' = [sync EXCEPT ![h].at = "written", ![h].into = "tmp"]
  /\ UNCHANGED <<latest, conf, files, spoiled, agentVars, faults>>

\* Where the file a process has open is after a rename of the temporary one.
Moved(into) == IF into = "tmp" THEN "manifest" ELSE "gone"

\* ... then renamed.  (Between the two steps of another process's write: such
\* coincidences are bounded as faults are.)
Rename(h) ==
  /\ sync[h].at = "written" /\ tmp[Dir(h)] # NoManifest
  /\ IF tmp[Dir(h)] = Torn THEN Fault ELSE UNCHANGED faults
  /\ manifest' = [manifest EXCEPT ![Dir(h)] = tmp[Dir(h)]]
  /\ tmp' = [tmp EXCEPT ![Dir(h)] = NoManifest]
  /\ sync' = [g \in Hubs |->
       IF g = h THEN Quiet
       ELSE IF Dir(g) = Dir(h) /\ sync[g].at = "open" THEN [sync[g] EXCEPT !.into = Moved(@)]
       ELSE sync[g]]
  /\ spoiled' = IF sync[h].alone THEN spoiled \ {Dir(h)} ELSE spoiled
  /\ UNCHANGED <<latest, conf, files, agentVars>>

\* Another process has renamed it away.
RenameFails(h) ==
  /\ sync[h].at = "written" /\ tmp[Dir(h)] = NoManifest
  /\ sync' = [sync EXCEPT ![h] = Quiet]
  /\ UNCHANGED <<latest, conf, files, manifest, tmp, spoiled, agentVars, faults>>

\* A request or a write fails, or the hub dies: nothing is undone.
SyncFails(h) ==
  /\ Syncing(h) /\ Fault
  /\ sync' = [sync EXCEPT ![h] = Quiet]
  /\ spoiled' = spoiled \cup {Dir(h)}
  /\ UNCHANGED <<latest, conf, files, manifest, tmp, agentVars>>

Sync(h) ==
  \/ Ask(h) \/ NothingToDo(h) \/ Begin(h) \/ Fetch(h)
  \/ OpenTmp(h) \/ WriteTmp(h) \/ Rename(h) \/ RenameFails(h)

-----------------------------------------------------------------------------
(* The agent: Apply.                                                       *)

Newer(v, a) == v > running[a]

\* Check, against any hub: a release newer than its own that lists a binary for
\* its platform.
Check(a, h) ==
  LET m == manifest[Dir(h)] IN
  /\ update[a].at = "run"
  /\ m.version \in Releases /\ Newer(m.version, a)
  /\ conf.platform[a] \in Assets[m.version]
  /\ update' = [update EXCEPT ![a] = [at |-> "checked", version |-> m.version, signed |-> m.signed]]
  /\ UNCHANGED <<latest, conf, hubVars, running, exe, faults>>

MutVerifies(a, c) == a \in conf.keyed => update[a].signed
\* VerifyFile.
Verifies(a, c) == c = update[a].version /\ (a \in conf.keyed => update[a].signed)

\* The binary, from any hub: what its file holds when it is opened, or a part.
Download(a, h) ==
  LET c == files[Dir(h)][conf.platform[a]] IN
  /\ update[a].at = "checked"
  /\ \/ UNCHANGED faults /\ update' = [update EXCEPT ![a] =
          IF c # Missing /\ Verifies(a, c) THEN [update[a] EXCEPT !.at = "staged", !.version = c] ELSE NoUpdate]
     \/ Fault /\ update' = [update EXCEPT ![a] =
          IF Verifies(a, Cut) THEN [update[a] EXCEPT !.at = "staged", !.version = Cut] ELSE NoUpdate]
  /\ UNCHANGED <<latest, conf, hubVars, running, exe>>

\* Install: the old binary is moved away, which fails when it is gone already ...
MoveAway(a) ==
  /\ update[a].at = "staged"
  /\ update' = IF exe[a] = Missing THEN [update EXCEPT ![a] = NoUpdate]
                                   ELSE [update EXCEPT ![a].at = "moved"]
  /\ exe' = [exe EXCEPT ![a] = Missing]
  /\ UNCHANGED <<latest, conf, hubVars, running, faults>>

\* ... and the new one moved in.
MoveIn(a) ==
  /\ update[a].at = "moved"
  /\ exe' = [exe EXCEPT ![a] = update[a].version]
  /\ update' = [update EXCEPT ![a].at = "installed"]
  /\ UNCHANGED <<latest, conf, hubVars, running, faults>>

Back(a) == {running[a], Missing}

\* When that fails the old one is moved back, if that works.
MoveInFails(a) ==
  /\ update[a].at = "moved" /\ Fault
  /\ \E c \in Back(a) : exe' = [exe EXCEPT ![a] = c]
  /\ update' = [update EXCEPT ![a] = NoUpdate]
  /\ UNCHANGED <<latest, conf, hubVars, running>>

\* The supervisor starts whatever is in the binary's place.
Started(a) ==
  /\ running' = [running EXCEPT ![a] = IF exe[a] = Missing THEN @ ELSE exe[a]]
  /\ update' = [update EXCEPT ![a] = IF exe[a] = Missing THEN [NoUpdate EXCEPT !.at = "dead"] ELSE NoUpdate]

\* exitAfterUpdate.
Exit(a) ==
  /\ update[a].at = "installed"
  /\ Started(a)
  /\ UNCHANGED <<latest, conf, hubVars, exe, faults>>

\* The agent is restarted at any other point.
Crash(a) ==
  /\ update[a].at # "dead" /\ Fault
  /\ Started(a)
  /\ UNCHANGED <<latest, conf, hubVars, exe>>

Apply(a) ==
  \/ \E h \in Hubs : Check(a, h) \/ Download(a, h)
  \/ MoveAway(a) \/ MoveIn(a) \/ Exit(a)

Next ==
  \/ Release
  \/ \E h \in Hubs : Sync(h) \/ SyncFails(h)
  \/ \E a \in Agents : Apply(a) \/ MoveInFails(a) \/ Crash(a)

\* The tickers of the syncers and of the agents fire for ever.
Spec ==
  /\ Init /\ [][Next]_vars
  /\ \A h \in Hubs : WF_vars(Sync(h))
  /\ \A a \in Agents : WF_vars(Apply(a))

-----------------------------------------------------------------------------
(* Properties.                                                             *)

TypeOK ==
  /\ latest \in 0..MaxRelease /\ faults \in 0..MaxFaults /\ spoiled \subseteq Dirs
  /\ files \in [Dirs -> [Platforms -> 0..MaxRelease]]
  /\ \A d \in Dirs : {manifest[d], tmp[d]} \subseteq [version : 0..Cut, signed : BOOLEAN]
  /\ running \in [Agents -> Releases] /\ exe \in [Agents -> 0..MaxRelease]
  /\ \A h \in Hubs : sync[h].at \in {"idle", "asked", "fetch", "fetched", "open", "written"}
  /\ \A a \in Agents : update[a].at \in {"run", "checked", "staged", "moved", "installed", "dead"}

\* Whatever is replaced between the two requests, cut short or taken back, an
\* agent only ever comes to run a whole build of a release that is newer than
\* its own, and one with the -update-key only a signed release
\* (client.go:76-84, update.go:193-208).
OnlyUpward ==
  [][\A a \in Agents : running'[a] # running[a] =>
       /\ running'[a] \in Releases /\ running'[a] > running[a]
       /\ a \in conf.keyed => running'[a] \in Signed]_vars

\* A sync that runs to its end by itself leaves binaries that are those of its
\* manifest, whatever earlier ones left behind in the directory
\* (githubsync.go:146-183).
FilesMatch ==
  \A d \in Dirs \ spoiled :
    (\A h \in Hubs : Dir(h) = d => ~Syncing(h)) =>
      \A p \in Platforms :
        manifest[d].version \in Releases /\ p \in Assets[manifest[d].version]
          => files[d][p] = manifest[d].version

\* What can keep an agent from the latest release for good: it has lost its
\* binary, or a directory names the release already but holds another build or
\* no signature for it.
Unusable(d, a) ==
  /\ manifest[d].version = latest
  /\ \/ files[d][conf.platform[a]] # latest
     \/ a \in conf.keyed /\ ~manifest[d].signed
GivenUp(a) == exe[a] = Missing \/ \E h \in Hubs : Unusable(Dir(h), a)

\* Publishing a release is enough (docs/UPGRADE-RUNBOOK.md:90-92): every agent
\* comes to run it, or a newer one, unless one of these things has happened.
UpToDate(a) == running[a] >= latest \/ conf.platform[a] \notin Assets[latest]
FleetConverges ==
  \A v \in Releases : <>[](latest = v) => <>[](\A a \in Agents : UpToDate(a) \/ GivenUp(a))

\* "On an error it tries again in the next round" (githubsync.go:236-237): a
\* directory is never left with a manifest whose binaries are others.
NextRoundRepairs ==
  \A v \in Releases, d \in Dirs, p \in Platforms : <>[](latest = v) =>
    <>[](manifest[d].version = v /\ p \in Assets[v] => files[d][p] = v)

\* "If the release has a manifest.json signed by the pipeline the syncer passes
\* its signatures on" (githubsync.go:11-14).
SignaturesPass ==
  \A d \in Dirs : manifest[d].version \in Signed => manifest[d].signed

\* "Unix: an atomic rename" (update.go:211): a crash never finds an agent without
\* a binary.
BinaryInPlace == \A a \in Agents : update[a].at # "dead"

=============================================================================
