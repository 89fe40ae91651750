----------------------------- MODULE Compliance -----------------------------
(***************************************************************************)
(* The signed log (5651): the hash chain of compliance_logs                *)
(* (internal/store/compliance.go, fed by the syslog listener of every hub  *)
(* replica), the Sealer that turns finished hours into Merkle checkpoints  *)
(* and finished days into a daily seal and a WORM package                  *)
(* (internal/compliance/sealer.go), and the verification of an evidence    *)
(* bundle (verify.go).  Every replica runs a listener and a sealer.        *)
(*                                                                         *)
(* Time is counted in half hours: the first half of an hour stands for the *)
(* minutes before the daily seal's 00:05, the second for those after.  A   *)
(* hash is a term that holds all that went into it, so that equal hashes   *)
(* mean equal inputs; of a record only its time and its place in the chain *)
(* matter.                                                                 *)
(***************************************************************************)
EXTENDS Integers, Sequences, FiniteSets, SequencesExt

CONSTANTS
  Replicas, None,
  HoursPerDay,  \* 24 in the code
  PruneHour,    \* hour of the day of the retention pass; 3 in the code
  Retention,    \* hours that records are kept; 730 days by default
  MaxHour,      \* bound: hours of a behaviour run 0..MaxHour
  MaxRecords,   \* bound: records in a behaviour
  MaxFaults,    \* bound: crashes and failed statements
  MaxSetBacks   \* bound: times that the system clock is set back

ASSUME ComplianceAssumption ==
  /\ IsFiniteSet(Replicas) /\ None \notin Replicas
  /\ HoursPerDay \in Nat \ {0} /\ PruneHour \in 0..HoursPerDay-1 /\ Retention \in Nat
  /\ MaxHour \in Nat /\ MaxRecords \in Nat /\ MaxFaults \in Nat /\ MaxSetBacks \in Nat

VARIABLES
  clock,      \* the system clock, in half hours
  up,         \* running replicas
  listener,   \* the record each listener is appending
  mutex,      \* who holds the advisory lock complianceChainLockKey
  log,        \* compliance_logs, by seq; also the rows deleted since
  pruned,     \* seqs of the deleted rows
  hourly,     \* log_checkpoints of kind hourly, by id
  daily,      \* log_checkpoints of kind daily, by id
  worm,       \* the WORM package of each day
  sealer,     \* what each sealer is doing
  ticked,     \* replicas whose sealer completed a tick in this half hour
  alarmed,    \* a time_drift event was raised
  faults, setBacks,
  disturbed   \* history: hours that got a record after they had ended, or came twice

chain  == <<listener, mutex, log>>
seals  == <<hourly, daily, worm, sealer, ticked, alarmed>>
counts == <<faults, setBacks>>
vars   == <<clock, up, chain, pruned, seals, counts, disturbed>>

HourOf(c) == c \div 2
Hour == HourOf(clock)
Day(h) == h \div HoursPerDay
OfDay(h) == h % HoursPerDay
Hours == 0..MaxHour
Days == 0..Day(MaxHour)

Listening == [at |-> "idle", ts |-> 0, prev |-> <<>>]
Waiting == [at |-> "idle", now |-> 0, list |-> <<>>, prev |-> <<>>]

Init ==
  /\ clock = 0 /\ up \in (SUBSET Replicas) \ {{}}
  /\ listener = [r \in Replicas |-> Listening] /\ mutex = None
  /\ log = <<>> /\ pruned = {}
  /\ hourly = <<>> /\ daily = <<>> /\ worm = [d \in Days |-> "none"]
  /\ sealer = [r \in Replicas |-> Waiting] /\ ticked = {} /\ alarmed = FALSE
  /\ faults = 0 /\ setBacks = 0 /\ disturbed = {}

Fault == faults < MaxFaults /\ faults' = faults + 1 /\ UNCHANGED setBacks

-----------------------------------------------------------------------------
(* The chain.                                                              *)

ComplianceHash(prev, ts) == Append(prev, ts)

\* The seqs of the rows there are.
Rows == DOMAIN log \ pruned

\* The hash of the last of some rows; the empty chain starts with "".
LastOf(rows) == IF rows = {} THEN <<>> ELSE log[Max(rows)].hash
LastHash == LastOf(Rows)

\* The listener takes the time before it appends (and publishes in between).
Receive(r) ==
  /\ r \in up /\ listener[r].at = "idle"
  /\ Len(log) + Cardinality({q \in Replicas : listener[q].at # "idle"}) < MaxRecords
  /\ listener' = [listener EXCEPT ![r] = [@ EXCEPT !.at = "stamped", !.ts = Hour]]
  /\ UNCHANGED <<clock, up, mutex, log, pruned, seals, counts, disturbed>>

MutLockFree == TRUE
LockFree == mutex = None

\* AppendComplianceLog: the lock of the chain, ...
Lock(r) ==
  /\ listener[r].at = "stamped" /\ LockFree
  /\ mutex' = r
  /\ listener' = [listener EXCEPT ![r].at = "locked"]
  /\ UNCHANGED <<clock, up, log, pruned, seals, counts, disturbed>>

\* ... the last hash, ...
ReadPrev(r) ==
  /\ listener[r].at = "locked"
  /\ listener' = [listener EXCEPT ![r] = [@ EXCEPT !.at = "read", !.prev = LastHash]]
  /\ UNCHANGED <<clock, up, mutex, log, pruned, seals, counts, disturbed>>

\* ... the new row, and the commit that gives the lock back.
Insert(r) ==
  LET l == listener[r] IN
  /\ l.at = "read"
  /\ log' = Append(log, [ts |-> l.ts, prev |-> l.prev, hash |-> ComplianceHash(l.prev, l.ts)])
  /\ disturbed' = IF l.ts = Hour THEN disturbed ELSE disturbed \cup {l.ts}
  /\ mutex' = None
  /\ listener' = [listener EXCEPT ![r] = Listening]
  /\ UNCHANGED <<clock, up, pruned, seals, counts>>

\* A statement fails: rolled back, logged, and the record is not kept.
AppendFails(r) ==
  /\ listener[r].at # "idle"
  /\ Fault
  /\ mutex' = IF mutex = r THEN None ELSE mutex
  /\ listener' = [listener EXCEPT ![r] = Listening]
  /\ UNCHANGED <<clock, up, log, pruned, seals, disturbed>>

Listener(r) == Receive(r) \/ Lock(r) \/ ReadPrev(r) \/ Insert(r) \/ AppendFails(r)

-----------------------------------------------------------------------------
(* Merkle roots.                                                           *)

\* One level up: neighbours are hashed together, an odd last one with itself.
Level(s) == [i \in 1..((Len(s) + 1) \div 2) |->
               [left |-> s[2*i - 1], right |-> s[IF 2*i <= Len(s) THEN 2*i ELSE Len(s)]]]

MerkleRoot(s) ==
  IF s = <<>> THEN [nil |-> TRUE]
  ELSE LET layer[k \in Nat] == IF k = 0 THEN s ELSE Level(layer[k - 1])
           top == CHOOSE k \in 0..Len(s) : Len(layer[k]) = 1 /\ \A j \in 0..k-1 : Len(layer[j]) > 1
       IN  layer[top][1]

\* ORDER BY: the rows in the order of their keys, those of one key in any order.
OrderBy(rows, key) ==
  CHOOSE s \in Bijection(1..Cardinality(rows), rows) :
    \A m, n \in DOMAIN s : m < n => key[s[m]] <= key[s[n]]

\* The leaves for hour h: the hashes of its rows, by seq.
Found(rows, h) == {<<i, log[i].hash>> : i \in {q \in rows : log[q].ts = h}}
LeavesOf(rows, h) ==
  LET found == OrderBy(Found(rows, h), [row \in Found(rows, h) |-> row[1]])
  IN  [n \in DOMAIN found |-> [hash |-> found[n][2]]]
HashesOf(h) == LeavesOf(Rows, h)

-----------------------------------------------------------------------------
(* run of the sealer: the previous hour, then, in the first hour of a day    *)
(* but not before 00:05, the previous day, then the retention.             *)

Goto(r, place) == sealer' = [sealer EXCEPT ![r].at = place]
At(r, place) == r \in up /\ sealer[r].at = place
Now(r) == sealer[r].now

Tick(r) ==
  /\ At(r, "idle")
  /\ sealer' = [sealer EXCEPT ![r] = [Waiting EXCEPT !.at = "hour", !.now = clock]]
  /\ UNCHANGED <<clock, up, chain, pruned, hourly, daily, worm, ticked, alarmed, counts, disturbed>>

MutSealed(c) == HourOf(c)
MutSealedLate(c) == HourOf(c) - 2
\* The hour that a tick at time c seals.
SealedHour(c) == HourOf(c) - 1

CheckpointExists(h) == \E i \in DOMAIN hourly : hourly[i].hour = h

\* HourlyCheckpoint: is it done already?
HourCheck(r) ==
  /\ At(r, "hour")
  /\ Goto(r, IF CheckpointExists(SealedHour(Now(r))) THEN "day" ELSE "hashes")
  /\ UNCHANGED <<clock, up, chain, pruned, hourly, daily, worm, ticked, alarmed, counts, disturbed>>

MutUnlessEmpty(list, skip, place) == place
\* "if count == 0": nothing to seal.
UnlessEmpty(list, skip, place) == IF list = <<>> THEN skip ELSE place

\* An hour without records gets no checkpoint.
ReadHashes(r) ==
  LET hs == HashesOf(SealedHour(Now(r))) IN
  /\ At(r, "hashes")
  /\ sealer' = [sealer EXCEPT ![r] = [@ EXCEPT !.list = hs, !.at = UnlessEmpty(hs, "day", "latest")]]
  /\ UNCHANGED <<clock, up, chain, pruned, hourly, daily, worm, ticked, alarmed, counts, disturbed>>

\* LatestLogCheckpoint: the root of a row with the latest bucket, <<>> for none.
LatestRoots(cps, bucket) ==
  IF cps = <<>> THEN {<<>>}
  ELSE {cps[i].root : i \in {i \in DOMAIN cps : \A j \in DOMAIN cps : cps[j][bucket] <= cps[i][bucket]}}
PrevHourly == LatestRoots(hourly, "hour")
PrevDaily == LatestRoots(daily, "day")

\* The time_drift event: the hour that was sealed ends over an hour from now.
ReadLatest(r) ==
  /\ At(r, "latest")
  /\ \E prev \in PrevHourly : sealer' = [sealer EXCEPT ![r] = [@ EXCEPT !.prev = prev, !.at = "save"]]
  /\ alarmed' = (alarmed \/ 2 * (SealedHour(Now(r)) + 1) > clock + 2)
  /\ UNCHANGED <<clock, up, chain, pruned, hourly, daily, worm, ticked, counts, disturbed>>

SaveHourly(r) ==
  LET s == sealer[r] IN
  /\ At(r, "save")
  /\ hourly' = Append(hourly, [hour |-> SealedHour(s.now), prev |-> s.prev,
                               root |-> MerkleRoot(s.list), count |-> Len(s.list)])
  /\ Goto(r, "day")
  /\ UNCHANGED <<clock, up, chain, pruned, daily, worm, ticked, alarmed, counts, disturbed>>

SealsDay(c) == OfDay(HourOf(c)) = 0 /\ c % 2 = 1
SealedDay(c) == Day(HourOf(c)) - 1
DaySealed(d) == \E i \in DOMAIN daily : daily[i].day = d

\* DailySeal: is it time, and is it done already?
DayCheck(r) ==
  /\ At(r, "day")
  /\ Goto(r, IF SealsDay(Now(r)) /\ ~DaySealed(SealedDay(Now(r))) THEN "roots" ELSE "prune")
  /\ UNCHANGED <<clock, up, chain, pruned, hourly, daily, worm, ticked, alarmed, counts, disturbed>>

\* LogCheckpointsBetween: the ids of hourly checkpoints, by bucket.
Between(from, to) ==
  LET ids == {i \in DOMAIN hourly : hourly[i].hour \in from..to-1}
  IN  OrderBy(ids, [i \in ids |-> hourly[i].hour])
RootsOf(ids) == [i \in DOMAIN ids |-> hourly[ids[i]].root]
DayStart(d) == d * HoursPerDay
MutHourlyOfDay(d) == Between(DayStart(d), DayStart(d + 1) - 1)
HourlyOfDay(d) == Between(DayStart(d), DayStart(d + 1))

\* A day without checkpoints is not sealed.
ReadRoots(r) ==
  LET roots == RootsOf(HourlyOfDay(SealedDay(Now(r)))) IN
  /\ At(r, "roots")
  /\ sealer' = [sealer EXCEPT ![r] =
       [@ EXCEPT !.list = roots, !.at = UnlessEmpty(roots, "prune", "latestDaily")]]
  /\ UNCHANGED <<clock, up, chain, pruned, hourly, daily, worm, ticked, alarmed, counts, disturbed>>

ReadLatestDaily(r) ==
  /\ At(r, "latestDaily")
  /\ \E prev \in PrevDaily : sealer' = [sealer EXCEPT ![r] = [@ EXCEPT !.prev = prev, !.at = "saveDaily"]]
  /\ UNCHANGED <<clock, up, chain, pruned, hourly, daily, worm, ticked, alarmed, counts, disturbed>>

\* The signed manifest holds the number of hours; time stamp and signature
\* themselves are left out.
SaveDaily(r) ==
  LET s == sealer[r] IN
  /\ At(r, "saveDaily")
  /\ daily' = Append(daily, [day |-> SealedDay(s.now), prev |-> s.prev,
                             root |-> MerkleRoot(s.list), hours |-> Len(s.list)])
  /\ Goto(r, "worm")
  /\ UNCHANGED <<clock, up, chain, pruned, hourly, worm, ticked, alarmed, counts, disturbed>>

\* exportWorm: the records, unless the file is there already (O_EXCL), ...
ExportLogs(r) ==
  LET d == SealedDay(Now(r)) IN
  /\ At(r, "worm")
  /\ IF worm[d] = "none"
       THEN worm' = [worm EXCEPT ![d] = "logs"] /\ Goto(r, "manifest")
       ELSE UNCHANGED worm /\ Goto(r, "prune")
  /\ UNCHANGED <<clock, up, chain, pruned, hourly, daily, ticked, alarmed, counts, disturbed>>

\* ... then the manifest.
ExportManifest(r) ==
  /\ At(r, "manifest")
  /\ worm' = [worm EXCEPT ![SealedDay(Now(r))] = "complete"]
  /\ Goto(r, "prune")
  /\ UNCHANGED <<clock, up, chain, pruned, hourly, daily, ticked, alarmed, counts, disturbed>>

Expired == {i \in DOMAIN log : log[i].ts + Retention < Hour}

PrunesNow(c) == OfDay(HourOf(c)) = PruneHour /\ c % 2 = 0

\* PruneComplianceLogs, in the first minute of its hour; the tick is over.
Prune(r) ==
  /\ At(r, "prune")
  /\ IF PrunesNow(Now(r))
       THEN \/ pruned' = pruned \cup Expired /\ UNCHANGED counts
            \/ UNCHANGED pruned /\ Fault
       ELSE UNCHANGED <<pruned, counts>>
  /\ sealer' = [sealer EXCEPT ![r] = Waiting]
  /\ ticked' = IF Now(r) = clock THEN ticked \cup {r} ELSE ticked
  /\ UNCHANGED <<clock, up, chain, hourly, daily, worm, alarmed, disturbed>>

\* Where the tick goes on after a failed statement.
AfterError(at) == IF at \in {"hour", "hashes", "latest", "save"} THEN "day" ELSE "prune"

\* A statement, or the writing of a file, fails: logged.
SealerFails(r) ==
  /\ r \in up /\ sealer[r].at \notin {"idle", "prune"}
  /\ Fault
  /\ Goto(r, AfterError(sealer[r].at))
  /\ UNCHANGED <<clock, up, chain, pruned, hourly, daily, worm, ticked, alarmed, disturbed>>

Sealer(r) ==
  \/ Tick(r) \/ HourCheck(r) \/ ReadHashes(r) \/ ReadLatest(r) \/ SaveHourly(r)
  \/ DayCheck(r) \/ ReadRoots(r) \/ ReadLatestDaily(r) \/ SaveDaily(r)
  \/ ExportLogs(r) \/ ExportManifest(r) \/ Prune(r) \/ SealerFails(r)

-----------------------------------------------------------------------------
(* The clock and the processes.                                            *)

\* A sealer ticks every 30 s and a tick takes less than half an hour, so that no
\* half hour passes without a completed tick of every replica that is up.
HalfHourPasses ==
  /\ HourOf(clock + 1) <= MaxHour
  /\ up \subseteq ticked
  /\ clock' = clock + 1 /\ ticked' = {}
  /\ UNCHANGED <<up, chain, pruned, hourly, daily, worm, sealer, alarmed, counts, disturbed>>

\* The administrator or NTP sets the clock back.
SetBack ==
  /\ setBacks < MaxSetBacks
  /\ setBacks' = setBacks + 1
  /\ \E c \in 0..clock-1 :
       /\ clock' = c
       /\ disturbed' = disturbed \cup HourOf(c)..Hour
  /\ ticked' = {}
  /\ UNCHANGED <<up, chain, pruned, hourly, daily, worm, sealer, alarmed, faults>>

Crash(r) ==
  /\ r \in up
  /\ Fault
  /\ up' = up \ {r} /\ ticked' = ticked \ {r}
  /\ listener' = [listener EXCEPT ![r] = Listening]
  /\ mutex' = IF mutex = r THEN None ELSE mutex
  /\ sealer' = [sealer EXCEPT ![r] = Waiting]
  /\ UNCHANGED <<clock, log, pruned, hourly, daily, worm, alarmed, disturbed>>

Restart(r) ==
  /\ r \notin up
  /\ up' = up \cup {r}
  /\ UNCHANGED <<clock, chain, pruned, seals, counts, disturbed>>

Next ==
  \/ HalfHourPasses \/ SetBack
  \/ \E r \in Replicas : Listener(r) \/ Sealer(r) \/ Crash(r) \/ Restart(r)

Spec == Init /\ [][Next]_vars

-----------------------------------------------------------------------------
(* BuildEvidence and VerifyBundle, over the hours from..to-1.              *)

BundleLogs(from, to) == {i \in Rows : log[i].ts \in from..to-1}

ChainHolds(rows) ==
  \A i \in rows :
    LET e == log[i]
        prev == LastOf({j \in rows : j < i})
    IN  e.prev = prev /\ ComplianceHash(prev, e.ts) = e.hash

HourHolds(rows, cp) ==
  /\ cp.count = Len(LeavesOf(rows, cp.hour))
  /\ cp.root = MerkleRoot(LeavesOf(rows, cp.hour))

CheckpointsHold(rows, ids) ==
  \A n \in DOMAIN ids :
    /\ HourHolds(rows, hourly[ids[n]])
    /\ hourly[ids[n]].prev = IF n = 1 THEN <<>> ELSE hourly[ids[n - 1]].root

\* The root of every daily seal of the bundle is compared with all of its hourly
\* roots, the number of hours in the signed manifest with those of the day.
SealsHold(ids, from, to) ==
  \A n \in DOMAIN daily :
    DayStart(daily[n].day) \in from..to-1 =>
      /\ daily[n].root = MerkleRoot(RootsOf(ids))
      /\ daily[n].hours = Cardinality({m \in DOMAIN ids : Day(hourly[ids[m]].hour) = daily[n].day})

VerifyBundle(from, to) ==
  LET rows == BundleLogs(from, to)
      ids  == Between(from, to)
  IN  ChainHolds(rows) /\ CheckpointsHold(rows, ids) /\ SealsHold(ids, from, to)

-----------------------------------------------------------------------------
(* Properties.                                                             *)

SealerPlaces == {"idle", "hour", "hashes", "latest", "save", "day", "roots", "latestDaily",
                 "saveDaily", "worm", "manifest", "prune"}

TypeOK ==
  /\ clock \in 0..2*MaxHour+1 /\ up \subseteq Replicas /\ ticked \subseteq up
  /\ mutex \in Replicas \cup {None}
  /\ \A r \in Replicas : /\ listener[r].at \in {"idle", "stamped", "locked", "read"}
                         /\ listener[r].ts \in Hours /\ listener[r].prev \in Seq(Hours)
                         /\ sealer[r].at \in SealerPlaces /\ sealer[r].now \in 0..2*MaxHour+1
  /\ log \in Seq([ts : Hours, prev : Seq(Hours), hash : Seq(Hours)])
  /\ pruned \subseteq DOMAIN log
  /\ \A i \in DOMAIN hourly : hourly[i].hour \in Hours /\ hourly[i].count \in 1..MaxRecords
  /\ \A i \in DOMAIN daily : daily[i].day \in Days /\ daily[i].hours \in Nat \ {0}
  /\ worm \in [Days -> {"none", "logs", "complete"}]
  /\ alarmed \in BOOLEAN /\ faults \in 0..MaxFaults /\ setBacks \in 0..MaxSetBacks
  /\ disturbed \subseteq Hours

\* The chain never forks: every row is linked to the one before it, unless that
\* one had been deleted, whoever appended at the same time and wherever an append
\* was cut short (store/compliance.go:60-71).
ChainLinks ==
  \A i \in DOMAIN log : i + 1 \in DOMAIN log /\ i \notin pruned => log[i + 1].prev = log[i].hash

\* A checkpoint seals what its hour really held: the rows of an undisturbed hour
\* still give the root and the count taken when it was sealed, and will until the
\* retention deletes one of them (sealer.go:104-143).
Untouched(h) == h \notin disturbed /\ \A i \in pruned : log[i].ts # h
RootsMatch ==
  \A cp \in ToSet(hourly) : Untouched(cp.hour) => HourHolds(Rows, cp)

\* No finished hour is left out while the replicas and their statements work:
\* after one more hour every undisturbed hour with records has its checkpoint.
HoursSealed ==
  faults = 0 => \A i \in DOMAIN log :
    log[i].ts + 1 < Hour /\ Untouched(log[i].ts) => CheckpointExists(log[i].ts)

\* No two sealers came to seal an hour, or a day, at the same time.
SealedOnce ==
  /\ \A i, j \in DOMAIN hourly : hourly[i].hour = hourly[j].hour => i = j
  /\ \A i, j \in DOMAIN daily : daily[i].day = daily[j].day => i = j

\* The evidence of the first day verifies once the day is sealed, and it is
\* sealed and exported within the first hour of the next (sealer.go:155-238,
\* verify.go:101-210; the case of compliance_test.go:173-193).
FirstDay == 0..HoursPerDay-1
FirstDayVerifies ==
  (faults = 0 /\ pruned = {} /\ disturbed \cap FirstDay = {} /\ Hour > HoursPerDay /\ SealedOnce) =>
    /\ VerifyBundle(0, HoursPerDay)
    /\ (\E i \in DOMAIN log : log[i].ts \in FirstDay) => DaySealed(0) /\ worm[0] = "complete"

Calm == faults = 0 /\ setBacks = 0 /\ pruned = {} /\ disturbed = {}

\* An evidence bundle covers any range of days (docs/API.md:497-505): that of the
\* second day alone verifies as well as that of the first.
SecondDayVerifies ==
  Calm /\ Hour > 2 * HoursPerDay => VerifyBundle(HoursPerDay, 2 * HoursPerDay)

\* "bazntmsctl verify -bundle bazntms-delil-20260801-20260901.json"
\* (docs/CONFIGURATION.md:317): a bundle of several days verifies.
TwoDaysVerify == Calm /\ Hour > 2 * HoursPerDay => VerifyBundle(0, 2 * HoursPerDay)

\* "An existing checkpoint is not produced again" (sealer.go:105).
OneCheckpointPerHour ==
  \A i, j \in DOMAIN hourly : hourly[i].hour = hourly[j].hour => i = j

\* DailySeal "writes the WORM package. It is idempotent" (sealer.go:155-156): a
\* sealed day has its package, or will get it by the tick that is under way.
SealedIsExported ==
  \A d \in Days : DaySealed(d) => \/ worm[d] = "complete"
                                  \/ \E r \in up : sealer[r].at \in {"worm", "manifest"}

\* "From the record hashes of the hourly slices a Merkle root is taken and
\* chained as a checkpoint" (merkle.go:5-6): no finished hour goes without.
EveryHourSealed ==
  \A i \in DOMAIN log : /\ log[i].ts + 1 < Hour /\ Untouched(log[i].ts)
                        /\ up = Replicas /\ up \subseteq ticked
                        => CheckpointExists(log[i].ts)

\* "time_drift is raised when checkpoint hours run ahead of the system clock"
\* (docs/CONFIGURATION.md:321): an hour is not sealed behind such a checkpoint
\* without the alarm.
Ahead == \E i \in DOMAIN hourly : 2 * (hourly[i].hour + 1) > clock + 2
DriftIsReported ==
  [][\A r \in Replicas : (sealer[r].at = "latest" /\ sealer'[r].at = "save" /\ Ahead) => alarmed']_vars

=============================================================================
