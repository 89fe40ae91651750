# bazNTMS in TLA+

A verification project for bazNTMS: a network traffic management system whose agents send telemetry to
a pool of hubs, which store it, poll devices, raise alerts, run reports and keep a tamper-evident log.
The modules model the Go code under `src/internal` and `src/cmd`; they are checked with TLC on small
instances, and the theorems in the `*Proofs` modules are checked with TLAPS for every value of the constants.

Contents: [1 The system](#1-the-system) · [2 Modules](#2-modules) · [3 Runs and bounds](#3-runs-and-bounds) ·
[4 Fairness](#4-fairness) · [5 Proofs](#5-proofs) · [6 Disagreements found](#6-disagreements-found) ·
[7 What is not modelled](#7-what-is-not-modelled) · [8 Plan](#8-plan)

## 1 The system

    devices --SNMP/REST--> device poller ----------+
    agents  --HTTPS hello/telemetry--> hub API -----+--> (NATS JetStream --> store-writer) --> PostgreSQL/SQLite
    syslog/flows --UDP--> listeners ----------------+            ^                              |
    browser <--REST/WebSocket-- hub API <-----------------------------------------------------+
    leader of a role: alert engine, incident engine, device poller, scheduler   (one of the hub replicas)

Several hub replicas share one PostgreSQL database (with SQLite there is one hub). Ingest replicas accept telemetry,
controller replicas also run the single-owner roles. State that must survive is in the database; each replica
keeps caches and timers in memory. The agent keeps two files: its identity and its offline queue.

| component | state | operations | talks to | what is hard | what makes it correct |
|---|---|---|---|---|---|
| Agent telemetry loop (`internal/agent/agent.go`) | queue file, drop counter, index of the hub in use | Send, drain, failover | hub API | outages, lost answers, crash while the file is rewritten | bounded ordered queue, no silent loss, drains in the end |
| Agent identity (`agent.go`, `cmd/bazntms-agent`) | state file, token in memory, 401 streak | Enroll, Reenroll | hub API | crash loops, lost answers, database outages, deletes | memory and file agree, heals itself, few ghost rows |
| Agent registry (`server/agents.go`, `store/agents.go`, `store/enroll_tokens.go`) | `enroll_tokens`, `agents`, telemetry tables | hello, telemetry, revoke, delete, archive | store | statements of several handlers interleave | `max_uses` respected, revoked and deleted are final |
| Ingest queue (`queue/queue.go`) | stream, consumer, DLQ, store | publish, fetch, write, ack, retry, term | JetStream, store | redelivery, slow workers, partial writes | ack means stored, term means dead-lettered |
| Leader election (`store/leader.go`) | advisory lock, its session, flag in memory | tick, drop | PostgreSQL | connection dies unnoticed, orderly and crashing handover | one leader unless a connection broke |
| Alert engine (`alert/alert.go`, `store/alerts.go`) | `alert_events`, `alert_silences`, cooldowns | fire, bump, sweep, ack, resolve, silence | election, notifiers | look-up and insert are separate; several replicas; per-replica cooldown | one open event per condition, reported, resolved |
| Alert rules (`alert/iface.go`, `forti.go`, `ioc.go`, `sla.go`, `anomaly.go`) | last seen state per edge, baselines | evaluate | alert engine, store | an edge is remembered before its event is stored | an edge is reported once |
| Notifiers, tickets (`alert/notify.go`, `jira.go`, `servicenow.go`) | `ext_ref` of events | notify, open ticket, close ticket | mail, webhooks, Jira, ServiceNow | retries, one group and several events | one ticket per group |
| Incident engine (`incident/`, `store/incidents.go`) | `incidents`, evidence | evaluate, open, bump, add evidence, notify, set status | election, alert events, notifier | open-or-bump, evidence and notice in separate statements; two leaders; operators | one open incident per key, severity explained by the evidence, rises announced |
| Signed log (`compliance/`, `store/compliance.go`) | chain, checkpoints, WORM packages | append, hourly and daily seal, retention, verify | syslog, TSA, files | several replicas, crash between steps, clock set back, missed hours | chain never forks, checkpoints match, evidence verifies |
| Scheduler (`scheduler/`, `store/scheduled_jobs.go`, `aijob/`) | `scheduled_jobs` | sweep, mark, create, delete, ensure | election, reports, AI | handler runs for minutes, leader changes, crash before the update | once per occurrence, none forgotten |
| Device poller (`devpoll/`, `driver/`) | `devices.last_poll`, pool of workers | poll, save | election, devices | hanging polls, limit of the pool | one poll per device at a time |
| Software update (`update/`, `server/updates.go`, `cmd/bazntms-agent`) | channel directory per hub, installed binary | mirror, check, download, verify, install, restart | GitHub, hub API | files and manifest change between two requests, go to different hubs, are cut short | only whole, newer, verified builds; the fleet converges |
| Traffic attribution (`agent/bpf/attr.c`, `bpf/loader.go`, `ebpfattr.go`) | the kernel's LRU map and ring; pending, DNS table | count, capture, drain, deltas, load, stop | kernel, telemetry loop | programs on all CPUs race with each other and with the drain; every table has a limit | bytes counted once, under their flow, reported at most once |
| Users, sessions, audit (`server/auth.go`, `store/users.go`) | users, sessions, attempts, audit chain | login, logout, change, audit | browser | stale sessions, concurrent appends | attempts limited, chain unbroken |
| Migrations (`store/migrate.go`) | `schema_migrations` | migrate | PostgreSQL | replicas start together, crash half-way | every step once |
| Retention (`store/maintenance.go`) | time-series rows | prune | store | runs beside writers | only old rows go |
| Flow collector (`flows/`), capture (`capture/`) | template cache, counters | decode, record | exporters, NIC | templates that come late | records are decoded by the right template |
| WebSocket hub (`server/hub.go`) | clients | broadcast | browser | slow clients | a slow client does not stop the others for long |
| Vault, PKI, AI, reports, GeoIP, IOC, config, logging, metrics, tools, web panel | - | - | - | pure functions, I/O, rendering | - |

## 2 Modules

Each module's header names the files it models; `PROJECT.json` maps every definition to its lines. An action is
one database statement, one message, or one stretch of code that nothing else can observe half-way.
`Mut...` operators stand next to some definitions: a plausible bug with the same parameters, with which
the property named in `PROJECT.json` fails. They are no part of the model.

| module | models | state (source) | actions |
|---|---|---|---|
| `AgentQueue` | Send, loadQueue, saveQueue, postBatch, withFailover | `disk` the `.queue.jsonl` file, `queue`/`todo` Send's slices, `dropped`, `hubIdx`, and at the hub `received`, `connLatest` | one per stage of Send; `stable` is the network |
| `AgentIdentity` | Enroll, Reenroll, NoteAuthFailure and the loop that calls them | `disk` the state file, `mem` the token in use, `authFails`, `rows` the hub's rows of this machine | hello and its answer, save, telemetry accepted or rejected, crash, torn write, delete, database outage |
| `Enrollment` | the hello handler with RegisterOrReuseAgent, telemetry's TouchAgent, DeleteAgent, PruneOfflineAgents | `used`/`revoked`/`expired` of `enroll_tokens`, `agents`, `samples`, and the local variables of every handler in `reqs` | one per SQL statement |
| `StoreWriter` | handle, flushFlows, retry of the store-writer; JetStream's consumer is external | `status`/`count` of messages, `dlq`, `writes` the transactions committed, `work` what a worker holds | fetch, write a part, fail, ack, nak, term, AckWait passes, worker stops |
| `Leader` | tick, drop, Run, IsLeader; the advisory lock is external | `lock` Leader.lock, `holder` whose session has the advisory lock, `releasing` inside drop | acquire, step down, release, connection breaks, PostgreSQL notices, stop, crash, restart |
| `AlertLifecycle` | run with the rules about bandwidth and about connections, fireCtx, sweepAutoResolve, AckEvent, ResolveEventByID, silences | `rows` of `alert_events`, `silences`, per replica `count` (bwInCount, bwOutCount, agentBw), `cool` (lastFire), `cache`, `engine` | the evaluation of the rules at a tick; one per statement of what follows; a tick without leadership; `EngineElection` is a step of `Leader`, an orderly stop drains |
| `IncidentRules` | matchRules, clusterInWindow, riskScore, sevRank, maxSev | none: pure functions of the ages of the alerts | - |
| `IncidentEngine` | run, Evaluate, upsert, the statements of `store/incidents.go`, handleIncidentAction | `age`/`silenced` of `alert_events`, `rows` of `incidents`, per replica `engine` | one per statement; status changes, alerts, time; `Election`, drain and kill |
| `UpdateChannel` | SyncOnce, download, the manifest's temporary file; Check, ApplyTo, Install and the restart of the agent | per directory `files`, `manifest`, `tmp`; per hub `sync`; per agent `running`, `exe`, `update`; `latest` is GitHub | one per request and per file operation, failures and crashes |
| `EbpfAttribution` | the four programs of `attr.c`; drainLoop, dnsLoop, Deltas, DNSDeltas, load and Stop | `slots` the flows map, `ring`, `pending`, `dns`, `dnsSent`; per call `pc`, `ptr`; `reported`/`answered` what the telemetry loop got | look-up, atomic add, update and capture are steps of their own; so are the two passes of a drain |
| `Ledger` | what a source of deltas promises (`attrsource.go`) | `stage` and `label` of every item | count, report, lose, keep; any number of items per step |
| `Scheduler` | sweep, runJob, NextRun (interval, daily), EnsureJob, the two handlers of schedules | `jobs` of `scheduled_jobs`, per replica `sweep` and `boot` | list, handler, update, start-up, operator, clock, stop, crash |
| `Compliance` | AppendComplianceLog, the Sealer, MerkleRoot, retention, BuildEvidence and VerifyBundle | `log`, `hourly`, `daily`, `worm`, per replica `listener`, `sealer` | one per statement of append and seal, half hours, clock set back, crash |

`AlertLifecycle`, `IncidentEngine` and `Scheduler` extend `Leader`: every step of the election is a step of theirs,
they ask `IsLeader` exactly where the code asks `leading()`, and a stop or crash of a replica takes its engine's memory along.
`AgentIdentity` uses the registry with atomic handlers; `Enrollment` opens those handlers.

**Refinement.** `Ledger` is the abstract specification: an item is new, then held under one label, then reported under that label or lost,
never twice and never back; and what is held does not stay for ever. `EbpfAttribution` implements it twice, by
`Bytes` (the items are the calls whose bytes are counted, the labels the flows) and by `Answers` (the DNS answers and their names). The mapping
looks an item up wherever its bytes can be (map, taken, pending, reported): an item found in two places has a stage the ledger does
not know, so that double counting refutes the refinement.

The `*Proofs` modules extend the module they are named after (`IncidentProofs` extends `IncidentEngine`, `LeaderRolesProofs` extends `Scheduler` and `AlertLifecycle`, `EnrollmentProofs` also extends `AgentIdentity`; so these modules share no names but those of `Leader`); section 5 says what is in them.

Points where a module is deliberately simpler than the code:

- `EbpfAttribution`: a counter is the set of the calls whose bytes it adds up, so that the sum is never the wrong one by accident and the size of
  a transfer does not matter. The LRU map evicts any element. An element removed from it may be reused at once while a program still holds a pointer to it.
- `AlertLifecycle`: the rules are of three kinds, which differ in when they call fireCtx. `checkPorts` and `checkAgentPorts` (all keys that are not counted) call it at every
  evaluation that finds the connection, one tick in five. `checkBandwidth` (`Bandwidth`) counts ticks in a row and calls it once, when the counter equals the limit; the counter goes back to
  0 when the threshold is not exceeded and when the replica does not lead, so that a new leader counts, and fires, anew. `checkAgentBandwidth` (`AgentBandwidth`) counts its evaluations the same
  way, but nothing resets it when leadership is lost. `cond` stands for the measured values; a tick may leave out the rules of agents that are offline. `Need` in a counter means "that many or more".
- `IncidentEngine`: one agent, since agents are evaluated one after another under keys of their own; an alert has an age instead of a time stamp.
- `UpdateChannel`: a build is named by its release, and SHA-256 tells builds apart. A torn temporary manifest is moved into place only when another process
  renames between the truncation and the write: that coincidence uses up a fault.
- `AgentQueue`: batches are their time stamps; the content of a batch does not matter to the queue. The identity does not change.
- `AgentIdentity`: `calm` (no more disturbance) includes that the state file can be written. With a state file that stays
  unwritable the streak cannot be reset, which the code accepts.
- `Enrollment`: a machine is a pair (machine id, site), a token hash is the token. Refusals that leave no state are left out.
- `StoreWriter`: `strikes` counts up to two; writes of the store are committed transactions.
- `Compliance`: a hash is the term of its inputs (collisions do not exist); the clock has two values per hour, before and after the
  daily seal's 00:05; signature and time stamp are left out.
- `Scheduler`: the result of a handler is only written to `last_status`, so that only its run is modelled. A failed query of the due
  jobs is the same as a sweep with nothing due. Weekly and monthly recurrences are daily ones with another calendar.

## 3 Runs and bounds

The passing runs end without an error and fire every action of the modules between them.

| run | instance | shows |
|---|---|---|
| `agent_queue` | 2 hubs, cap 2, 4 stamps, 1 crash or failed write | `QueueInOrder` (bound and order), `LossIsCounted` and the liveness `QueueDrains`. Cap 2 with 4 stamps overflows twice and still leaves a queue to drain; a second hub is enough for a failover and a lost answer on the way |
| `enrollment` | 2 handlers, 1 token with `max_uses` 1, 1 machine, 2 rows, 2 secrets | `AtMostMaxUses`, `RevokedBuysNothing`, `DeletedStaysDeleted`: two hellos racing for the last use, against a revocation, an expiry, a delete, the archiver and telemetry |
| `agent_identity` | 2 hubs, streak 3, 2 faults | `DiskMatchesMemory`, `RowsBounded` (a ghost row needs a fault) and `SelfHeals` for an agent that may crash any number of times |
| `store_writer` | 2 workers, 1 telemetry message of 2 transactions, 1 flow message, fetch of 2, 3 deliveries | `AckedIsStored`, `OncePerDelivery`, `LossTakesTwo`, `Settles`: a message redelivered while a slow worker still writes it, partial writes, a fetch that mixes both kinds; with 3 deliveries retry, dead-lettering at the last but one, and exhaustion all happen |
| `leader` | 3 replicas, 3 faults | `StaleOnlyIfBroken`, `SettlesOnOne`. Three replicas: a stale one, a leader and a third that waits |
| `alert_lifecycle` | 2 replicas, a key of `checkPorts` with windows and one of `checkBandwidth` (limit 1), 2 rows, 1 fault | `DuplicatesExcused`: two open events of one condition are only there for a reason that is in the history |
| `alert_takeover` | 2 replicas, a key of each kind of rule (limit 2), 1 row, 1 fault | `Reported`: a connection to a suspicious port that lasts has an open event again and again, across crashes, failed statements and changes of the leader. It is not claimed of the counted rules, for which TLC refutes it (`BandwidthReported`, section 6). `AutoResolves`: an event whose condition is over is closed, whatever rule it comes from |
| `incident` | 2 replicas, rule 3 with three alerts that form two kinds of pairs and raise the severity, 1 fault or 1 status change | `Explained`, `Announced`, the liveness `Correlated`, and one open incident per key (`TypeOK`). The pairs appear one after another, so that one incident is opened, bumped and raised. Of `IncidentRules` TLC evaluates `RulesAsWritten` and `ScoreGrows` for the rules of the instances, rule 3 here and rule 1 in `IncidentWindow` (section 6); the other rules are only modelled, and `ScoreGrows` is proved for all five (`EvidenceOnlyRaises`) |
| `update_channel` | 2 hubs with a directory each or a shared one, 2 releases (one signed, with fewer platforms), 2 platforms, 1 agent with or without a key, 1 fault | `FilesMatch`, `OnlyUpward`, the liveness `FleetConverges`: releases are published and withdrawn while syncs and downloads are under way |
| `ebpf_attribution` | 3 calls, 2 elements of the map, ring of 1, tables of 2, 1 sample per report, 1 fault; three mixes of calls | `ExactButForRaces`, and the refinements `BytesLedger` and `AnswersLedger` with their progress. Every limit is smaller than what the calls need, so that eviction, a full ring, a full table and a cut-off report all happen; a third call can disturb two that race |
| `compliance` | 2 replicas, days of 2 hours, 4 hours, 3 records, 1 fault or the clock set back once, retention of 2 hours | `ChainLinks`, `RootsMatch`, `HoursSealed`, `FirstDayVerifies`: failures between all statements, hours that come twice, the retention that cuts the chain, concurrent append and concurrent seal |
| `scheduler` | 2 replicas, nightly job and a report, period 2, 3 time units, 1 fault | `NoBurst`, `NothingMissed`: two jobs in one sweep's list, a due time passed while nobody leads, two leaders during a takeover |

Where constants are small because of symmetry of the roles (workers, replicas, handlers), the instance has one more
than the smallest number that can disturb another one. Faults are counted: a fault is a crash, a failed statement
or a lost answer, and one or two of them at any place reach every error path of the code.

Four runs have a state constraint, which only leaves out combinations of independent disturbances. In `compliance` either the clock is set back or a
fault happens, not both, and two replicas are up together during the first two hours, with two records and no fault. In the two alert runs one condition
is there at a time: the next comes when nothing is left of the one before (no condition, event, cooldown, counter or excuse). In `alert_lifecycle` maintenance
windows change while at most one replica is up or before the first fault; in `alert_takeover` there is no fault as long as there is a trace of a counted condition, so that `AutoResolves` is
checked without faults for these, and with a fault for connections. No step with fairness is cut off by that: only a new condition or a fault is. In `incident` a behaviour has a fault or a status change, not both; this run
also checks a liveness property, which therefore says nothing of behaviours with both. Symmetry is used in `alert_lifecycle`, `compliance` and `enrollment`, which
check no liveness. `CHECK_DEADLOCK FALSE` stands where the bounds let
the model stop (all records, rows, calls or time units used up).

Depth of the properties: `LossIsCounted`, `AckedIsStored`, `LossTakesTwo`, `DuplicatesExcused`, `NoBurst`, `Explained`, `Announced`, `ExactButForRaces`,
`FilesMatch` and `FleetConverges` relate an effect to all the reasons that may excuse it (kept in a history variable where the state forgets them); the statement without
the excuse is among those refuted in section 6.

## 4 Fairness

Safety runs need none. The liveness properties assume, per module:

- `AgentQueue`: `WF(Loop)`: the process runs and its ticker fires. `QueueDrains` supposes `<>[]stable`, the hubs answer in the end.
- `AgentIdentity`: a supervisor restarts the process (`WF(Start)`), and a step that is possible again and again between crashes happens
  some time (`SF` on the steps of the loop): without it a process that always crashes before its first request could never do anything.
- `StoreWriter`: `WF(Runs)`, the steps of JetStream's ack timer and of the workers together: they never stop all at once, since every call has a
  timeout. A particular worker may hang for ever (then the timer requeues its messages, and another worker may have them).
- `Leader`: `WF` on the tick (the ticker of Run), on Release (statements with a timeout) and on `Reap` (PostgreSQL's keep-alives).
- `AlertLifecycle`: the election's fairness; the engine's ticker; `SF(TickBegins(r, Keys))` and `SF(AlertSweepBegins)` because all rules are evaluated at one tick in five (the agents concerned being online in the end)
  and the sweep is one tick in sixty; clocks run.
- `Scheduler`: the election's fairness, `WF` on the scheduler's steps and on the start of stopped replicas. Time itself needs none.

- `IncidentEngine`: the election's fairness and the engine's ticker; `WF(Engine(r))` for every replica, because each statement has a timeout.
  `Correlated` follows one alert that stays within its rule's window.
- `UpdateChannel`: `WF` on the sync of each hub and on the update loop of each agent: both are tickers that fire for ever. GitHub, failures and crashes have none.
- `EbpfAttribution`: a program that was entered runs to its end (the verifier admits no unbounded loop), and the tickers of drainLoop and of the telemetry loop, the
  blocking read of dnsLoop and Stop's wait go on. No call has to happen, nor has the policy to open or close.

Faults and operators have no fairness: they may happen, within the bounds, or not.

## 5 Proofs

`tlapm` checks every leaf. The assumptions are those the modules state about their constants
(`QueueAssumption`, `IdentityAssumption`, `EnrollmentAssumption`, `StoreWriterAssumption`, `LeaderAssumption`, `SchedulerAssumption`, `AlertAssumption`, `ComplianceAssumption`, `RulesAssumption`,
`EngineAssumption`, `ChannelAssumption`, `EbpfAssumption`, `KeysAssumption`), all of which TLC evaluates. They say that bounds are natural numbers, that markers
such as `None` are no members of the sets they stand beside, and that workers, replicas and the like are finite sets.

- **`EnrollmentProofs`** (any number of handlers, tokens, machines, any `max_uses`): `TypeCorrect`, `SlotsAccounted`,
  `UsesRespected`, `RevocationFinal`, `DeletionFinal`. `AtMostMaxUses` is not inductive: a handler that has consumed a use
  and not yet written its row is invisible to it. The invariant is `TypeOK /\ WellFormed /\ UsesBounded /\ SlotAccounting`: registrations
  completed plus handlers that hold a paid use never exceed the uses counted (`SlotAccounting`), and the counter never passes the limit
  (`UsesBounded`), because ConsumeEnrollToken tests and increments in one statement. The lemmas `HoldingStep` and `HoldingCard` follow the
  set of paying handlers through a step; `WellFormed` says that a handler about to update names a row.
  The second part of the module is about `AgentIdentity` (any number of hubs and faults, any threshold): `IdentityTypeCorrect`, `OneIdentity` (`DiskMatchesMemory`),
  `RegistryBounded` (`RowsBounded`). `RowsBounded` counts rows and does not say whose they are. The invariant names the identity the agent will go on with (`Kept`), calls all other
  rows orphans, and bounds those by the faults (`PaidFor`); a hello is only sent when nothing is kept, so that a new row replaces the kept one. This needs `Places` (where the
  identity is between two steps), `Distinct` (no two rows with one token; a fresh token exists by the pigeonhole principle, `FreshToken`), and for the type of the streak `Streaks`
  (it passes the threshold only by faults).
- **`LeaderRolesProofs`** (any replicas and any number of faults) has three parts that share `ElectionInv`.
  - `Leader`: `LeaderTypeCorrect`, `StaleLeadersAreBroken`, `SplitNeedsBreak`. The invariant adds `MemoryFirst`: a replica that is releasing its session has already cleared
    its memory, which is the order of the two halves of drop.
  - `Scheduler` (any jobs, any recurrence): `TypeCorrect`, `RunsOncePerOccurrence` (`NoBurst`). `NoBurst` looks back at the runs and says nothing of the row that decides when a job
    runs again. `JobOK` does, for jobs without an excuse: one replica has the job in hand; what it still has in hand is still due at the time of its sweep; the row is ahead of all
    runs (`Covered`), but for the run whose update is under way. The lemmas `NextRunLater` and `NextRunGrows` say of the recurrences what this needs: the next run is later, later times
    have later next runs, and runs at or after the next run are a recurrence apart.
  - `AlertLifecycle` (any conditions and events): `AlertsTypeCorrect`, `DuplicatesAreExcused` (`DuplicatesExcused`). What makes an insert harmless is that one replica alone has decided on
    it (`Pending`) and there is still nothing to duplicate; `KeyOK` says so for each key without an excuse. `CountOK` keeps the counters of the bandwidth rules in their range.
- **`StoreWriterProofs`** (any workers, messages, parts and deliveries): `TypeCorrect`, `NothingLeavesUnaccounted` (`AckedIsStored`), `CommitsPerDelivery` (`OncePerDelivery`),
  `LossesTakeTwoLapses` (`LossTakesTwo`). An ack is given for what
  a worker remembers, not for what is in the store, so that the invariant adds `WorkerOK`: all parts before the present one are in the store, and
  every message waiting for its ack is complete there (`Grows`: no step ever takes a row out of the store). `DeliveryLeft` keeps the counter of deliveries in its range:
  what may be fetched has a delivery left. `OncePerDelivery` is an account: `Budget` says that the commits
  of a part, made or still due (`Due`: the workers that have it before them), are paid for by the commits of the part before it, those of the first part by the deliveries; `Holders` says that
  one worker holds a delivery, in one place. For `LossTakesTwo` the invariant `ReturnsExplained` accounts for the returns to the queue: each is a strike,
  or was made by an early delivery that nobody holds any more.
- **`ComplianceProofs`** (any replicas, records, faults, clock changes): `TypeCorrect`, `ChainNeverForks` (`ChainLinks`), `CheckpointsMatch` (`RootsMatch`), `NoHourLeftOut` (`HoursSealed`), `EvidenceVerifies` (`FirstDayVerifies`).
  `ChainLinks` is not inductive: an insert must know that the hash read earlier is still that of the last row. The invariant adds `Exclusive` (who is between lock and commit holds the
  lock) and `PrevIsLast` (what it read is the last row's hash, as long as the retention leaves that row). `LastHashType` needs a greatest element of a set of naturals, which comes
  from the well-foundedness of `<`. For the checkpoints, `SInv` says of a sealer between two statements (`SealerOK`) that
  the hour it seals has ended, that the list it has read is still that of the hour, and that past the hour step it needs no checkpoint any more; of the stored checkpoints (`CheckpointsOK`) that their hours
  have ended; and without faults (`InTime`) that somebody is up and all hours before the previous one are done with. The rows are read in an order that the model gets from an operator (`OrderBy`); the lemmas about it say that the order depends on the set of
  rows alone, so that two reads of the same rows have the same root, whatever `MerkleRoot` computes of them.
  `FirstDayVerifies` compares what sealers wrote hours apart with what a bundle holds at its end, under a condition on the state (`First`: nothing failed, deleted, late or sealed
  twice). The condition is not undone by a step (`FirstBefore`: if it holds after a step it held before), so that the invariant may assume it: `FirstInv` is `First => FirstOK`. `FirstOK` says that
  the rows of the first day are the beginning of the chain (`FirstRows`), that its hours are sealed in their order (`InTurn`), so that each checkpoint is linked to the last one before
  it (`Linked`) and that the roots no longer change once its last hour is done with (`RootsStay`); therefore the seal says what the checkpoints say, from the reading of the roots on (`DaySeals`). `SealedOnce` leaves one
  sealer that exports the day (`Exported`), and a tick that ends in the half hour after 00:05 leaves the day sealed, so that the half hour cannot pass without (`SealedInTime`).
- **`AgentQueueProofs`** (any pool, cap, horizon and number of faults): `TypeCorrect`, `QueueKept` (`QueueInOrder`), `LossesCounted` (`LossIsCounted`).
  `LossIsCounted` speaks of what is lost, which no step can bound by itself. The invariant says where things are instead: `Shape` (what the loop holds at each place, above all that nothing
  but Send's own slices is in memory between two turns), `FileInHand` (while Send runs, whatever is in the file is delivered, dropped or in memory, so that truncating it is
  safe but for a crash), `SavedOnDisk`, and `Accounted`: without a fault `1..clock` is covered by delivered, held and dropped, and the counter bounds what was dropped.
- **`UpdateChannelProofs`** (any hubs, directories, agents, platforms, releases and faults): `TypeCorrect`, `MirrorsConsistent` (`FilesMatch`), `NeverDowngraded` (`OnlyUpward`).
  `FilesMatch` only speaks of directories at rest; the invariant `HInv` adds how far a sync has come that nobody disturbed (`Progress`: what it has fetched is in the files, what it has
  written is in the temporary manifest) and that a disturbed one has marked its directory (`SpoiledOK`). For the agents, `AgentOK` says of each place between check and restart what the
  staged file is: a whole build, newer, and signed for an agent with a key (`SignedOK`: a manifest is called signed only when its release is).
- **`IncidentProofs`** (any alerts, rules, windows, replicas, faults and status changes): `EvidenceOnlyRaises` (the second fact about `IncidentRules` that TLC evaluates: more evidence never lowers
  severity or risk), `TypeCorrect` (with the single open incident per key), `SeverityExplained` (`Explained`), `RisesAnnounced` (`Announced`). The proof of `Explained` needs
  the monotonicity: evidence arrives piece by piece after the row was raised, so the invariant compares the row with what is attached together with what each engine still has to add.
  `Announced` needs that a replica between bump and notice carries the flag for the row it has raised, although another one may have raised it further meanwhile.
- **`EbpfAttributionProofs`** (any number of calls, so of CPUs, of contexts, elements, limits and faults): `TypeCorrect`, `CountingExact` (`ExactButForRaces`), `BytesSafety` and `AnswersSafety`, the
  **refinements** `Spec => Bytes!Safety` and `Spec => Answers!Safety` (initial states to initial states, every step to a step of the ledger or a stutter). The argument follows the bytes of one call: `Places(c)` are where they are, and
  each action does one of four things to it (`MovesOf`: they stay, come, pass on under the same label, or go). `MovesSingle` shows that these keep the bytes in one place, `MovesLedger` that they are moves
  of the ledger, `ExactStep` that they keep the counting exact when what goes is excused. The invariant adds `MapOK` (one element per flow, a free element holds nothing), `TakenOK` (a drain does not take twice what
  it has taken: this is what makes the second pass harmless) and `Races` (a program whose look-up is no longer true was marked when that became so).
  The DNS answers have the same argument over their own places (`AnswerPlaces`); the places come from a table and from what has been sent of it, so that the invariant (`AnswersOK`, `AnswerSingle`) says that what
  was sent stays in the table, that an answer in the ring is in no table, and that one not sent yet is under one name and was not reported.

Only model-checked: the liveness properties, among them the ledger's progress, and everything that rests on ENABLED (the prover has no rules for them); facts about recursive functions for
every input (`MerkleRoot`: the theorems use that equal lists have equal roots and nothing of what a root is; that different lists have different ones, without which
a comparison of roots would show little, comes from the terms and from TLC's runs alone).

## 6 Disagreements found

The modules also state what comments and documents say, or what one might take for granted, where TLC refutes it. These statements are kept next
to the weaker property that does hold, because they show why the latter has its excuse. To reproduce one, take the configuration in the last column, replace its
properties by the one named, leave out CONSTRAINT and SYMMETRY, and run `tlc -config <configuration>.cfg <MC module>`; the two `Compliance...` configurations and
`IncidentWindow`, which need another instance, have files of their own.

| property | the code | what one might expect | configuration |
|---|---|---|---|
| `LatestMovesForward` | an old batch re-posted after a newer one replaces the connection table | it is the latest one | `MCAgentQueue` |
| `SavedIsKept` | the queue file is truncated and rewritten: a crash loses what was safe | batches are kept while there is no connection (`agent.go:2-3`) | `MCAgentQueue` |
| `AcceptedTokenIsLive` | the UPDATE of a reused row does not look whether the row is still there | the hello returns the agent's persistent token | `MCEnrollment` |
| `ReuseSparesOnline` | online is tested on the row of the SELECT | a matching row online always means a new row | `MCEnrollment`, `MaxSecrets = 3` |
| `ArchiveSparesSeen` | the archiver does not test `last_seen` again | only agents not seen for long are deleted | `MCEnrollment` |
| `NoOrphanSamples` | a batch authenticated before the delete is saved after it | no orphaned rows | `MCEnrollment` |
| `DiscardsOnlyDead` | every error of the look-up answers 401 | 401 means the token is not valid any more | `MCAgentIdentity` |
| `OneRowPerMachine` | a lost hello answer is followed by a second hello at once | a machine's row is refreshed | `MCAgentIdentity` |
| `ExhaustedIsInDLQ` | deliveries that time out use up `maxDeliver` without a copy in the DLQ | nothing is dropped silently | `MCStoreWriter` |
| `DLQAfterMaxDeliver` | a message is dead-lettered at its last but one delivery | after `MaxDeliver` | `MCStoreWriter` |
| `OneLeader` | leadership is answered from memory between two ticks | exactly one replica runs the role | `MCLeader` |
| `OneOpenEvent` | a failed look-up counts as "no open event" | a repetition never opens a new row | `MCAlertLifecycle` |
| `ResolvedIsClosed` | the bump does not look at the state | it bumps an open event | `MCAlertLifecycle` |
| `ResolveClearsCooldown` | the cooldown is cleared on the replica that serves the request | resolve clears the cooldown | `MCAlertLifecycle` |
| `BandwidthReported` | a bandwidth rule fires once, at the tick at which its counter equals the limit (`alert.go:427`, `435`, `636`, `646`): a failed insert, a cooldown at that tick, or the auto-resolve of the event that nothing repeats leaves a lasting exceedance without an open event | an event that is resolved while its condition goes on is opened again (`docs/ALERTING.md:30-32`) | `MCAlertTakeover` |
| `NothingRemains` | only the hub's own counters are reset while another replica leads, not `agentBw` | no remains of the past trigger an alert after a takeover (`alert.go:350-351`) | `MCAlertTakeover` |
| `SecondDayVerifies` | verification starts every bundle with an empty previous hash | any range verifies | `ComplianceSecondDay` |
| `TwoDaysVerify` | every daily root is compared with all hourly roots of the bundle | a month verifies | `ComplianceTwoDays` |
| `OneCheckpointPerHour` | check and insert of a checkpoint are two statements on every replica | idempotent | `MCCompliance` |
| `SealedIsExported` | the daily seal is stored before the package is written | idempotent | `MCCompliance` |
| `EveryHourSealed` | only the hour before the present one is ever sealed | hourly slices are sealed | `MCCompliance` |
| `DriftIsReported` | the alarm looks at the hour being sealed, which lies in the past | drift is reported | `MCCompliance` |
| `OneNightlyJob` | EnsureJob checks and then inserts, on every replica that starts | the job is created once | `MCScheduler` |
| `MailedOnce` | the row is updated after the handler, and leadership asked once per sweep | a report is not mailed twice | `MCScheduler` |
| `CountsAreExact` | two CPUs create the same entry, and the second update replaces the first; a program adds to an entry already drained | byte counts are exact (`docs/decisions/0007`) | `MCEbpfAttribution` |
| `UnderTheirFlow` | an element reused for another flow is added to through the old pointer | bytes are those of the call's flow | `MCEbpfAttribution` |
| `DomainsComplete` | a full table of names takes no new ones, and is never emptied | domain visibility is complete (`ebpfattr.go:201`) | `MCEbpfAttribution` |
| `ClosedStays` | the bump is by id, whatever the status is by then | it refreshes an open incident (`store/incidents.go:106`) | `MCIncidentEngine` |
| `AnnouncedAtLast` | after a crash or a failed read the notice is never made up for: the next tick finds nothing raised | new and raised incidents are announced (`engine.go:28`) | `MCIncidentEngine` |
| `WithinWindow` | two pairs that share an alert are joined although their ends lie further apart | evidence lies within five minutes (`docs/decisions/0011`) | `IncidentWindow` |
| `NextRoundRepairs` | a manifest that names the release already ends every later sync, whatever the files hold | on an error it tries again in the next round (`githubsync.go:236`) | `MCUpdateChannel` |
| `SignaturesPass` | when the signed manifest cannot be fetched an unsigned one is written, and kept | signatures are passed on (`githubsync.go:11-14`) | `MCUpdateChannel` |
| `BinaryInPlace` | the old binary is moved away before the new one is moved in, on every system | on Unix it is one atomic rename (`update.go:211`) | `MCUpdateChannel` |

## 7 What is not modelled

Wording, formats, rendering and read-only queries; the decoding of flow packets, SNMP and FortiGate answers; cryptography (hashes are terms,
tokens are values, certificates are taken to verify); on the agent, pcap capture, ETW on Windows, the TLS names and process names; the language models; the web panel; the load generator.
`PROJECT.json` lists every component with what is left out of it and why. Its hazards are those of the modelled components; those of the parts still to come are in section 8.

`src/internal/agent/bpf/vmlinux.h` (152 343 lines) is a dump of the kernel's types generated by `bpftool`: declarations without behaviour, of which `attr.c` reads a
handful of fields (those are the context of a call in `EbpfAttribution`). There is nothing in it to model, so a share of mapped lines that counts it, as one over the C sources of
the repository does, stays near zero although `attr.c` is mapped entirely; the program itself is the Go code under `src/internal` and `src/cmd`.

## 8 Plan

In the order of what matters to the system:

1. The other edge-triggered rules of the alert engine (`alert.go:492`, `forti.go`: an edge is marked as seen before it is fired, so that a crash or a failed insert loses it; `alert/iface.go`: a counter like that of the bandwidth) with
   one ticket per correlation group (`alert.go:769`: two events may both open an issue before either reference is stored), as `AlertRules` over `AlertLifecycle`.
2. Device poller (`DevicePoller`): bounded pool, abandoned polls (`devpoll/poller.go:141`), change of the leader.
3. Users and sessions (`Sessions`), the audit chain, login attempts; migrations (`Migrations`).
4. An abstract `IngestLedger` (each batch is stored at least once, or counted as dropped, or dead-lettered) implemented by the
   composition of `AgentQueue` and `StoreWriter`, in the way `EbpfAttribution` implements `Ledger`; the publishing side of the queue.
5. Recurrences with weekly and monthly calendars and durations with their width (an interval of more than 153 722 867 minutes overflows
   `time.Duration`, `scheduler/recurrence.go:34`), against a reference definition; Merkle trees of any shape against a reference definition.
6. Flow template cache; retention beside writers; capture and the pcap helper.
