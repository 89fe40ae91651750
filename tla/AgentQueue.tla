------------------------------ MODULE AgentQueue ------------------------------
(***************************************************************************)
(* The agent's telemetry loop and its offline disk queue                   *)
(* (internal/agent/agent.go: Send, loadQueue, saveQueue, postBatch,        *)
(* withFailover).  Every interval the agent collects one batch, first      *)
(* re-posts what is waiting in <state>.queue.jsonl, rewrites that file     *)
(* with what still failed, then posts the new batch; a batch that cannot   *)
(* be posted is appended to the queue, whose oldest entries are dropped    *)
(* and counted beyond maxQueuedBatches.                                    *)
(*                                                                         *)
(* A batch is identified by its timestamp.  The hub side is what the       *)
(* handler of /api/v1/agent/telemetry leaves behind: the set of batches it *)
(* accepted and the batch agent_conn_latest was last replaced from.        *)
(***************************************************************************)
EXTENDS Naturals, Sequences, FiniteSets, SequencesExt

CONSTANTS
  Pool,              \* number of hub URLs in the failover pool
  MaxQueuedBatches,  \* agent.go: maxQueuedBatches
  Horizon,           \* bound: stamps run 1..Horizon, later batches share the last one
  MaxFaults          \* bound: crashes and failed file writes in a behaviour

ASSUME QueueAssumption ==
  /\ Pool \in Nat \ {0}
  /\ MaxQueuedBatches \in Nat \ {0}
  /\ Horizon \in Nat \ {0}
  /\ MaxFaults \in Nat

VARIABLES
  pc,         \* where the loop is; "down" while the process is not running
  clock,      \* stamp of the last batch collected
  batch,      \* the batch this Send was called with
  todo,       \* queued batches Send has still to re-post
  queue,      \* Send's local slice: what stays queued
  trunc,      \* os.WriteFile has truncated the file and not written it yet
  dropped,    \* Client.dropped
  hubIdx,     \* Client.hubIdx
  disk,       \* contents of the queue file
  stable,     \* the network and the hubs answer every request
  received,   \* batches a hub has accepted
  connLatest, \* the batch agent_conn_latest holds (0: none yet)
  faults,     \* faults so far
  saved,      \* history: batches that were completely written to the file
  overflowed, \* history: batches dropped at the cap
  torn        \* history: a write of the file was cut short

mem    == <<pc, batch, todo, queue, trunc, dropped, hubIdx>>
hub    == <<received, connLatest>>
ghosts == <<saved, overflowed, torn>>
vars   == <<clock, mem, disk, stable, hub, faults, ghosts>>

Batch == 1..Horizon

Init ==
  /\ pc = "idle" /\ clock = 0 /\ batch = 0
  /\ todo = <<>> /\ queue = <<>> /\ trunc = FALSE
  /\ dropped = 0 /\ hubIdx = 0
  /\ disk = <<>>
  /\ stable \in BOOLEAN
  /\ received = {} /\ connLatest = 0
  /\ faults = 0
  /\ saved = {} /\ overflowed = {} /\ torn = FALSE

-----------------------------------------------------------------------------
(* The request: one pass of withFailover over the pool.                    *)

MutHubAfter(k) == hubIdx + k
\* The URL that answered is tried first the next time.
HubAfter(k) == (hubIdx + k) % Pool

\* The first k URLs fail; k = Pool means that all of them did.  "applied" says
\* that a failing attempt reached its hub: the batch was accepted there and
\* only the answer was lost or unreadable.  A success moves hubIdx.
postBatch(b, k, applied) ==
  /\ stable => k = 0
  /\ applied => k > 0
  /\ hubIdx' = IF k < Pool THEN HubAfter(k) ELSE hubIdx
  /\ IF k < Pool \/ applied
       THEN received' = received \cup {b} /\ connLatest' = b
       ELSE UNCHANGED hub

\* The cap: how many of the oldest entries of q go beyond it, and what stays.
Overflow(q) == IF Len(q) > MaxQueuedBatches THEN Len(q) - MaxQueuedBatches ELSE 0
Capped(q) == SubSeq(q, Overflow(q) + 1, Len(q))

MutUncounted(n) == dropped
CountDropped(n) == IF dropped + n > Horizon THEN Horizon ELSE dropped + n

-----------------------------------------------------------------------------
(* The loop.                                                               *)

\* The timer fires: Collect, then Send starts by loading the queue file.
Collect ==
  /\ pc = "idle"
  /\ clock' = IF clock < Horizon THEN clock + 1 ELSE clock
  /\ batch' = clock'
  /\ todo' = disk /\ queue' = <<>>
  /\ pc' = IF disk = <<>> THEN "post" ELSE "drain"
  /\ UNCHANGED <<trunc, dropped, hubIdx, disk, stable, hub, faults, ghosts>>

\* What stays queued after one re-post: the batch itself when it failed.
MutKeepAlways(b, failed) == Append(queue, b)
MutKeepInFront(b, failed) == IF failed THEN <<b>> \o queue ELSE queue
Keep(b, failed) == IF failed THEN Append(queue, b) ELSE queue

\* One turn of the drain loop; after the last one the file is rewritten.
Drain ==
  /\ pc = "drain"
  /\ \E k \in 0..Pool, applied \in BOOLEAN :
       /\ postBatch(Head(todo), k, applied)
       /\ queue' = Keep(Head(todo), k = Pool)
  /\ todo' = Tail(todo)
  /\ pc' = IF Tail(todo) = <<>> THEN "drained" ELSE "drain"
  /\ UNCHANGED <<clock, batch, trunc, dropped, disk, stable, faults, ghosts>>

\* The new batch: posted, or appended to the queue under the cap.
PostNew ==
  /\ pc = "post"
  /\ \E k \in 0..Pool, applied \in BOOLEAN :
       /\ postBatch(batch, k, applied)
       /\ IF k < Pool
            THEN /\ pc' = "idle" /\ queue' = <<>>
                 /\ UNCHANGED <<dropped, overflowed>>
            ELSE LET q == Append(queue, batch) IN
                 /\ queue' = Capped(q)
                 /\ dropped' = CountDropped(Overflow(q))
                 /\ overflowed' = overflowed \cup (ToSet(q) \ ToSet(Capped(q)))
                 /\ pc' = "queued"
  /\ UNCHANGED <<clock, batch, todo, trunc, disk, stable, faults, saved, torn>>

-----------------------------------------------------------------------------
(* saveQueue: os.WriteFile truncates the file, then writes it.             *)

Saving == pc \in {"drained", "queued"}

AfterSave ==
  /\ pc' = IF pc = "drained" THEN "post" ELSE "idle"
  /\ queue' = IF pc = "drained" THEN queue ELSE <<>>

Truncate ==
  /\ Saving /\ ~trunc
  /\ trunc' = TRUE /\ disk' = <<>>
  /\ UNCHANGED <<clock, pc, batch, todo, queue, dropped, hubIdx, stable, hub, faults, ghosts>>

Write ==
  /\ Saving /\ trunc
  /\ trunc' = FALSE /\ disk' = queue
  /\ saved' = saved \cup ToSet(queue)
  /\ AfterSave
  /\ UNCHANGED <<clock, batch, todo, dropped, hubIdx, stable, hub, faults, overflowed, torn>>

\* The directory or the file cannot be opened (the old contents stay), or the
\* write stops after some lines (disk full): logged, and Send goes on.
SaveFails ==
  /\ Saving /\ faults < MaxFaults
  /\ faults' = faults + 1
  /\ IF trunc THEN \E n \in 0..Len(queue) : disk' = SubSeq(queue, 1, n)
              ELSE UNCHANGED disk
  /\ trunc' = FALSE /\ torn' = (torn \/ trunc)
  /\ AfterSave
  /\ UNCHANGED <<clock, batch, todo, dropped, hubIdx, stable, hub, saved, overflowed>>

\* The process dies at any point.  A line cut short is skipped by loadQueue, so
\* a write cut short leaves a prefix of the queue.
Crash ==
  /\ pc # "down" /\ faults < MaxFaults
  /\ faults' = faults + 1
  /\ pc' = "down" /\ batch' = 0 /\ todo' = <<>> /\ queue' = <<>>
  /\ trunc' = FALSE /\ torn' = (torn \/ trunc)
  /\ dropped' = 0 /\ hubIdx' = 0
  /\ IF trunc THEN \E n \in 0..Len(queue) : disk' = SubSeq(queue, 1, n)
              ELSE UNCHANGED disk
  /\ UNCHANGED <<clock, stable, hub, saved, overflowed>>

Restart ==
  /\ pc = "down" /\ pc' = "idle"
  /\ UNCHANGED <<clock, batch, todo, queue, trunc, dropped, hubIdx, disk, stable, hub, faults, ghosts>>

\* The network or the hubs come and go.
Outage ==
  /\ stable' = ~stable
  /\ UNCHANGED <<clock, mem, disk, hub, faults, ghosts>>

Loop == Collect \/ Drain \/ PostNew \/ Truncate \/ Write \/ Restart
Next == Loop \/ SaveFails \/ Crash \/ Outage

\* The loop is one goroutine whose timer is re-armed on every turn, and the
\* service manager restarts a dead process.
Spec == Init /\ [][Next]_vars /\ WF_vars(Loop)

-----------------------------------------------------------------------------
(* Properties.                                                             *)

TypeOK ==
  /\ pc \in {"idle", "drain", "drained", "post", "queued", "down"}
  /\ clock \in 0..Horizon /\ batch \in 0..Horizon
  /\ todo \in Seq(Batch) /\ queue \in Seq(Batch) /\ disk \in Seq(Batch)
  /\ trunc \in BOOLEAN /\ stable \in BOOLEAN
  /\ dropped \in 0..Horizon /\ hubIdx \in 0..Pool-1
  /\ received \subseteq Batch /\ connLatest \in 0..Horizon
  /\ faults \in 0..MaxFaults
  /\ saved \subseteq Batch /\ overflowed \subseteq Batch /\ torn \in BOOLEAN

\* What the process still holds in memory and will post or save.
InMemory == ToSet(queue) \cup ToSet(todo)
              \cup (IF pc \in {"drain", "drained", "post"} THEN {batch} ELSE {})

\* The queue is bounded and in the order of collection, whatever failed, was
\* re-posted or was cut short, and also when a crash left an old file behind that
\* is loaded and appended to again: the hub gets an outage's batches oldest first,
\* and "the oldest" is what the cap drops (agent.go:376-395).
InOrder(q) == \A i, j \in DOMAIN q : i < j => q[i] <= q[j]
QueueInOrder ==
  /\ InOrder(disk) /\ InOrder(queue \o todo)
  /\ Len(disk) <= MaxQueuedBatches
  /\ Len(queue) + Len(todo) <= MaxQueuedBatches

\* "The queue on disk keeps the batches while there is no connection"
\* (agent.go:2-3): what was once completely written to the file is delivered,
\* dropped at the cap, still in the file, or held by the Send that is rewriting it.
SavedIsKept ==
  saved \subseteq received \cup overflowed \cup ToSet(disk)
                    \cup (IF pc \in {"down", "idle"} THEN {} ELSE InMemory)

\* Without a fault, every batch ever collected was accepted by a hub, is still
\* held, or was dropped at the cap and is visible in DroppedBatches
\* (agent.go:68-79): no outcome of the requests loses one silently, and the cap
\* gives up only what is older than everything still queued (agent.go:388-391).
\* With faults, a batch that reached the file is lost only if a rewrite of the
\* file itself was cut short: a crash at any other point, or a save that fails
\* before it truncates, loses none (agent.go:437).
LossIsCounted ==
  /\ faults = 0 =>
       LET lost == (1..clock) \ (received \cup InMemory \cup ToSet(disk)) IN
       /\ lost \subseteq overflowed
       /\ Cardinality(lost) <= dropped
       /\ \A d \in overflowed, b \in InMemory \cup ToSet(disk) : d <= b
  /\ ~torn => SavedIsKept

\* Once the hubs answer again for good, everything the outage left in the queue
\* file is delivered and the file stays empty, and the socket table that re-posts
\* and lost answers had taken back to an older batch is the agent's newest again
\* whenever no Send is running (agent.go:374-397).
QueueDrains ==
  <>[]stable => <>[](/\ disk = <<>> /\ todo = <<>>
                     /\ pc = "idle" => connLatest = clock)

\* agent_conn_latest is the agent's newest socket table: it is never replaced
\* from an older batch than the one it holds (store/agents.go:146).
LatestMovesForward == [][connLatest' >= connLatest]_connLatest

=============================================================================
