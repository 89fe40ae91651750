--------------------------- MODULE AlertLifecycle ---------------------------
(***************************************************************************)
(* The life of an alert event (internal/alert/alert.go, store/alerts.go):  *)
(* the engine of the leading replica evaluates its rules, records what     *)
(* fires as one open event per (kind, key), counts its repetitions in that *)
(* event, keeps quiet during maintenance windows and cooldowns, and        *)
(* resolves events that no longer repeat; operators acknowledge and        *)
(* resolve events on any replica.                                          *)
(*                                                                         *)
(* Rules are of two kinds.  Those about connections fire at every          *)
(* evaluation that finds the condition; those about bandwidth count the    *)
(* evaluations in a row and fire once, when the counter reaches its limit. *)
(*                                                                         *)
(* Leadership is that of module Leader.  What is per replica (counters,    *)
(* cooldown, the copy of the maintenance windows) and what is in the       *)
(* database (the events, the windows) are kept apart; each database        *)
(* statement is a step, and one that fails counts as a fault.              *)
(***************************************************************************)
EXTENDS Leader

CONSTANTS
  Keys,           \* (kind, key) pairs
  Bandwidth,      \* those of checkBandwidth
  AgentBandwidth, \* those of checkAgentBandwidth; all others are about connections
  Need,           \* Bandwidth.Seconds: evaluations in a row
  Silenceable,    \* those that operators put under a maintenance window
  Ids,            \* bound: rows of alert_events at any time
  NoRow

Counted == Bandwidth \cup AgentBandwidth

ASSUME AlertAssumption ==
  /\ Silenceable \subseteq Keys /\ Counted \subseteq Keys
  /\ Need \in Nat \ {0} /\ IsFiniteSet(Ids)

VARIABLES
  rows,     \* alert_events: the key of an event, its state, whether it is stale
  silences, \* alert_silences: the keys under an active window
  cond,     \* keys whose threshold is exceeded, or whose port is in use, now
  engine,   \* what run() of each replica is doing
  count,    \* bwInCount, bwOutCount, agentBw, per replica; Need stands for "or more"
  cool,     \* Manager.lastFire: keys in cooldown, per replica
  cache,    \* Manager.silences, per replica
  clearing, \* resolve requests that have not yet cleared the cooldown, per replica
  exempt   \* history: keys that something could make appear twice

replicaVars == <<engine, count, cool, cache, clearing>>
alertVars == <<leaderVars, rows, silences, cond, replicaVars, exempt>>

Row == [key : Keys, state : {"firing", "ack", "resolved", "silenced"}, stale : BOOLEAN]

Away == [at |-> "away", todo |-> {}, key |-> None, ids |-> {}]

AlertInit ==
  /\ LeaderInit
  /\ rows = [i \in Ids |-> NoRow]
  /\ silences = {} /\ cond = {} /\ exempt = {}
  /\ engine = [r \in Replicas |-> Away]
  /\ count = [r \in Replicas |-> [k \in Counted |-> 0]]
  /\ cool = [r \in Replicas |-> {}]
  /\ cache = [r \in Replicas |-> {}]
  /\ clearing = [r \in Replicas |-> {}]

MutIsOpen(i) == rows[i] # NoRow /\ rows[i].state = "firing"
\* state IN ('firing','ack').
IsOpen(i) == rows[i] # NoRow /\ rows[i].state \in {"firing", "ack"}
Open(k) == {i \in Ids : IsOpen(i) /\ rows[i].key = k}

\* Ids are never used again while somebody remembers them.
Free == {i \in Ids : rows[i] = NoRow /\ \A r \in Replicas : i \notin engine[r].ids}

At(r, place) == engine[r].at = place
\* The rule just evaluated is done: on to the next one.
Done(r) == [engine[r] EXCEPT !.at = "tick", !.key = None, !.ids = {}]

\* The processes of S end, and with them what they had in memory.
Forgotten(S) ==
  /\ engine' = [r \in Replicas |-> IF r \in S THEN Away ELSE engine[r]]
  /\ count' = [r \in Replicas |-> IF r \in S THEN [k \in Counted |-> 0] ELSE count[r]]
  /\ cool' = [r \in Replicas |-> IF r \in S THEN {} ELSE cool[r]]
  /\ cache' = [r \in Replicas |-> IF r \in S THEN {} ELSE cache[r]]

Insert(k, s) ==
  \E i \in Free : rows' = [rows EXCEPT ![i] = [key |-> k, state |-> s, stale |-> FALSE]]

-----------------------------------------------------------------------------
(* run: one tick of the engine.                                            *)

\* The counters after the rules of E were evaluated.
Counts(r, E) ==
  [k \in Counted |-> IF k \notin E THEN count[r][k]
                     ELSE IF k \notin cond THEN 0
                     ELSE IF count[r][k] < Need THEN count[r][k] + 1 ELSE Need]

\* What the rules of E fire: a counted one when its counter reaches Need, and no more
\* after that; any other one each time.
Fires(r, E) == {k \in E \cap cond : k \in Counted => count[r][k] = Need - 1}

\* The bandwidth of the hub is evaluated at every tick, the other rules at one in
\* five, those of an agent only while it is online.
TickBegins(r, E) ==
  /\ r \in up /\ At(r, "away") /\ IsLeader(r)
  /\ Bandwidth \subseteq E
  /\ engine' = [engine EXCEPT ![r].at = "tick", ![r].todo = Fires(r, E)]
  /\ count' = [count EXCEPT ![r] = Counts(r, E)]
  /\ UNCHANGED <<leaderVars, rows, silences, cond, cool, cache, clearing, exempt>>

\* A tick without leadership resets the counters of the hub, not those of the agents.
FollowerTick(r) ==
  /\ r \in up /\ At(r, "away") /\ ~IsLeader(r)
  /\ \E k \in Bandwidth : count[r][k] # 0
  /\ count' = [count EXCEPT ![r] = [k \in Counted |-> IF k \in Bandwidth THEN 0 ELSE @[k]]]
  /\ UNCHANGED <<leaderVars, rows, silences, cond, engine, cool, cache, clearing, exempt>>

\* Two replicas that both saw no open event of k may both insert one.
Overlap(r, k) == \E q \in Replicas \ {r} : engine[q].at \in {"absent", "insert"} /\ engine[q].key = k

\* fireCtx: OpenAlertEventByKey.
Query(r) ==
  /\ At(r, "tick")
  /\ \E k \in engine[r].todo :
       IF Open(k) # {}
         THEN /\ \E i \in Open(k) :
                   engine' = [engine EXCEPT ![r] =
                     [at |-> "found", todo |-> @.todo \ {k}, key |-> k, ids |-> {i}]]
              /\ UNCHANGED exempt
         ELSE /\ engine' = [engine EXCEPT ![r] =
                   [at |-> "absent", todo |-> @.todo \ {k}, key |-> k, ids |-> {}]]
              /\ exempt' = IF Overlap(r, k) THEN exempt \cup {k} ELSE exempt
  /\ UNCHANGED <<leaderVars, rows, silences, cond, count, cool, cache, clearing>>

\* An error of the query is logged and taken for "no open event".
QueryFails(r) ==
  /\ At(r, "tick")
  /\ Fault
  /\ \E k \in engine[r].todo :
       /\ engine' = [engine EXCEPT ![r] =
            [at |-> "absent", todo |-> @.todo \ {k}, key |-> k, ids |-> {}]]
       /\ exempt' = exempt \cup {k}
  /\ UNCHANGED <<up, lock, releasing, holder, broken, rows, silences, cond, count, cool, cache, clearing>>

\* BumpAlertEvent: by id, whatever the event's state is by now.
Bump(r) ==
  /\ At(r, "found")
  /\ rows' = [i \in Ids |-> IF i \in engine[r].ids /\ rows[i] # NoRow
                             THEN [rows[i] EXCEPT !.stale = FALSE] ELSE rows[i]]
  /\ engine' = [engine EXCEPT ![r] = Done(r)]
  /\ UNCHANGED <<leaderVars, silences, cond, count, cool, cache, clearing, exempt>>

\* A maintenance window: the event is recorded as silenced.
InsertSilenced(r) ==
  /\ At(r, "absent")
  /\ engine[r].key \in cache[r]
  /\ Insert(engine[r].key, "silenced")
  /\ engine' = [engine EXCEPT ![r] = Done(r)]
  /\ UNCHANGED <<leaderVars, silences, cond, count, cool, cache, clearing, exempt>>

InCooldown(r) ==
  /\ At(r, "absent")
  /\ engine[r].key \in cool[r] \ cache[r]
  /\ engine' = [engine EXCEPT ![r] = Done(r)]
  /\ UNCHANGED <<leaderVars, rows, silences, cond, count, cool, cache, clearing, exempt>>

\* lastFire is set before the event is inserted.
StartCooldown(r) ==
  /\ At(r, "absent")
  /\ engine[r].key \notin cool[r] \cup cache[r]
  /\ cool' = [cool EXCEPT ![r] = @ \cup {engine[r].key}]
  /\ engine' = [engine EXCEPT ![r].at = "insert"]
  /\ UNCHANGED <<leaderVars, rows, silences, cond, count, cache, clearing, exempt>>

InsertFiring(r) ==
  /\ At(r, "insert")
  /\ Insert(engine[r].key, "firing")
  /\ engine' = [engine EXCEPT ![r] = Done(r)]
  /\ UNCHANGED <<leaderVars, silences, cond, count, cool, cache, clearing, exempt>>

Writes(r) ==
  \/ At(r, "found") \/ At(r, "insert")
  \/ At(r, "absent") /\ engine[r].key \in cache[r]

\* An update or an insert fails: logged, and the rule is done.
WriteFails(r) ==
  /\ Writes(r)
  /\ Fault
  /\ engine' = [engine EXCEPT ![r] = Done(r)]
  /\ UNCHANGED <<up, lock, releasing, holder, broken, rows, silences, cond, count, cool, cache, clearing, exempt>>

\* Bound: with all Ids in use an insert does nothing.
TableFull(r) ==
  /\ Writes(r) /\ ~At(r, "found") /\ Free = {}
  /\ engine' = [engine EXCEPT ![r] = Done(r)]
  /\ UNCHANGED <<leaderVars, rows, silences, cond, count, cool, cache, clearing, exempt>>

\* sweepAutoResolve, one tick in sixty: the open events older than the cutoff ...
AlertSweepBegins(r) ==
  /\ At(r, "tick") /\ engine[r].todo = {}
  /\ \E S \in {{i \in Ids : IsOpen(i) /\ rows[i].stale}} :
       /\ S # {}
       /\ engine' = [engine EXCEPT ![r].at = "sweep", ![r].ids = S]
  /\ UNCHANGED <<leaderVars, rows, silences, cond, count, cool, cache, clearing, exempt>>

Resolved(i) == [rows EXCEPT ![i] = IF IsOpen(i) THEN [@ EXCEPT !.state = "resolved"] ELSE @]

MutSwept(r, i) == rows
Swept(r, i) == Resolved(i)

\* ... are resolved one by one.
Sweep(r) ==
  /\ At(r, "sweep")
  /\ \E i \in engine[r].ids :
       /\ rows' = Swept(r, i)
       /\ cool' = [cool EXCEPT ![r] = IF rows[i] = NoRow THEN @ ELSE @ \ {rows[i].key}]
       /\ engine' = [engine EXCEPT ![r] = IF engine[r].ids = {i} THEN Done(r)
                                           ELSE [engine[r] EXCEPT !.ids = @ \ {i}]]
  /\ UNCHANGED <<leaderVars, silences, cond, count, cache, clearing, exempt>>

\* In a process that is being stopped this was the last tick.
TickEnds(r) ==
  /\ At(r, "tick") /\ engine[r].todo = {}
  /\ IF r \in up THEN engine' = [engine EXCEPT ![r] = Away] /\ UNCHANGED <<count, cool, cache>>
                  ELSE Forgotten({r})
  /\ UNCHANGED <<leaderVars, rows, silences, cond, clearing, exempt>>

Engine(r) ==
  \/ \E E \in SUBSET Keys : TickBegins(r, E)
  \/ FollowerTick(r) \/ Query(r) \/ Bump(r) \/ InsertSilenced(r) \/ InCooldown(r)
  \/ StartCooldown(r) \/ InsertFiring(r) \/ TableFull(r) \/ Sweep(r) \/ TickEnds(r)

-----------------------------------------------------------------------------
(* Operators, on any replica.                                              *)

MutAcked(i) == [rows EXCEPT ![i].state = "acked"]
Acked(i) == [rows EXCEPT ![i].state = "ack"]

\* AckEvent: anything that is not resolved, a silenced event as well.
AckEvent(i) ==
  /\ rows[i] # NoRow /\ rows[i].state # "resolved"
  /\ rows' = Acked(i)
  /\ exempt' = IF rows[i].state = "silenced" THEN exempt \cup {rows[i].key} ELSE exempt
  /\ UNCHANGED <<leaderVars, silences, cond, replicaVars>>

\* ResolveEventByID: the event first ...
ResolveEvent(r, i) ==
  /\ r \in up /\ IsOpen(i)
  /\ rows' = Resolved(i)
  /\ clearing' = [clearing EXCEPT ![r] = @ \cup {rows[i].key}]
  /\ UNCHANGED <<leaderVars, silences, cond, engine, count, cool, cache, exempt>>

\* ... then the cooldown of the replica that answers the request.
ClearCooldown(r) ==
  /\ \E k \in clearing[r] : /\ cool' = [cool EXCEPT ![r] = @ \ {k}]
                            /\ clearing' = [clearing EXCEPT ![r] = @ \ {k}]
  /\ UNCHANGED <<leaderVars, rows, silences, cond, engine, count, cache, exempt>>

\* AddSilence and DeleteSilence: the database, and the copy of this replica.
SetSilences(r) ==
  /\ r \in up
  /\ \E S \in SUBSET Silenceable :
       /\ S # silences
       /\ silences' = S /\ cache' = [cache EXCEPT ![r] = S]
  /\ UNCHANGED <<leaderVars, rows, cond, engine, count, cool, clearing, exempt>>

\* RefreshSilences, every 20 s.
RefreshSilences(r) ==
  /\ r \in up /\ cache[r] # silences
  /\ cache' = [cache EXCEPT ![r] = silences]
  /\ UNCHANGED <<leaderVars, rows, silences, cond, engine, count, cool, clearing, exempt>>

-----------------------------------------------------------------------------
(* The clock, the observed network, the processes.                         *)

CondChanges(k) ==
  /\ cond' = IF k \in cond THEN cond \ {k} ELSE cond \cup {k}
  /\ UNCHANGED <<leaderVars, rows, silences, replicaVars, exempt>>

\* AutoResolveMin passes without a repetition.
RowAges(i) ==
  /\ IsOpen(i) /\ ~rows[i].stale
  /\ rows' = [rows EXCEPT ![i].stale = TRUE]
  /\ UNCHANGED <<leaderVars, silences, cond, replicaVars, exempt>>

\* CooldownMin passes.
CooldownPasses(r, k) ==
  /\ k \in cool[r]
  /\ cool' = [cool EXCEPT ![r] = @ \ {k}]
  /\ UNCHANGED <<leaderVars, rows, silences, cond, engine, count, cache, clearing, exempt>>

\* Prune, at the end of the retention time: closed events (and open ones, which
\* are long gone by then under any retention longer than AutoResolveMin).
Prune(i) ==
  /\ rows[i] # NoRow /\ ~IsOpen(i)
  /\ rows' = [rows EXCEPT ![i] = NoRow]
  /\ UNCHANGED <<leaderVars, silences, cond, replicaVars, exempt>>

\* The election takes a step.  A process that goes down forgets what it had in
\* memory, one that starts reads the windows before its first evaluation ...
EngineElection ==
  /\ LeaderNext
  /\ \A r \in up' \ up : At(r, "away")
  /\ \A r \in up \ up' : Crash(r) \/ At(r, "away")
  /\ IF up \subseteq up' THEN /\ cache' = [r \in Replicas |-> IF r \in up' \ up THEN silences ELSE cache[r]]
                              /\ UNCHANGED <<engine, count, cool>>
                         ELSE Forgotten(up \ up')
  /\ clearing' = [r \in Replicas |-> IF r \in up' THEN clearing[r] ELSE {}]
  /\ UNCHANGED <<rows, silences, cond, exempt>>

\* ... one that is stopped in an orderly way gives up the lock at once, while
\* Stop waits for the end of the tick under way ...
Drains(r) ==
  /\ Stop(r) /\ ~At(r, "away")
  /\ clearing' = [clearing EXCEPT ![r] = {}]
  /\ UNCHANGED <<rows, silences, cond, engine, count, cool, cache, exempt>>

\* ... unless the process is killed meanwhile.  (The stop has been counted as a fault.)
Killed(r) ==
  /\ r \notin up /\ ~At(r, "away")
  /\ Forgotten({r})
  /\ UNCHANGED <<leaderVars, rows, silences, cond, clearing, exempt>>

AlertNext ==
  \/ EngineElection
  \/ \E r \in Replicas :
       \/ Engine(r) \/ QueryFails(r) \/ WriteFails(r) \/ AlertSweepBegins(r)
       \/ ClearCooldown(r) \/ SetSilences(r) \/ RefreshSilences(r) \/ Drains(r) \/ Killed(r)
       \/ \E i \in Ids : ResolveEvent(r, i)
       \/ \E k \in Keys : CooldownPasses(r, k)
  \/ \E i \in Ids : AckEvent(i) \/ RowAges(i) \/ Prune(i)
  \/ \E k \in Keys : CondChanges(k)

\* The engine's ticker fires for ever (one tick in five evaluates all rules, one in
\* sixty sweeps), time passes, replicas that stopped are started again; the election
\* is fair as in Leader.
AlertFairness ==
  /\ WF_alertVars(Reap /\ EngineElection)
  /\ \A r \in Replicas :
       /\ WF_alertVars(Tick(r) /\ EngineElection) /\ WF_alertVars(Release(r) /\ EngineElection)
       /\ WF_alertVars(Restart(r) /\ EngineElection)
       /\ WF_alertVars(Engine(r))
       /\ SF_alertVars(TickBegins(r, Keys)) /\ SF_alertVars(AlertSweepBegins(r))
       /\ \A k \in Keys : WF_alertVars(CooldownPasses(r, k))
  /\ \A i \in Ids : WF_alertVars(RowAges(i)) /\ WF_alertVars(Prune(i))

AlertSpec == AlertInit /\ [][AlertNext]_alertVars /\ AlertFairness

-----------------------------------------------------------------------------
(* Properties.                                                             *)

AlertTypeOK ==
  /\ LeaderTypeOK
  /\ rows \in [Ids -> Row \cup {NoRow}]
  /\ silences \subseteq Silenceable /\ cond \subseteq Keys /\ exempt \subseteq Keys
  /\ count \in [Replicas -> [Counted -> 0..Need]]
  /\ cool \in [Replicas -> SUBSET Keys] /\ clearing \in [Replicas -> SUBSET Keys]
  /\ cache \in [Replicas -> SUBSET Silenceable]
  /\ \A r \in Replicas :
       /\ engine[r].at \in {"away", "tick", "found", "absent", "insert", "sweep"}
       /\ engine[r].todo \subseteq Keys /\ engine[r].ids \subseteq Ids
       /\ engine[r].key \in Keys \cup {None}

Unresolved(k) ==
  {i \in Ids : rows[i] # NoRow /\ rows[i].key = k /\ rows[i].state \in {"firing", "ack"}}

\* A condition has at most one open event, whoever leads and whatever operators
\* do, unless the look-up of the open event failed, two replicas evaluated the
\* rule at the same time, or a silenced event was acknowledged (alert.go:708-767).
DuplicatesExcused == \A k \in Keys : Cardinality(Unresolved(k)) > 1 => k \in exempt

IsReported(k) ==
  k \in cond ~> Open(k) # {} \/ k \notin cond \/ \E r \in Replicas : k \in cache[r]

\* A connection to a suspicious port that lasts has an open event, again and again,
\* through crashes, changes of the leader, failed statements and cooldowns, unless a
\* window silences it (checkPorts, alert.go:443-462).
Reported == \A k \in Keys \ Counted : IsReported(k)

\* An event whose condition is over is closed without an operator (S22.8).
AutoResolves ==
  \A i \in Ids : IsOpen(i) ~> ~IsOpen(i) \/ rows[i].key \in cond

\* "If there is an open event for the same (kind,key), its repeat counter is
\* incremented instead of a new row" (alert.go:704-705).
OneOpenEvent == \A k \in Keys : Cardinality(Unresolved(k)) <= 1

\* The same of the counted rules.  "Without a bump for auto_resolve_min the event is
\* resolved; the cooldown is cleared, and if the condition repeats a new event is
\* opened" (docs/ALERTING.md:30-32): a rule that fires once per exceedance is never
\* bumped by it, nor retried after a failed insert or a cooldown.
BandwidthReported == \A k \in Counted : IsReported(k)

\* "While not leading the bandwidth counters are reset, so that remains of the past
\* trigger nothing after a takeover" (alert.go:350-351).
NothingRemains ==
  \A r \in Replicas, k \in Counted :
    r \in up /\ ~IsLeader(r) ~> r \notin up \/ IsLeader(r) \/ count[r][k] = 0

\* BumpAlertEvent "increments the repeat counter and the last-seen time of an
\* open event" (store/alerts.go:91-92): a resolved event records nothing more.
ResolvedIsClosed ==
  [][\A i \in Ids : (rows[i] # NoRow /\ rows[i].state = "resolved")
                      => rows'[i] \in {rows[i], NoRow}]_alertVars

\* "state=resolved, the cooldown is cleared" (docs/ALERTING.md:49): when the
\* request ends no leader still keeps quiet about the condition.
ResolveClearsCooldown ==
  [][\A r \in Replicas, k \in Keys : (k \in clearing[r] /\ k \notin clearing'[r] /\ up' = up)
       => Open(k) # {} \/ \A q \in lock : k \notin cool'[q]]_alertVars

=============================================================================
