------------------------------ MODULE Enrollment ------------------------------
(***************************************************************************)
(* The hub's agent registry: POST /api/v1/agent/hello                      *)
(* (internal/server/agents.go), the enroll_tokens and agents tables        *)
(* (internal/store/enroll_tokens.go, agents.go), and what else changes an  *)
(* agents row: telemetry, an administrator's delete, the archiver that     *)
(* deletes agents not seen for agent-archive-days.  Handlers of several    *)
(* hub replicas run concurrently; each SQL statement is one step.          *)
(*                                                                         *)
(* A machine stands for a pair (machine_id, site).  A secret is the agent  *)
(* token a hello generates; the row keeps its hash.  last_seen is kept as  *)
(* its age class: "online" (within 2*telemetryInterval), "offline", "old"  *)
(* (beyond the archive age).                                               *)
(***************************************************************************)
EXTENDS Naturals, FiniteSets

CONSTANTS
  Requests,    \* handler goroutines serving a hello
  Tokens,      \* rows of enroll_tokens
  Static,      \* the hub's -enroll-token secret
  MaxUses,     \* max_uses of each token, 0 = unlimited
  Machines,    \* machines with a machine_id
  NoMachine,   \* a hello without machine_id
  None,        \* no row
  MaxRows,     \* bound: agents rows ever inserted
  MaxSecrets   \* bound: hellos that reach the registry

ASSUME EnrollmentAssumption ==
  /\ IsFiniteSet(Requests)
  /\ Static \notin Tokens
  /\ MaxUses \in [Tokens -> Nat]
  /\ NoMachine \notin Machines
  /\ MaxRows \in Nat /\ MaxSecrets \in Nat

VARIABLES
  used, revoked, expired,  \* enroll_tokens
  agents,                  \* agents, by id
  lastId, lastSecret,      \* last id and last secret handed out
  samples,                 \* ids that own rows in the telemetry tables
  reqs,                    \* the hellos being served
  touching,                \* ids authenticated by a telemetry request in progress
  victims,                 \* ids PruneOfflineAgents has selected and not deleted yet
  enrolledBy               \* history: registrations completed per token

tokenVars == <<used, revoked, expired>>
rowVars   == <<agents, lastId, lastSecret, samples>>
vars      == <<tokenVars, rowVars, reqs, touching, victims, enrolledBy>>

Ids == 1..MaxRows
Row == [machine : Machines \cup {NoMachine}, secret : 1..MaxSecrets,
        seen : {"online", "offline", "old"}]
IsRow(id) == agents[id] # None
Idle == [pc |-> "idle", tok |-> Static, machine |-> NoMachine, id |-> 0, secret |-> 0]

Init ==
  /\ used = [t \in Tokens |-> 0]
  /\ revoked = [t \in Tokens |-> FALSE]
  /\ expired = [t \in Tokens |-> FALSE]
  /\ agents = [id \in Ids |-> None]
  /\ lastId = 0 /\ lastSecret = 0 /\ samples = {}
  /\ reqs = [r \in Requests |-> Idle]
  /\ touching = {} /\ victims = {}
  /\ enrolledBy = [t \in Tokens |-> 0]

-----------------------------------------------------------------------------
(* enroll_tokens                                                           *)

HasUsesLeft(t) == MaxUses[t] = 0 \/ used[t] < MaxUses[t]

\* resolveEnrollToken answers with no error.  (The CIDR and multi-site refusals
\* leave no state behind and are left out with the attempt limiter.)
Resolves(t) == t # Static => (~revoked[t] /\ ~expired[t] /\ HasUsesLeft(t))

MutConsumeUnchecked(t) == ~revoked[t]
MutConsumeRevoked(t) == HasUsesLeft(t)
MayConsume(t) == ~revoked[t] /\ HasUsesLeft(t)

RevokeEnrollToken(t) ==
  /\ revoked' = [revoked EXCEPT ![t] = TRUE]
  /\ UNCHANGED <<used, expired, rowVars, reqs, touching, victims, enrolledBy>>

\* The clock passes expires_at.
Expire(t) ==
  /\ expired' = [expired EXCEPT ![t] = TRUE]
  /\ UNCHANGED <<used, revoked, rowVars, reqs, touching, victims, enrolledBy>>

-----------------------------------------------------------------------------
(* handleAgentHello, one step per statement.                               *)

Goto(r, pc) == reqs' = [reqs EXCEPT ![r].pc = pc]
Done(r) == reqs' = [reqs EXCEPT ![r] = Idle]

\* Only a token of the table has uses to consume.
FirstStatement(t) == IF t = Static THEN "select" ELSE "consume"

\* A request whose token resolves enters the handler; one whose token does not
\* is answered 401/403/409 and changes nothing.
Hello(r, t, m) ==
  /\ reqs[r].pc = "idle"
  /\ Resolves(t)
  /\ reqs' = [reqs EXCEPT ![r] =
       [pc |-> FirstStatement(t), tok |-> t, machine |-> m, id |-> 0, secret |-> 0]]
  /\ UNCHANGED <<tokenVars, rowVars, touching, victims, enrolledBy>>

\* ConsumeEnrollToken: one conditional UPDATE; no row affected is a 409.
Consume(r) ==
  LET t == reqs[r].tok IN
  /\ reqs[r].pc = "consume"
  /\ IF MayConsume(t)
       THEN used' = [used EXCEPT ![t] = @ + 1] /\ Goto(r, "select")
       ELSE UNCHANGED used /\ Done(r)
  /\ UNCHANGED <<revoked, expired, rowVars, touching, victims, enrolledBy>>

\* RegisterOrReuseAgent, SELECT: the machine's row with the latest last_seen.
Recency == [online |-> 2, offline |-> 1, old |-> 0]
RowsOf(m) == {id \in Ids : IsRow(id) /\ m # NoMachine /\ agents[id].machine = m}
Latest(m) == {id \in RowsOf(m) : \A o \in RowsOf(m) :
                Recency[agents[id].seen] >= Recency[agents[o].seen]}

Reusable(id) == agents[id].seen # "online"

Select(r) ==
  LET m == reqs[r].machine IN
  /\ reqs[r].pc = "select"
  /\ IF RowsOf(m) = {} THEN Goto(r, "insert")
     ELSE \E id \in Latest(m) :
            IF Reusable(id)
              THEN reqs' = [reqs EXCEPT ![r] = [@ EXCEPT !.pc = "update", !.id = id]]
              ELSE Goto(r, "insert")
  /\ UNCHANGED <<tokenVars, rowVars, touching, victims, enrolledBy>>

\* History: the registration counts against the token that paid for it.
Registered(r) ==
  LET t == reqs[r].tok IN
  enrolledBy' = IF t = Static THEN enrolledBy ELSE [enrolledBy EXCEPT ![t] = @ + 1]

MutRowAfterUpsert(id, s) ==
  [agents EXCEPT ![id] = [machine |-> NoMachine, secret |-> s, seen |-> "online"]]
RowAfterUpdate(id, s) ==
  IF IsRow(id) THEN [agents EXCEPT ![id].secret = s, ![id].seen = "online"] ELSE agents

\* ... UPDATE ... WHERE id = ?: the row as it is by then; the number of rows
\* affected is not looked at.
Update(r) ==
  LET id == reqs[r].id
      s  == lastSecret + 1 IN
  /\ reqs[r].pc = "update" /\ s <= MaxSecrets
  /\ lastSecret' = s
  /\ agents' = RowAfterUpdate(id, s)
  /\ reqs' = [reqs EXCEPT ![r] = [@ EXCEPT !.pc = "reply", !.secret = s]]
  /\ Registered(r)
  /\ UNCHANGED <<tokenVars, lastId, samples, touching, victims>>

\* RegisterAgent: a new row.
Insert(r) ==
  LET id == lastId + 1
      s  == lastSecret + 1 IN
  /\ reqs[r].pc = "insert" /\ id <= MaxRows /\ s <= MaxSecrets
  /\ lastId' = id /\ lastSecret' = s
  /\ agents' = [agents EXCEPT ![id] =
                  [machine |-> reqs[r].machine, secret |-> s, seen |-> "online"]]
  /\ reqs' = [reqs EXCEPT ![r] = [@ EXCEPT !.pc = "reply", !.id = id, !.secret = s]]
  /\ Registered(r)
  /\ UNCHANGED <<tokenVars, samples, touching, victims>>

\* A statement fails: 500.  A use that was consumed stays consumed.
Abort(r) ==
  /\ reqs[r].pc \in {"consume", "select", "update", "insert"}
  /\ Done(r)
  /\ UNCHANGED <<tokenVars, rowVars, touching, victims, enrolledBy>>

\* The answer {accepted, agent_id, agent_token} is written.
Reply(r) ==
  /\ reqs[r].pc = "reply"
  /\ Done(r)
  /\ UNCHANGED <<tokenVars, rowVars, touching, victims, enrolledBy>>

HelloStep(r) == Consume(r) \/ Select(r) \/ Update(r) \/ Insert(r) \/ Abort(r)

-----------------------------------------------------------------------------
(* Telemetry, ageing and deletion.                                         *)

\* agentAuth finds the row of the presented secret ...
Authenticate(id) ==
  /\ id \in Ids /\ IsRow(id)
  /\ touching' = touching \cup {id}
  /\ UNCHANGED <<tokenVars, rowVars, reqs, victims, enrolledBy>>

\* ... and the handler (or the store-writer, later) saves the batch under that
\* id and updates last_seen, if the row is still there.
SaveTelemetry(id) ==
  /\ id \in touching
  /\ touching' = touching \ {id}
  /\ samples' = samples \cup {id}
  /\ agents' = IF IsRow(id) THEN [agents EXCEPT ![id].seen = "online"] ELSE agents
  /\ UNCHANGED <<tokenVars, lastId, lastSecret, reqs, victims, enrolledBy>>

\* Time passes without telemetry from the agent.
Age(id) ==
  /\ id \in Ids /\ IsRow(id) /\ agents[id].seen # "old"
  /\ agents' = [agents EXCEPT ![id].seen = IF @ = "online" THEN "offline" ELSE "old"]
  /\ UNCHANGED <<tokenVars, lastId, lastSecret, samples, reqs, touching, victims, enrolledBy>>

\* DeleteAgent: one transaction over the row and everything it owns.
DeleteAgent(id) ==
  /\ agents' = [agents EXCEPT ![id] = None]
  /\ samples' = samples \ {id}

AdminDelete(id) ==
  /\ id \in Ids /\ IsRow(id)
  /\ DeleteAgent(id)
  /\ UNCHANGED <<tokenVars, lastId, lastSecret, reqs, touching, victims, enrolledBy>>

\* PruneOfflineAgents: the victims are selected in one query ...
ArchiveScan ==
  /\ victims = {}
  /\ victims' = {id \in Ids : IsRow(id) /\ agents[id].seen = "old"}
  /\ UNCHANGED <<tokenVars, rowVars, reqs, touching, enrolledBy>>

\* ... and deleted one by one, whatever happened to them since.
ArchiveDelete(id) ==
  /\ id \in victims
  /\ victims' = victims \ {id}
  /\ DeleteAgent(id)
  /\ UNCHANGED <<tokenVars, lastId, lastSecret, reqs, touching, enrolledBy>>

\* ... until one DELETE fails.
ArchiveAbort ==
  /\ victims # {} /\ victims' = {}
  /\ UNCHANGED <<tokenVars, rowVars, reqs, touching, enrolledBy>>

RegistryStep ==
  \/ \E t \in Tokens : RevokeEnrollToken(t) \/ Expire(t)
  \/ \E id \in Ids : \/ Authenticate(id) \/ SaveTelemetry(id) \/ Age(id)
                     \/ AdminDelete(id) \/ ArchiveDelete(id)
  \/ ArchiveScan \/ ArchiveAbort

Next ==
  \/ \E r \in Requests :
       \/ \E t \in Tokens \cup {Static}, m \in Machines \cup {NoMachine} : Hello(r, t, m)
       \/ HelloStep(r) \/ Reply(r)
  \/ RegistryStep

Spec == Init /\ [][Next]_vars

-----------------------------------------------------------------------------
(* Properties.                                                             *)

Pcs == {"idle", "consume", "select", "update", "insert", "reply"}
Request == [pc : Pcs, tok : Tokens \cup {Static}, machine : Machines \cup {NoMachine},
            id : 0..MaxRows, secret : 0..MaxSecrets]

TypeOK ==
  /\ used \in [Tokens -> Nat]
  /\ revoked \in [Tokens -> BOOLEAN] /\ expired \in [Tokens -> BOOLEAN]
  /\ agents \in [Ids -> Row \cup {None}]
  /\ lastId \in 0..MaxRows /\ lastSecret \in 0..MaxSecrets
  /\ samples \subseteq Ids
  /\ reqs \in [Requests -> Request]
  /\ touching \subseteq Ids /\ victims \subseteq Ids
  /\ enrolledBy \in [Tokens -> Nat]

\* Requests that have paid for a registration and not completed it.
Holding(t) == {r \in Requests : reqs[r].tok = t /\ reqs[r].pc \in {"select", "update", "insert"}}

\* Every registration through a token has its own use: hellos that crossed the
\* check together cannot share one (enroll_tokens.go:84-104; a use whose
\* registration failed is lost, never spent twice).
SlotAccounting == \A t \in Tokens : enrolledBy[t] + Cardinality(Holding(t)) <= used[t]

\* A token with max_uses registers at most that many agents, however many
\* replicas serve its hellos at the same time.
AtMostMaxUses == \A t \in Tokens : MaxUses[t] > 0 => enrolledBy[t] <= MaxUses[t]

\* From the moment a token is revoked no hello obtains a use of it, also one
\* whose resolve was answered before the revocation.
RevokedBuysNothing == [][\A t \in Tokens : revoked[t] => used'[t] = used[t]]_vars

\* A deleted agent stays deleted: no hello, telemetry or archiver run that was
\* under way when the row went brings it back (RegisterOrReuseAgent and
\* TouchAgent only UPDATE).
DeletedStaysDeleted == [][\A id \in Ids : (id <= lastId /\ ~IsRow(id)) => ~IsRow(id)']_vars

\* "Registers the agent and returns its persistent token"
\* (server/agents.go:231-232): the token answered is the one its row holds.
AcceptedTokenIsLive ==
  [][\A r \in Requests : reqs[r].pc = "update" /\ reqs'[r].pc = "reply" =>
       IsRow(reqs[r].id)' /\ agents'[reqs[r].id].secret = reqs'[r].secret]_vars

\* "Matching row online: always a new row" (store/agents.go:67): a hello never
\* takes over the row, and the token, of an agent that is online.
ReuseSparesOnline ==
  [][\A r \in Requests : reqs[r].pc = "update" /\ reqs'[r].pc = "reply" =>
       (IsRow(reqs[r].id) => agents[reqs[r].id].seen # "online")]_vars

\* "Deletes the agents not seen for longer than offlineFor"
\* (store/agents.go:475-477): the archiver deletes no other agent.
ArchiveSparesSeen ==
  [][\A id \in victims : victims' = victims \ {id} /\ IsRow(id) /\ ~IsRow(id)' =>
       agents[id].seen = "old"]_vars

\* "If a table is forgotten those rows stay orphaned and produce ghost fleet
\* data" (store/agents.go:432-435): telemetry rows belong to a registered agent.
NoOrphanSamples == \A id \in samples : IsRow(id)

=============================================================================
