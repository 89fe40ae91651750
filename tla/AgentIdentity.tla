---------------------------- MODULE AgentIdentity ----------------------------
(***************************************************************************)
(* The identity of one agent machine: Enroll, Reenroll and the 401 streak  *)
(* (internal/agent/agent.go), the telemetry loop that uses them            *)
(* (cmd/bazntms-agent/main.go: run), and the agents rows the hub keeps for *)
(* that machine_id.  The identity lives in three places, the state file,   *)
(* the running process and the hub's rows, which crashes, lost answers,    *)
(* database outages and an administrator's deletes drive apart.            *)
(*                                                                         *)
(* The hub's handlers are atomic here (Enrollment opens them).  A token is *)
(* a number, 0 stands for none.  Ages are in telemetry intervals: the      *)
(* timer fires at most once per interval, and a row is online during two.  *)
(***************************************************************************)
EXTENDS Naturals, FiniteSets

CONSTANTS
  Pool,          \* hub URLs, all in front of one database
  ReenrollAfter, \* main.go: reenrollAfter
  MaxFaults      \* bound: lost answers, failed or torn writes, database outages

ASSUME IdentityAssumption ==
  Pool \in Nat \ {0} /\ ReenrollAfter \in Nat \ {0} /\ MaxFaults \in Nat

VARIABLES
  pc,        \* where the process is; "down" while it does not run
  mem,       \* main.go: st.Token
  authFails, \* main.go: authFails
  disk,      \* the state file; no token in it when missing or unreadable
  try,       \* withFailover: the attempt under way
  origin,    \* who called Enroll: "start" or "reenroll"
  reply,     \* the token of the hub's answer, not saved yet
  rows,      \* agents rows of this machine, by slot: [token, age] or NoRow
  db,        \* the hub's database answers
  calm,      \* no disturbance from outside (see Disturb)
  faults     \* faults so far

agent == <<pc, mem, authFails, disk, try, origin, reply>>
world == <<db, calm, faults>>
identityVars  == <<agent, rows, world>>

Slots  == 1..(MaxFaults + 2)
AgentTokens == 1..(MaxFaults + 5)
NoRow  == [token |-> 0, age |-> 0]
NoFile == [token |-> 0, streak |-> 0]
Stale  == 3            \* more than two intervals: RegisterOrReuseAgent may reuse the row

Live(t)  == t # 0 /\ \E s \in Slots : rows[s].token = t
InUse    == {mem, disk.token, reply} \cup {rows[s].token : s \in Slots}
NewToken == CHOOSE t \in AgentTokens : t \notin InUse
Rows     == {s \in Slots : rows[s] # NoRow}
Fault    == ~calm /\ faults < MaxFaults /\ faults' = faults + 1

IdentityInit ==
  /\ pc = "down" /\ mem = 0 /\ authFails = 0 /\ disk = NoFile
  /\ try = 0 /\ origin = "start" /\ reply = 0
  /\ rows = [s \in Slots |-> NoRow]
  /\ db = TRUE /\ calm = FALSE /\ faults = 0

-----------------------------------------------------------------------------
(* Enroll.                                                                 *)

\* An identity on disk is taken as it is, its streak is carried over.
Start ==
  /\ pc = "down"
  /\ IF disk.token # 0
       THEN /\ pc' = "wait" /\ mem' = disk.token /\ authFails' = disk.streak
            /\ UNCHANGED <<try, origin>>
       ELSE /\ pc' = "hello" /\ try' = 0 /\ origin' = "start"
            /\ UNCHANGED <<mem, authFails>>
  /\ UNCHANGED <<disk, reply, rows, world>>

\* Enroll returned an error: run exits at start, the loop goes on otherwise.
GiveUp == pc' = IF origin = "start" THEN "down" ELSE "wait"

\* RegisterOrReuseAgent: the machine's freshest row if it is offline, else a new one.
Freshest == {s \in Rows : \A o \in Rows : rows[s].age <= rows[o].age}
HubHello(t) ==
  \E s \in IF Freshest # {} /\ \A o \in Freshest : rows[o].age >= Stale
             THEN Freshest ELSE {CHOOSE o \in Slots : o \notin Rows} :
    rows' = [rows EXCEPT ![s] = [token |-> t, age |-> 0]]

MutLastURL(i) == i = Pool
LastURL(i) == i + 1 = Pool

NextURL ==
  IF LastURL(try) THEN GiveUp /\ try' = 0 ELSE try' = try + 1 /\ UNCHANGED pc

HelloAnswered ==
  /\ pc = "hello" /\ db
  /\ HubHello(NewToken) /\ reply' = NewToken
  /\ pc' = "save" /\ try' = 0
  /\ UNCHANGED <<mem, authFails, disk, origin, world>>

\* The hub registers the agent and its answer is lost: the next URL is tried.
HelloLost ==
  /\ pc = "hello" /\ db /\ Fault
  /\ HubHello(NewToken)
  /\ NextURL
  /\ UNCHANGED <<mem, authFails, disk, origin, reply, db, calm>>

\* No connection, or the hub has no database.
HelloFails ==
  /\ pc = "hello" /\ ~calm
  /\ NextURL
  /\ UNCHANGED <<mem, authFails, disk, origin, reply, rows, world>>

\* What a failed or interrupted os.WriteFile leaves: the old file, or nothing
\* that can be read.
Torn == {disk, NoFile}

MutSaved(t) == disk
Saved(t) == [token |-> t, streak |-> 0]
MutAdopted(t) == IF origin = "reenroll" THEN mem ELSE t
Adopted(t) == t

Save ==
  /\ pc = "save"
  /\ disk' = Saved(reply) /\ mem' = Adopted(reply) /\ authFails' = 0
  /\ reply' = 0 /\ pc' = "wait"
  /\ UNCHANGED <<try, origin, rows, world>>

SaveFails ==
  /\ pc = "save" /\ Fault
  /\ disk' \in Torn
  /\ reply' = 0 /\ GiveUp
  /\ UNCHANGED <<mem, authFails, try, origin, rows, db, calm>>

-----------------------------------------------------------------------------
(* The telemetry loop.                                                     *)

\* At least one interval has passed since the previous round.
Aged == {a \in [Slots -> 0..Stale] : \A s \in Slots :
           IF s \in Rows THEN a[s] >= rows[s].age /\ (rows[s].age < Stale => a[s] > rows[s].age)
                         ELSE a[s] = 0}
AgeRows(touched) == \E a \in Aged :
  rows' = [s \in Slots |-> IF s \in Rows /\ rows[s].token \in touched
                             THEN [rows[s] EXCEPT !.age = 0] ELSE [rows[s] EXCEPT !.age = a[s]]]

Round == UNCHANGED <<mem, authFails, disk, try, origin, reply, world>>

SendAccepted ==
  /\ pc = "wait" /\ db /\ Live(mem)
  /\ AgeRows({mem}) /\ pc' = "accepted" /\ Round

\* agentAuth answers 401 when it finds no row, for whatever reason: also when
\* the query fails.
SendRejected ==
  /\ pc = "wait" /\ (~db \/ ~Live(mem))
  /\ AgeRows({}) /\ pc' = "rejected" /\ Round

\* Any other failure; the hub may have accepted the batch all the same.
SendFails ==
  /\ pc = "wait" /\ ~calm
  /\ \E touched \in {{}, IF db THEN {mem} ELSE {}} : AgeRows(touched)
  /\ UNCHANGED pc /\ Round

\* ClearAuthFailure, if there is something to clear.
ClearAuthFailure ==
  /\ pc = "accepted" /\ pc' = "wait"
  /\ authFails' = 0
  /\ IF authFails > 0 /\ disk.streak > 0
       THEN \/ disk' = [disk EXCEPT !.streak = 0] /\ UNCHANGED faults
            \/ disk' \in Torn /\ Fault
       ELSE UNCHANGED <<disk, faults>>
  /\ UNCHANGED <<mem, try, origin, reply, rows, db, calm>>

MutNoted(n) == disk
Noted(n) == [disk EXCEPT !.streak = n]

\* NoteAuthFailure, below the threshold; at the threshold the agent re-enrolls.
NoteAuthFailure ==
  LET n == disk.streak + 1 IN
  /\ pc = "rejected"
  /\ IF authFails < ReenrollAfter
       THEN /\ authFails' = n
            /\ \/ disk' = Noted(n) /\ UNCHANGED faults
               \/ disk' \in Torn /\ Fault
       ELSE UNCHANGED <<authFails, disk, faults>>
  /\ pc' = IF authFails' < ReenrollAfter THEN "wait" ELSE "reenroll"
  /\ UNCHANGED <<mem, try, origin, reply, rows, db, calm>>

\* Reenroll: the state file is removed before the hello is sent.
Reenroll ==
  /\ pc = "reenroll"
  /\ disk' = NoFile
  /\ pc' = "hello" /\ try' = 0 /\ origin' = "reenroll"
  /\ UNCHANGED <<mem, authFails, reply, rows, world>>

\* os.Remove fails: the error is logged and the loop goes on.
RemoveFails ==
  /\ pc = "reenroll" /\ Fault /\ pc' = "wait"
  /\ UNCHANGED <<mem, authFails, disk, try, origin, reply, rows, db, calm>>

-----------------------------------------------------------------------------
(* The environment.                                                        *)

\* The process stops.  It is a fault when an answer of the hub was not saved
\* yet, or a write of the state file was cut short.
Crash ==
  /\ pc # "down" /\ pc' = "down"
  /\ mem' = 0 /\ authFails' = 0 /\ try' = 0 /\ reply' = 0
  /\ \/ pc # "save" /\ UNCHANGED <<disk, faults>>
     \/ pc \in {"save", "accepted", "rejected"} /\ Fault /\ disk' \in Torn
  /\ UNCHANGED <<origin, rows, db, calm>>

DeleteRow ==
  /\ ~calm
  /\ \E s \in Rows : rows' = [rows EXCEPT ![s] = NoRow]
  /\ UNCHANGED <<agent, world>>

\* The database goes away (a fault) and comes back.
Outage ==
  /\ \/ db /\ Fault
     \/ ~db /\ UNCHANGED faults
  /\ db' = ~db
  /\ UNCHANGED <<agent, rows, calm>>

\* Disturbances (failing requests and writes, outages, deletes) stop or begin.
Disturb == calm' = ~calm /\ (calm' => db) /\ UNCHANGED <<agent, rows, db, faults>>

IdentityNext ==
  \/ Start \/ HelloAnswered \/ HelloLost \/ HelloFails \/ Save \/ SaveFails
  \/ SendAccepted \/ SendRejected \/ SendFails
  \/ ClearAuthFailure \/ NoteAuthFailure \/ Reenroll \/ RemoveFails
  \/ Crash \/ DeleteRow \/ Outage \/ Disturb

\* The service manager restarts a dead process, and a process that crashes over
\* and over still gets through each of its steps now and then.
IdentityFairness ==
  /\ WF_identityVars(Start) /\ SF_identityVars(HelloAnswered) /\ SF_identityVars(Save)
  /\ SF_identityVars(SendAccepted) /\ SF_identityVars(SendRejected)
  /\ SF_identityVars(NoteAuthFailure) /\ SF_identityVars(Reenroll) /\ SF_identityVars(ClearAuthFailure)

IdentitySpec == IdentityInit /\ [][IdentityNext]_identityVars /\ IdentityFairness

-----------------------------------------------------------------------------
(* Properties.                                                             *)

IdentityTypeOK ==
  /\ pc \in {"down", "hello", "save", "wait", "accepted", "rejected", "reenroll"}
  /\ mem \in {0} \cup AgentTokens /\ reply \in {0} \cup AgentTokens
  /\ authFails \in 0..(ReenrollAfter + MaxFaults)
  /\ disk \in [token : {0} \cup AgentTokens, streak : 0..(ReenrollAfter + MaxFaults)]
  /\ try \in 0..(Pool - 1) /\ origin \in {"start", "reenroll"}
  /\ rows \in [Slots -> [token : {0} \cup AgentTokens, age : 0..Stale]]
  /\ db \in BOOLEAN /\ calm \in BOOLEAN /\ faults \in 0..MaxFaults

\* A running agent and its state file never hold two different identities: a
\* restart resumes the identity in use, or enrolls (agent.go:180-184, 227-230).
DiskMatchesMemory == pc \in {"wait", "accepted", "rejected"} => disk.token \in {0, mem}

\* The registry does not swell: every row of the machine beyond the first is
\* paid for by a fault; restarts and 401 answers alone add none (agent.go:253-255).
RowsBounded == Cardinality(Rows) <= 1 + faults

\* An agent whose row was deleted heals itself even when it crashes over and
\* over: the streak survives restarts (agent.go:52-57), so that once nothing
\* else disturbs it, its telemetry is accepted again and again.
SelfHeals == <>[]calm => []<>(pc = "accepted")

\* "The token is no longer valid ... a permanent error" (agent.go:28-31): an
\* agent gives its identity up only when no row holds it.
DiscardsOnlyDead == [][pc = "reenroll" /\ pc' = "hello" => ~Live(mem)]_identityVars

\* "Instead of opening a new row the existing one is refreshed, agents does not
\* swell" (agent.go:253-255): a machine has one row.
OneRowPerMachine == Cardinality(Rows) <= 1

=============================================================================
