---------------------------- MODULE IncidentEngine ----------------------------
(***************************************************************************)
(* The incident engine (internal/incident, store/incidents.go): twice a    *)
(* minute the leading replica reads the alert events of the last minutes,  *)
(* matches five fixed rules against those of each agent and keeps one open *)
(* incident per rule and agent, which collects the alerts as evidence.     *)
(* Operators change the status of incidents on any replica.                *)
(*                                                                         *)
(* Agents are handled one after another under keys of their own: this is   *)
(* one agent, and a correlation key is its rule.  Times matter only by     *)
(* their distance, so an alert has an age.  Leadership is that of module   *)
(* Leader; each database statement is a step, and one that fails counts as *)
(* a fault.                                                                *)
(***************************************************************************)
EXTENDS IncidentRules, Leader

CONSTANTS
  Silenceable,  \* alerts that a maintenance window may silence
  Ids, NoRow,   \* rows of incidents
  MaxOps        \* bound: status changes by operators

Match == [rule : Rules, evs : SUBSET Alerts]
Row == [rule : Rules, status : {"open", "investigating", "resolved", "closed"},
        sev : {"warn", "crit"}, risk : 0..100, evidence : SUBSET Alerts]

ASSUME EngineAssumption ==
  /\ Silenceable \subseteq Alerts
  /\ MaxOps \in Nat
  /\ Ids = 1..(Cardinality(Rules) + MaxOps) /\ NoRow \notin Ids \cup Row

VARIABLES
  age,      \* alert_events: time since last_ts
  silenced, \* alert_events: those with state silenced
  rows,     \* incidents and incident_evidence
  engine,   \* what run() of each replica is doing
  told,     \* history: the severity and the risk last notified for an incident
  lost,     \* history: <<what, id>> of evidence and notices lost to a fault
  ops

alertVars == <<age, silenced>>
vars == <<leaderVars, alertVars, rows, engine, told, lost, ops>>

-----------------------------------------------------------------------------

\* AlertEventsSince and the filter of Evaluate.
Recent == [a \in Alerts |-> IF a \in silenced THEN Gone ELSE age[a]]

SevIn(m) == SevOf(m.rule, m.evs)
RiskIn(m) == riskScore(m.rule, m.evs)

Away == [at |-> "away", todo |-> {}, id |-> NoRow, left |-> {}, notify |-> FALSE]
Untold == [sev |-> "info", risk |-> 0]

Init ==
  /\ LeaderInit
  /\ age = [a \in Alerts |-> Gone] /\ silenced = {}
  /\ rows = [i \in Ids |-> NoRow]
  /\ engine = [r \in Replicas |-> Away]
  /\ told = [i \in Ids |-> Untold] /\ lost = {}
  /\ ops = 0

IsOpen(i) == rows[i] # NoRow /\ rows[i].status \in {"open", "investigating"}
Open(rule) == {i \in Ids : IsOpen(i) /\ rows[i].rule = rule}

\* The match being written: those of an agent are in the order of their rules.
FirstOf(todo) == CHOOSE m \in todo : \A n \in todo : m.rule <= n.rule
Current(r) == FirstOf(engine[r].todo)

MutOpenByCorrelation(rule) == {i \in Ids : rows[i] # NoRow /\ rows[i].rule = rule}
OpenByCorrelation(rule) == Open(rule)

MutRefused(rule) == FALSE
\* The unique index on the keys of open incidents refuses a second one.
Refused(rule) == Open(rule) # {}

\* The next id.
Free == {i \in Ids : rows[i] = NoRow /\ \A j \in 1..(i - 1) : rows[j] # NoRow}

At(r, place) == engine[r].at = place

\* On to the next match.
Onward(r) ==
  LET rest == engine[r].todo \ {Current(r)}
  IN IF rest = {} THEN Away ELSE [Away EXCEPT !.at = "lookup", !.todo = rest]

\* The row is written: its evidence comes next, then the notice.
Written(r, i, notify) ==
  [engine[r] EXCEPT !.at = "evidence", !.id = i, !.left = Current(r).evs, !.notify = notify]

-----------------------------------------------------------------------------
(* run and Evaluate: one tick of the leader.                               *)

TickBegins(r) ==
  /\ r \in up /\ At(r, "away") /\ IsLeader(r)
  /\ \E todo \in Matches(Recent) \ {{}} :
       engine' = [engine EXCEPT ![r] = [Away EXCEPT !.at = "lookup", !.todo = todo]]
  /\ UNCHANGED <<leaderVars, alertVars, rows, told, lost, ops>>

MutRaised(m, row) == sevRank(row.sev) > sevRank(SevIn(m)) \/ row.risk > RiskIn(m)
Raised(m, row) == sevRank(SevIn(m)) > sevRank(row.sev) \/ RiskIn(m) > row.risk

\* upsert: OpenIncidentByCorrelation.
Lookup(r) ==
  /\ At(r, "lookup")
  /\ IF OpenByCorrelation(Current(r).rule) = {}
       THEN engine' = [engine EXCEPT ![r].at = "create"]
       ELSE \E i \in OpenByCorrelation(Current(r).rule) :
              engine' = [engine EXCEPT ![r].at = "bump", ![r].id = i,
                                       ![r].notify = Raised(Current(r), rows[i])]
  /\ UNCHANGED <<leaderVars, alertVars, rows, told, lost, ops>>

\* CreateIncident.  When another leader was faster that is an error, and the match is
\* left to the next tick.
Create(r) ==
  /\ At(r, "create")
  /\ IF Refused(Current(r).rule)
       THEN engine' = [engine EXCEPT ![r] = Onward(r)] /\ UNCHANGED rows
       ELSE \E i \in Free :
              /\ rows' = [rows EXCEPT ![i] =
                   [rule |-> Current(r).rule, status |-> "open", sev |-> SevIn(Current(r)),
                    risk |-> RiskIn(Current(r)), evidence |-> {}]]
              /\ engine' = [engine EXCEPT ![r] = Written(r, i, TRUE)]
  /\ UNCHANGED <<leaderVars, alertVars, told, lost, ops>>

Larger(x, y) == IF y > x THEN y ELSE x

\* BumpIncident: by id, whatever the status is by now; neither severity nor risk
\* ever falls.
Bump(r) ==
  /\ At(r, "bump")
  /\ rows' = [rows EXCEPT ![engine[r].id].sev = maxSev(@, SevIn(Current(r))),
                          ![engine[r].id].risk = Larger(@, RiskIn(Current(r)))]
  /\ engine' = [engine EXCEPT ![r] = Written(r, engine[r].id, engine[r].notify)]
  /\ UNCHANGED <<leaderVars, alertVars, told, lost, ops>>

\* An error of one of these statements ends upsert.
StatementFails(r) ==
  /\ engine[r].at \in {"lookup", "create", "bump"}
  /\ Fault
  /\ engine' = [engine EXCEPT ![r] = Onward(r)]
  /\ UNCHANGED <<up, lock, releasing, holder, broken, alertVars, rows, told, lost, ops>>

MutAdded(i, a) == rows
Added(i, a) == [rows EXCEPT ![i].evidence = @ \cup {a}]

\* What follows a piece of evidence: the next one, the notice, or the next match.
AfterEvidence(r, a) ==
  LET e == [engine[r] EXCEPT !.left = @ \ {a}]
  IN IF e.left # {} THEN e ELSE IF e.notify THEN [e EXCEPT !.at = "notify"] ELSE Onward(r)

\* AddIncidentEvidence, the oldest alert first.
AddEvidence(r) ==
  /\ At(r, "evidence")
  /\ \E a \in engine[r].left :
       /\ rows' = Added(engine[r].id, a)
       /\ engine' = [engine EXCEPT ![r] = AfterEvidence(r, a)]
  /\ UNCHANGED <<leaderVars, alertVars, told, lost, ops>>

\* An error is logged, and the evidence skipped.
AddEvidenceFails(r) ==
  /\ At(r, "evidence")
  /\ Fault
  /\ \E a \in engine[r].left : engine' = [engine EXCEPT ![r] = AfterEvidence(r, a)]
  /\ lost' = lost \cup {<<"evidence", engine[r].id>>}
  /\ UNCHANGED <<up, lock, releasing, holder, broken, alertVars, rows, told, ops>>

\* The incident is read again and handed to the notifier.
Notify(r) ==
  /\ At(r, "notify")
  /\ told' = [told EXCEPT ![engine[r].id] =
                [sev |-> rows[engine[r].id].sev, risk |-> rows[engine[r].id].risk]]
  /\ engine' = [engine EXCEPT ![r] = Onward(r)]
  /\ UNCHANGED <<leaderVars, alertVars, rows, lost, ops>>

\* When it cannot be read there is no notice, now or later.
NotifyFails(r) ==
  /\ At(r, "notify")
  /\ Fault
  /\ lost' = lost \cup {<<"notice", engine[r].id>>}
  /\ engine' = [engine EXCEPT ![r] = Onward(r)]
  /\ UNCHANGED <<up, lock, releasing, holder, broken, alertVars, rows, told, ops>>

Engine(r) ==
  TickBegins(r) \/ Lookup(r) \/ Create(r) \/ Bump(r) \/ AddEvidence(r) \/ Notify(r)

-----------------------------------------------------------------------------
(* Operators, alerts, time, processes.                                     *)

\* handleIncidentAction: any status may follow any other, unless the unique index
\* on open incidents refuses it.
SetStatus(i, s) ==
  /\ rows[i] # NoRow /\ ops < MaxOps
  /\ s \in {"open", "investigating"} => Open(rows[i].rule) \subseteq {i}
  /\ rows' = [rows EXCEPT ![i].status = s]
  /\ ops' = ops + 1
  /\ UNCHANGED <<leaderVars, alertVars, engine, told, lost>>

\* The alert engine inserts an alert event, or counts a repetition.
AlertFires(a) ==
  /\ age[a] # 0
  /\ age' = [age EXCEPT ![a] = 0]
  /\ silenced' \in IF age[a] = Gone /\ a \in Silenceable
                     THEN {silenced \cup {a}, silenced \ {a}} ELSE {silenced}
  /\ UNCHANGED <<leaderVars, rows, engine, told, lost, ops>>

\* AckEvent makes a silenced event one that counts.
AckAlert(a) ==
  /\ a \in silenced
  /\ silenced' = silenced \ {a}
  /\ UNCHANGED <<leaderVars, age, rows, engine, told, lost, ops>>

TimePasses ==
  /\ \E a \in Alerts : age[a] # Gone
  /\ age' = [a \in Alerts |-> AtMost(Gone, age[a] + 1)]
  /\ silenced' = {a \in silenced : age[a] < Long}
  /\ UNCHANGED <<leaderVars, rows, engine, told, lost, ops>>

\* What the death of the engine in the middle of a match loses.
LostWith(r) ==
  IF engine[r].at \notin {"evidence", "notify"} THEN {}
  ELSE {<<"evidence", engine[r].id>> : a \in engine[r].left}
       \cup (IF engine[r].notify THEN {<<"notice", engine[r].id>>} ELSE {})

\* The election takes a step.  A process that goes down takes its engine with it ...
Election ==
  /\ LeaderNext
  /\ \A r \in up' \ up : At(r, "away")
  /\ \A r \in up \ up' : Crash(r) \/ At(r, "away")
  /\ engine' = [r \in Replicas |-> IF r \in up \ up' THEN Away ELSE engine[r]]
  /\ lost' = lost \cup UNION {LostWith(r) : r \in up \ up'}
  /\ UNCHANGED <<alertVars, rows, told, ops>>

\* ... or is stopped in an orderly way: the lock goes while the engine finishes its
\* evaluation.
Drains(r) ==
  /\ Stop(r) /\ ~At(r, "away")
  /\ UNCHANGED <<alertVars, rows, engine, told, lost, ops>>

\* It is killed meanwhile.  (The stop has been counted as a fault.)
Killed(r) ==
  /\ r \notin up /\ ~At(r, "away")
  /\ engine' = [engine EXCEPT ![r] = Away] /\ lost' = lost \cup LostWith(r)
  /\ UNCHANGED <<leaderVars, alertVars, rows, told, ops>>

Next ==
  \/ Election \/ TimePasses
  \/ \E r \in Replicas :
       \/ Engine(r) \/ StatementFails(r) \/ AddEvidenceFails(r) \/ NotifyFails(r)
       \/ Drains(r) \/ Killed(r)
  \/ \E a \in Alerts : AlertFires(a) \/ AckAlert(a)
  \/ \E i \in Ids, s \in {"open", "investigating", "resolved", "closed"} : SetStatus(i, s)

\* The engine's ticker fires for ever; replicas that stopped are started again; the
\* election is fair as in Leader.
Fairness ==
  /\ WF_vars(Reap /\ Election)
  /\ \A r \in Replicas :
       /\ WF_vars(Tick(r) /\ Election) /\ WF_vars(Release(r) /\ Election)
       /\ WF_vars(Restart(r) /\ Election)
       /\ WF_vars(Engine(r))

Spec == Init /\ [][Next]_vars /\ Fairness

-----------------------------------------------------------------------------
(* Properties.                                                             *)

\* Besides the types: an open incident is the only one of its rule (the unique index
\* of migration 0018), and the engine works on incidents that exist.
TypeOK ==
  /\ LeaderTypeOK
  /\ age \in Ages /\ silenced \subseteq Silenceable
  /\ \A i \in Ids : rows[i] # NoRow => rows[i] \in Row
  /\ \A n \in Rules : Cardinality(Open(n)) <= 1
  /\ told \in [Ids -> [sev : {"info", "warn", "crit"}, risk : 0..100]]
  /\ lost \subseteq {"evidence", "notice"} \X Ids
  /\ ops \in 0..MaxOps
  /\ \A r \in Replicas :
       /\ engine[r].at \in {"away", "lookup", "create", "bump", "evidence", "notify"}
       /\ engine[r].todo \subseteq Match /\ engine[r].left \subseteq Alerts
       /\ At(r, "away") <=> engine[r].todo = {}
       /\ engine[r].at \in {"bump", "evidence", "notify"} => rows[engine[r].id] # NoRow

\* Whose evidence is still being added.
Pending(i) == UNION {engine[r].left : r \in {q \in Replicas : engine[q].id = i}}

\* "Explainable" (rules.go:174-201): the severity and the risk that an incident has
\* reached, over many evaluations, several leaders and changes of status, are no
\* more than what its rule makes of the evidence attached to it; only a piece of
\* evidence lost to an error or a crash (engine.go:152-156) excuses more.
Explained ==
  \A i \in Ids :
    rows[i] # NoRow /\ <<"evidence", i>> \notin lost =>
      LET E == rows[i].evidence \cup Pending(i)
      IN /\ sevRank(rows[i].sev) <= sevRank(SevOf(rows[i].rule, E))
         /\ rows[i].risk <= riskScore(rows[i].rule, E)

\* Whatever severity and risk an incident has reached has been notified, or the
\* replica that raised it is about to (engine.go:158-162): no leader relies on
\* another one for that, and only a fault loses a notice.
Announced ==
  \A i \in Ids :
    \/ rows[i] = NoRow
    \/ sevRank(told[i].sev) >= sevRank(rows[i].sev) /\ told[i].risk >= rows[i].risk
    \/ <<"notice", i>> \in lost
    \/ \E r \in Replicas : engine[r].id = i /\ engine[r].notify
                           /\ engine[r].at \in {"evidence", "notify"}

\* The alerts a rule must take as evidence.
Due(n, a) == FoundBy(n, Recent) # {} /\ \A E \in FoundBy(n, Recent) : a \in E

\* An alert that a rule keeps matching becomes evidence of an open incident, through
\* crashes, changes of the leader, failed statements, refused inserts and operators
\* that close the incident (engine.go:90-156).
Correlated ==
  \A n \in Rules, a \in Alerts :
    Due(n, a) ~> ~Due(n, a) \/ \E i \in Open(n) : a \in rows[i].evidence

\* BumpIncident "refreshes an open incident" (store/incidents.go:106): one that was
\* resolved or closed keeps its severity, its risk and its evidence.
ClosedStays ==
  [][\A i \in Ids : (rows[i] # NoRow /\ ~IsOpen(i) /\ rows'[i].status = rows[i].status)
                      => rows'[i] = rows[i]]_vars

\* "The notifier announces an incident newly opened or raised" (engine.go:28-29), a
\* failed or interrupted notice included.
AnnouncedAtLast ==
  \A i \in Ids : rows[i] # NoRow ~> rows[i] # NoRow /\ told[i] # Untold

\* "proc + (target | ioc) within 5 minutes" (docs/decisions/0011-incident-engine.md,
\* table of the rules): the evidence of a rule lies within its window.
WithinWindow ==
  \A n \in Rules : \A E \in FoundBy(n, Recent) : \A a, b \in E : age[a] - age[b] <= Window(n)
=============================================================================
