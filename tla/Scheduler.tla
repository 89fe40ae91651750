----------------------------- MODULE Scheduler -----------------------------
(***************************************************************************)
(* Scheduled jobs (internal/scheduler, store/scheduled_jobs.go): reports   *)
(* that operators schedule and the nightly AI analysis that every replica  *)
(* makes sure is there when it starts (internal/aijob).  Every controller  *)
(* replica has a scheduler; it sweeps while it leads, which is decided     *)
(* once per sweep, by module Leader.                                       *)
(*                                                                         *)
(* Time is counted in units shorter than any recurrence.  What a handler   *)
(* does is external; that it ran is what matters, and its error is only    *)
(* written down.  A failed statement counts as a fault.                    *)
(***************************************************************************)
EXTENDS Leader, Sequences, FiniteSetsExt

CONSTANTS
  Nightly,  \* ai.nightly.enabled
  Period,   \* of a recurrence: the minutes of "interval", the day of "daily"
  Deleted,  \* in place of a row
  MaxTime,  \* bound: the clock
  MaxJobs   \* bound: rows ever created

ASSUME SchedulerAssumption ==
  /\ Nightly \in BOOLEAN /\ Period \in Nat \ {0} /\ MaxTime \in Nat \ {0} /\ MaxJobs \in Nat

VARIABLES
  clock,
  jobs,    \* scheduled_jobs, by id
  boot,    \* how far main of each replica has come
  sweep,   \* what the scheduler of each replica is doing
  ran,     \* history: of each job, the times of the sweeps that ran its handler
  excused  \* history: jobs that something could make run twice

vars == <<leaderVars, clock, jobs, boot, sweep, ran, excused>>

Recurrences == {"interval", "daily"}

\* No job at hand; then, between its handler and the update of its row.
Idle == [at |-> "idle", now |-> 0, due |-> {}]

Init ==
  /\ LeaderInit
  /\ clock = 1 /\ jobs = <<>> /\ ran = <<>> /\ excused = {}
  /\ boot = [r \in Replicas |-> "start"]
  /\ sweep = [r \in Replicas |-> Idle]

MutNextRun(spec, now) == IF spec = "interval" THEN now + Period ELSE ((now + Period - 1) \div Period) * Period
\* NextRun: the first time after now.
NextRun(spec, now) == IF spec = "interval" THEN now + Period ELSE (now \div Period + 1) * Period

Rows == {i \in DOMAIN jobs : jobs[i] # Deleted}

Create(kind, spec) ==
  /\ Len(jobs) < MaxJobs
  /\ jobs' = Append(jobs, [kind |-> kind, spec |-> spec, next |-> NextRun(spec, clock)])
  /\ ran' = Append(ran, <<>>)

-----------------------------------------------------------------------------
(* A replica starts: EnsureJob, then the election and the sweeps.          *)

Boots(r, from, to) ==
  /\ r \in up /\ boot[r] = from
  /\ boot' = [boot EXCEPT ![r] = to]

\* The list of jobs is read ...
EnsureList(r) ==
  /\ Boots(r, "start",
           IF Nightly /\ \A i \in Rows : jobs[i].kind # "ai_report" THEN "create" ELSE "running")
  /\ UNCHANGED <<leaderVars, clock, jobs, sweep, ran, excused>>

\* ... and the job created if it was not there.
EnsureCreate(r) ==
  /\ Boots(r, "create", "running")
  /\ \/ Create("ai_report", "daily")
     \/ Len(jobs) = MaxJobs /\ UNCHANGED <<jobs, ran>>  \* beyond the bound
  /\ UNCHANGED <<leaderVars, clock, sweep, excused>>

\* Either statement fails: logged.
EnsureFails(r) ==
  /\ Nightly /\ boot[r] \in {"start", "create"}
  /\ Boots(r, boot[r], "running")
  /\ Fault
  /\ UNCHANGED <<up, lock, releasing, holder, broken, clock, jobs, sweep, ran, excused>>

-----------------------------------------------------------------------------
(* sweep.                                                                  *)

MutDue(i) == jobs[i].next = clock
\* DueScheduledJobs (there is no operation that disables a job).
Due(i) == jobs[i].next <= clock

\* What the replica's list still holds, the job at hand included.
InHand(r) == sweep[r].due

\* leading(), asked once per sweep.
MayLead(r) == IsLeader(r)

\* A failed query ends the sweep at once, as if nothing were due.
SweepBegins(r) ==
  /\ boot[r] = "running" /\ r \in up /\ sweep[r].at = "idle" /\ MayLead(r)
  /\ \E S \in {{i \in Rows : Due(i)}} :
       /\ S # {}
       /\ sweep' = [sweep EXCEPT ![r] = [at |-> "job", now |-> clock, due |-> S]]
       /\ excused' = excused \cup (S \cap UNION {InHand(q) : q \in Replicas \ {r}})
  /\ UNCHANGED <<leaderVars, clock, jobs, boot, ran>>

Job(r) == Min(sweep[r].due)

\* The handler of the next job of the list runs, whatever became of the
\* leadership and of the job since the list was read.
RunHandler(r) ==
  /\ sweep[r].at = "job"
  /\ ran' = [ran EXCEPT ![Job(r)] = Append(@, sweep[r].now)]
  /\ sweep' = [sweep EXCEPT ![r].at = "mark"]
  /\ UNCHANGED <<leaderVars, clock, jobs, boot, excused>>

MutRest(r) == [sweep[r] EXCEPT !.at = "job", !.due = @ \ {Job(r)}]
\* The list without the job at hand; after the last one the sweep is over.
Rest(r) ==
  IF sweep[r].due = {Job(r)} THEN Idle
  ELSE [sweep[r] EXCEPT !.at = "job", !.due = @ \ {Job(r)}]

\* MarkScheduledJobRun, with the next run as seen from the sweep.
Mark(r) ==
  LET i == Job(r) IN
  /\ sweep[r].at = "mark"
  /\ jobs' = IF i \in Rows THEN [jobs EXCEPT ![i].next = NextRun(jobs[i].spec, sweep[r].now)] ELSE jobs
  /\ sweep' = [sweep EXCEPT ![r] = Rest(r)]
  /\ UNCHANGED <<leaderVars, clock, boot, ran, excused>>

\* Logged; the job remains due.
MarkFails(r) ==
  /\ sweep[r].at = "mark"
  /\ Fault
  /\ excused' = excused \cup {Job(r)}
  /\ sweep' = [sweep EXCEPT ![r] = Rest(r)]
  /\ UNCHANGED <<up, lock, releasing, holder, broken, clock, jobs, boot, ran>>

Sweeps(r) == SweepBegins(r) \/ RunHandler(r) \/ Mark(r)

-----------------------------------------------------------------------------
(* Operators, time, processes.                                             *)

\* handleReportSchedulePost (a spec that NextRun refuses changes nothing).
Schedule ==
  /\ \E spec \in Recurrences : Create("report", spec)
  /\ UNCHANGED <<leaderVars, clock, boot, sweep, excused>>

\* handleReportScheduleDelete.
Delete ==
  /\ \E i \in Rows : jobs' = [jobs EXCEPT ![i] = Deleted]
  /\ UNCHANGED <<leaderVars, clock, boot, sweep, ran, excused>>

TimePasses ==
  /\ clock < MaxTime
  /\ clock' = clock + 1
  /\ UNCHANGED <<leaderVars, jobs, boot, sweep, ran, excused>>

\* The election starts when the jobs are registered.
Election ==
  /\ \/ Reap
     \/ \E r \in Replicas :
          \/ boot[r] = "running" /\ (Tick(r) \/ AcquireFails(r))
          \/ PingTimesOut(r) \/ Release(r) \/ ConnBreaks(r)
  /\ UNCHANGED <<clock, jobs, boot, sweep, ran, excused>>

\* SIGTERM: the election ends at once, while Stop of the scheduler waits for the
\* end of the sweep.
HubStops(r) ==
  /\ Stop(r)
  /\ UNCHANGED <<clock, jobs, boot, sweep, ran, excused>>

\* A process dies, perhaps while it is waiting so.
HubCrashes(r) ==
  /\ \/ Crash(r)
     \/ r \notin up /\ sweep[r] # Idle /\ Fault /\ UNCHANGED <<up, lock, releasing, holder, broken>>
  /\ sweep' = [sweep EXCEPT ![r] = Idle]
  /\ excused' = IF sweep[r].at = "mark" THEN excused \cup {Job(r)} ELSE excused
  /\ UNCHANGED <<clock, jobs, boot, ran>>

HubRestarts(r) ==
  /\ sweep[r] = Idle
  /\ Restart(r)
  /\ boot' = [boot EXCEPT ![r] = "start"]
  /\ UNCHANGED <<clock, jobs, sweep, ran, excused>>

Boot(r) == EnsureList(r) \/ EnsureCreate(r)

Next ==
  \/ Schedule \/ Delete \/ TimePasses \/ Election
  \/ \E r \in Replicas : \/ Boot(r) \/ EnsureFails(r) \/ Sweeps(r) \/ MarkFails(r)
                         \/ HubStops(r) \/ HubCrashes(r) \/ HubRestarts(r)

\* Sweeps come every 30 s and a handler has five minutes; replicas that stopped
\* are started again; the election is fair as in Leader.
Fairness ==
  /\ WF_vars(Reap /\ Election)
  /\ \A r \in Replicas :
       /\ WF_vars(Tick(r) /\ Election) /\ WF_vars(Release(r) /\ Election)
       /\ WF_vars(Boot(r)) /\ WF_vars(Sweeps(r)) /\ WF_vars(HubRestarts(r))

Spec == Init /\ [][Next]_vars /\ Fairness

-----------------------------------------------------------------------------
(* Properties.                                                             *)

TypeOK ==
  /\ LeaderTypeOK
  /\ clock \in 1..MaxTime /\ boot \in [Replicas -> {"start", "create", "running"}]
  /\ Len(jobs) <= MaxJobs /\ DOMAIN ran = DOMAIN jobs
  /\ \A i \in Rows : jobs[i].spec \in Recurrences /\ jobs[i].next \in 1..MaxTime+Period
  /\ \A r \in Replicas :
       /\ sweep[r].at \in {"idle", "job", "mark"} /\ sweep[r].now <= clock
       /\ sweep[r].due \subseteq DOMAIN jobs
       /\ (sweep[r].due = {}) = (sweep[r].at = "idle")
  /\ excused \subseteq DOMAIN jobs

\* Runs of the same job at t and, later, at u are a recurrence apart.
Apart(spec, t, u) == IF spec = "interval" THEN t + Period <= u ELSE t \div Period < u \div Period
RunsApart(i) == \A m, n \in DOMAIN ran[i] : m < n => Apart(jobs[i].spec, ran[i][m], ran[i][n])

\* A job never runs twice for one occurrence, and however many it has missed, it
\* makes up for them with one run, unless a crash or a failed update came between
\* its handler and its row, or two leaders had it in hand together
\* (scheduler.go:72-114).
NoBurst == \A i \in Rows \ excused : RunsApart(i)

\* No occurrence is forgotten: a job that is due runs, late perhaps, whoever
\* leads, crashes or stops in between (scheduler.go:6-8).
Waits(i) == i \in Rows /\ Due(i) /\ \A r \in Replicas : sweep[r].at = "mark" => Job(r) # i
NothingMissed ==
  \A i \in 1..MaxJobs, k \in 0..MaxTime :
    (Waits(i) /\ Len(ran[i]) = k) ~> (i \notin Rows \/ Len(ran[i]) > k)

\* "Only the leader runs jobs: a report is not mailed twice" (0009:27-28).
MailedOnce == \A i \in Rows : RunsApart(i)

\* EnsureJob "creates the row of ai_report once" (aijob.go:66).
OneNightlyJob == Cardinality({i \in Rows : jobs[i].kind = "ai_report"}) <= 1

=============================================================================
