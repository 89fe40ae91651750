------------------------------- MODULE Leader -------------------------------
(***************************************************************************)
(* The leadership of a role (internal/store/leader.go).  The alert engine, *)
(* the device poller and the scheduler run on every hub replica and act    *)
(* only on the one that leads: the replica whose dedicated connection      *)
(* holds the role's PostgreSQL advisory lock.  IsLeader answers from       *)
(* memory; the connection is looked at once per tick of ten seconds.       *)
(* (With SQLite there is one process, and it always leads.)                *)
(*                                                                         *)
(* PostgreSQL is external: it frees the lock of a session when it notices  *)
(* that its connection is gone, which may be before or after the replica   *)
(* notices.                                                                *)
(***************************************************************************)
EXTENDS Naturals, FiniteSets

CONSTANTS
  Replicas,
  None,      \* the lock is free
  Orphan,    \* the lock is held by a session that no replica has any more
  MaxFaults  \* bound: connections lost, statements failed, processes killed

ASSUME LeaderAssumption ==
  /\ None \notin Replicas /\ Orphan \notin Replicas /\ None # Orphan
  /\ MaxFaults \in Nat

VARIABLES
  up,        \* running replicas
  lock,      \* replicas whose Leader.lock is set
  releasing, \* replicas that have cleared Leader.lock and not yet released the session
  holder,    \* at PostgreSQL: whose session holds the advisory lock
  broken,    \* history: replicas whose connection failed since they took the lock
  faults

leaderVars == <<up, lock, releasing, holder, broken, faults>>

LeaderInit ==
  /\ up = Replicas
  /\ lock = {} /\ releasing = {} /\ broken = {}
  /\ holder = None
  /\ faults = 0

IsLeader(r) == r \in lock

Fault == faults < MaxFaults /\ faults' = faults + 1

\* The session of r is closed: PostgreSQL frees its lock, at once or when it
\* notices.
Closed(r) == IF holder = r THEN {None, Orphan} ELSE {holder}

TryLock(r) == holder = None

-----------------------------------------------------------------------------
(* tick.                                                                   *)

\* tryLeadership.
Acquire(r) ==
  /\ r \in up \ (lock \cup releasing)
  /\ TryLock(r)
  /\ holder' = r /\ lock' = lock \cup {r} /\ broken' = broken \ {r}
  /\ UNCHANGED <<up, releasing, faults>>

\* The statement fails, although the lock may have been taken: the connection
\* is closed, which gives it back.
AcquireFails(r) ==
  /\ r \in up \ (lock \cup releasing)
  /\ TryLock(r)
  /\ Fault
  /\ holder' \in {None, Orphan}
  /\ UNCHANGED <<up, lock, releasing, broken>>

MutDrop(r) ==
  /\ holder' \in Closed(r)
  /\ UNCHANGED <<up, lock, releasing, broken>>
\* drop: memory first ...
Drop(r) ==
  /\ lock' = lock \ {r} /\ releasing' = releasing \cup {r}
  /\ UNCHANGED <<up, holder, broken>>

MutHealthy(r) == TRUE
Healthy(r) == holder = r

\* A leader whose connection answers stays, a refused replica waits.
Keep(r) ==
  /\ r \in up
  /\ IF r \in lock THEN Healthy(r) ELSE ~TryLock(r)
  /\ UNCHANGED leaderVars

\* A leader whose connection is gone steps down.
StepDown(r) ==
  /\ r \in lock /\ r \notin releasing /\ ~Healthy(r)
  /\ Drop(r)
  /\ UNCHANGED faults

\* It also does when the ping of a good connection takes more than 3 s.
PingTimesOut(r) ==
  /\ r \in lock /\ r \notin releasing /\ Healthy(r)
  /\ Fault
  /\ Drop(r)

MutRelease(r) ==
  /\ r \in releasing
  /\ releasing' = releasing \ {r}
  /\ UNCHANGED <<up, lock, holder, broken, faults>>
\* ... then the session.
Release(r) ==
  /\ r \in releasing
  /\ releasing' = releasing \ {r}
  /\ holder' \in Closed(r)
  /\ UNCHANGED <<up, lock, broken, faults>>

-----------------------------------------------------------------------------
(* The process and its connection.                                         *)

ConnBreaks(r) ==
  /\ holder = r
  /\ Fault
  /\ holder' \in Closed(r) /\ broken' = broken \cup {r}
  /\ UNCHANGED <<up, lock, releasing>>

\* PostgreSQL notices that the client of the holding session is gone.
Reap ==
  /\ holder = Orphan
  /\ holder' = None
  /\ UNCHANGED <<up, lock, releasing, broken, faults>>

\* The context of Run ends: the deferred drop.
Stop(r) ==
  /\ r \in up /\ r \notin releasing
  /\ Fault
  /\ up' = up \ {r} /\ lock' = lock \ {r}
  /\ releasing' = releasing \cup ({r} \cap lock)
  /\ UNCHANGED <<holder, broken>>

Crash(r) ==
  /\ r \in up
  /\ Fault
  /\ up' = up \ {r} /\ lock' = lock \ {r} /\ releasing' = releasing \ {r}
  /\ holder' \in Closed(r)
  /\ UNCHANGED broken

Restart(r) ==
  /\ r \notin up /\ r \notin releasing
  /\ up' = up \cup {r}
  /\ UNCHANGED <<lock, releasing, holder, broken, faults>>

Tick(r) == Acquire(r) \/ StepDown(r)

LeaderNext ==
  \/ Reap
  \/ \E r \in Replicas :
       \/ Tick(r) \/ Keep(r) \/ AcquireFails(r) \/ PingTimesOut(r) \/ Release(r)
       \/ ConnBreaks(r) \/ Stop(r) \/ Crash(r) \/ Restart(r)

\* The ticker of Run fires for ever, drop runs to its end (its statements have a
\* timeout), PostgreSQL's keep-alives find dead clients.
LeaderFairness ==
  /\ WF_leaderVars(Reap)
  /\ \A r \in Replicas : WF_leaderVars(Tick(r)) /\ WF_leaderVars(Release(r))

LeaderSpec == LeaderInit /\ [][LeaderNext]_leaderVars /\ LeaderFairness

-----------------------------------------------------------------------------
(* Properties.                                                             *)

LeaderTypeOK ==
  /\ up \subseteq Replicas /\ lock \subseteq up /\ broken \subseteq Replicas
  /\ releasing \subseteq Replicas
  /\ holder \in Replicas \cup {None, Orphan}
  /\ faults \in 0..MaxFaults

\* A replica that still believes in a lock it no longer holds has lost its
\* connection: an orderly handover (drop clears the memory before it releases
\* the session, leader.go:106-114) never makes two leaders.
StaleOnlyIfBroken == \A r \in lock : holder = r \/ r \in broken

\* When connections are left alone, one running replica takes the lead and
\* keeps it, and all others know that they do not have it.
SettlesOnOne == <>[](up # {} => Cardinality(lock) = 1 /\ holder \in lock)

\* "The alert engine and the SNMP poller must run on EXACTLY ONE of the
\* controller replicas" (leader.go:5-6).
OneLeader == Cardinality(lock) <= 1

=============================================================================
