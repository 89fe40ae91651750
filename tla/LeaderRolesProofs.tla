-------------------------- MODULE LeaderRolesProofs --------------------------
(***************************************************************************)
(* Proofs about the election of the leader of a role (module Leader) and   *)
(* about two of the roles that only the leader plays: the scheduled jobs   *)
(* (Scheduler) and the alert engine (AlertLifecycle), for any replicas,    *)
(* jobs, events and faults.  The two share the election, and what its      *)
(* invariant says is proved once for both.                                 *)
(***************************************************************************)
EXTENDS Scheduler, AlertLifecycle, FiniteSetTheorems, WellFoundedInduction, TLAPS

\* A replica that is still closing its session has already forgotten it led.
MemoryFirst == releasing \cap lock = {}

\* The invariant of the election: without MemoryFirst, Release could take the lock
\* away from a replica that still believes in it.
ElectionInv == LeaderTypeOK /\ MemoryFirst /\ StaleOnlyIfBroken

JobRow == [kind : {"report", "ai_report"}, spec : Recurrences, next : 1..MaxTime+Period]
Sweeping == [at : {"idle", "job", "mark"}, now : 0..MaxTime, due : SUBSET (1..MaxJobs)]

\* What the steps need to know of the shape of the state.
JobTypes ==
  /\ clock \in 1..MaxTime /\ boot \in [Replicas -> {"start", "create", "running"}]
  /\ jobs \in Seq(JobRow \cup {Deleted}) /\ ran \in Seq(Seq(0..MaxTime))
  /\ Len(jobs) <= MaxJobs /\ Len(ran) = Len(jobs)
  /\ sweep \in [Replicas -> Sweeping]
  /\ excused \subseteq DOMAIN jobs

SweepsOK == \A r \in Replicas :
  /\ sweep[r].now <= clock /\ InHand(r) \subseteq DOMAIN jobs
  /\ (InHand(r) = {}) = (sweep[r].at = "idle")

\* A job between its handler and the update of its row.
Marking(r, i) == sweep[r].at = "mark" /\ Job(r) = i

\* Run n of job i stands for an occurrence that is over at t.
Covered(i, n, t) == NextRun(jobs[i].spec, ran[i][n]) <= t

\* What makes the next run of a job a recurrence later than all its runs so far:
\* one replica has it in hand, and what it still has in hand is still due; the row
\* is ahead of every run, but for the run whose update is under way.
JobOK(i) ==
  /\ \A q, r \in Replicas : i \in InHand(q) /\ i \in InHand(r) => q = r
  /\ \A r \in Replicas : i \in InHand(r) => Marking(r, i) \/ jobs[i].next <= sweep[r].now
  /\ (\A r \in Replicas : ~Marking(r, i)) => \A n \in DOMAIN ran[i] : Covered(i, n, jobs[i].next)
  /\ \A r \in Replicas : Marking(r, i) =>
       /\ ran[i] # <<>> /\ ran[i][Len(ran[i])] = sweep[r].now
       /\ \A n \in DOMAIN ran[i] : n < Len(ran[i]) => Covered(i, n, sweep[r].now)
  /\ RunsApart(i)

\* NoBurst is not inductive: it looks back at the runs, and says nothing of the
\* row that decides when the job runs again.
BInv == ElectionInv /\ JobTypes /\ SweepsOK /\ \A i \in Rows \ excused : JobOK(i)

USE SchedulerAssumption, LeaderAssumption

-----------------------------------------------------------------------------
(* Recurrences.                                                            *)

\* What div yields.
LEMMA Division ==
  ASSUME NEW t \in Nat
  PROVE  /\ t \div Period \in Nat
         /\ (t \div Period) * Period <= t /\ t < (t \div Period) * Period + Period
  OBVIOUS

\* The next run comes after now, and no more than a period later.
LEMMA NextRunLater ==
  ASSUME NEW spec \in Recurrences, NEW t \in Nat
  PROVE  NextRun(spec, t) \in Nat /\ t < NextRun(spec, t) /\ NextRun(spec, t) <= t + Period
<1> DEFINE d == t \div Period
<1>1. d \in Nat /\ d * Period <= t /\ t < d * Period + Period
  BY Division
<1>2. (d + 1) * Period = d * Period + Period /\ d * Period \in Nat
  BY <1>1
<1> QED BY <1>1, <1>2 DEF NextRun

\* Later times have later next runs, and a run at the next run is a recurrence away.
LEMMA NextRunGrows ==
  ASSUME NEW spec \in Recurrences, NEW t \in Nat, NEW u \in Nat
  PROVE  /\ t <= u => NextRun(spec, t) <= NextRun(spec, u)
         /\ NextRun(spec, t) <= u => Apart(spec, t, u)
<1> DEFINE d == t \div Period
           e == u \div Period
<1>1. /\ d \in Nat /\ d * Period <= t /\ t < d * Period + Period
      /\ e \in Nat /\ e * Period <= u /\ u < e * Period + Period
  BY Division
<1>2. /\ (d + 1) * Period = d * Period + Period /\ d * Period \in Nat
      /\ (e + 1) * Period = e * Period + Period /\ e * Period \in Nat
  BY <1>1
<1>3. e < d => (e + 1) * Period <= d * Period
  BY <1>1
<1>4. e <= d => e * Period <= d * Period
  BY <1>1
<1>5. d <= e => d * Period <= e * Period
  BY <1>1
<1> HIDE DEF d, e
<1>6. t <= u => d <= e
  BY <1>1, <1>2, <1>3
<1>7. (d + 1) * Period <= u => d < e
  BY <1>1, <1>2, <1>4
<1>8. /\ NextRun(spec, t) = IF spec = "interval" THEN t + Period ELSE (d + 1) * Period
      /\ NextRun(spec, u) = IF spec = "interval" THEN u + Period ELSE (e + 1) * Period
      /\ Apart(spec, t, u) <=> IF spec = "interval" THEN t + Period <= u ELSE d < e
  BY DEF NextRun, Apart, d, e
<1> QED BY <1>1, <1>2, <1>5, <1>6, <1>7, <1>8

\* The job at hand is one of the list.
LEMMA LeastJob ==
  ASSUME JobTypes, SweepsOK, NEW r \in Replicas, sweep[r].at # "idle"
  PROVE  Job(r) \in InHand(r)
<1> DEFINE R == {p \in Nat \X Nat : p[1] < p[2]}
           S == InHand(r)
<1>1. S \subseteq Nat /\ S # {}
  <2>1. sweep[r] \in Sweeping
    BY DEF JobTypes
  <2>2. S \subseteq 1..MaxJobs
    BY <2>1 DEF Sweeping, InHand
  <2>3. S # {}
    BY DEF SweepsOK
  <2> QED BY <2>2, <2>3
<1>2. IsWellFoundedOn(R, Nat)
  BY NatLessThanWellFounded, Zenon DEF OpToRel
<1>3. PICK m \in S : \A y \in S : ~(<<y, m>> \in R)
  <2> HIDE DEF R, S
  <2> QED BY <1>1, <1>2, WFMin
<1>4. \A y \in S : m <= y
  <2>1. ASSUME NEW y \in S PROVE ~(y < m)
    BY <1>1, <1>3
  <2> QED BY <1>1, <2>1
<1>5. Job(r) = CHOOSE x \in S : \A y \in S : x <= y
  BY DEF Job, Min, InHand
<1> QED BY <1>4, <1>5

-----------------------------------------------------------------------------
(* What steps do to a job.                                                 *)

\* A row that is there, and its runs.
LEMMA RowTypes ==
  ASSUME JobTypes, NEW i \in Rows
  PROVE  /\ i \in DOMAIN jobs /\ jobs[i] \in JobRow /\ ran[i] \in Seq(0..MaxTime)
         /\ i \in DOMAIN ran
  BY DEF JobTypes, Rows

\* Job i is in the same hands as before, or in fewer.
SameHands(i) == \A r \in Replicas :
  /\ i \in InHand(r)' => i \in InHand(r) /\ sweep'[r].now = sweep[r].now
  /\ Marking(r, i)' <=> Marking(r, i)
  /\ Marking(r, i) => sweep'[r].now = sweep[r].now

\* A step that has nothing to do with job i.
LEMMA Elsewhere ==
  ASSUME NEW i, JobOK(i), SameHands(i), ran'[i] = ran[i],
         jobs'[i].spec = jobs[i].spec, jobs'[i].next = jobs[i].next
  PROVE  JobOK(i)'
<1>1. RunsApart(i)'
  BY DEF JobOK, RunsApart
<1>2. \A n : /\ Covered(i, n, jobs[i].next)' <=> Covered(i, n, jobs[i].next)
             /\ \A r \in Replicas : Marking(r, i) =>
                  (Covered(i, n, sweep[r].now)' <=> Covered(i, n, sweep[r].now))
  BY DEF Covered, NextRun, SameHands
<1>3. \A q, r \in Replicas : i \in InHand(q)' /\ i \in InHand(r)' => q = r
  BY DEF JobOK, SameHands
<1>4. \A r \in Replicas : i \in InHand(r)' => Marking(r, i)' \/ jobs'[i].next <= sweep'[r].now
  BY DEF JobOK, SameHands
<1>5. (\A r \in Replicas : ~Marking(r, i)') => \A n \in DOMAIN ran'[i] : Covered(i, n, jobs[i].next)'
  BY <1>2 DEF JobOK, SameHands
<1>6. \A r \in Replicas : Marking(r, i)' =>
       /\ ran'[i] # <<>> /\ ran'[i][Len(ran'[i])] = sweep'[r].now
       /\ \A n \in DOMAIN ran'[i] : n < Len(ran'[i]) => Covered(i, n, sweep[r].now)'
  BY <1>2 DEF JobOK, SameHands
<1> QED BY <1>1, <1>3, <1>4, <1>5, <1>6 DEF JobOK

\* All jobs of a step that leaves jobs, runs and sweeps alone.
LEMMA JobsUntouched ==
  ASSUME BInv, UNCHANGED <<jobs, ran, sweep>>, excused \subseteq excused'
  PROVE  \A i \in Rows' \ excused' : JobOK(i)'
<1>1. ASSUME NEW i \in Rows' \ excused' PROVE JobOK(i)'
  <2>1. i \in Rows \ excused
    BY <1>1 DEF Rows
  <2>2. SameHands(i)
    BY DEF SameHands, InHand, Marking, Job
  <2> QED BY <2>1, <2>2, Elsewhere DEF BInv
<1> QED BY <1>1

-----------------------------------------------------------------------------
(* Jobs come and go.                                                       *)

\* A new job has no runs, and nobody has it in hand.
LEMMA CreateStep ==
  ASSUME BInv, NEW kind \in {"report", "ai_report"}, NEW spec \in Recurrences, Create(kind, spec),
         UNCHANGED <<clock, sweep, excused>>, boot' \in [Replicas -> {"start", "create", "running"}]
  PROVE  JobTypes' /\ SweepsOK' /\ \A i \in Rows' \ excused' : JobOK(i)'
<1> DEFINE row == [kind |-> kind, spec |-> spec, next |-> NextRun(spec, clock)]
<1>1. row \in JobRow
  <2>1. clock \in Nat /\ clock <= MaxTime
    BY DEF BInv, JobTypes
  <2>2. NextRun(spec, clock) \in Nat /\ clock < NextRun(spec, clock) /\ NextRun(spec, clock) <= clock + Period
    BY <2>1, NextRunLater
  <2>3. NextRun(spec, clock) \in 1..MaxTime+Period
    BY <2>1, <2>2
  <2> QED BY <2>3 DEF JobRow
<1>2. jobs' = Append(jobs, row) /\ ran' = Append(ran, <<>>) /\ Len(jobs) < MaxJobs
  BY DEF Create
<1> HIDE DEF row
<1>3. /\ jobs' \in Seq(JobRow \cup {Deleted}) /\ ran' \in Seq(Seq(0..MaxTime))
      /\ Len(jobs') = Len(jobs) + 1 /\ Len(ran') = Len(jobs')
      /\ \A i \in DOMAIN jobs : i \in DOMAIN jobs' /\ jobs'[i] = jobs[i] /\ ran'[i] = ran[i]
      /\ ran'[Len(jobs')] = <<>> /\ DOMAIN jobs' = DOMAIN jobs \cup {Len(jobs')} /\ Len(jobs') \notin DOMAIN jobs
  BY <1>1, <1>2 DEF BInv, JobTypes
<1>4. JobTypes'
  BY <1>2, <1>3 DEF BInv, JobTypes
<1>5. SweepsOK'
  BY <1>3 DEF BInv, SweepsOK, InHand
<1>6. ASSUME NEW i \in Rows' \ excused' PROVE JobOK(i)'
  <2>1. CASE i \in DOMAIN jobs
    <3>1. i \in Rows \ excused /\ jobs'[i] = jobs[i] /\ ran'[i] = ran[i]
      BY <1>3, <1>6, <2>1 DEF Rows
    <3>2. SameHands(i)
      BY DEF SameHands, InHand, Marking, Job
    <3> QED BY <3>1, <3>2, Elsewhere DEF BInv
  <2>2. CASE i = Len(jobs')
    <3>1. ran'[i] = <<>> /\ \A r \in Replicas : i \notin InHand(r)'
      BY <1>3, <2>2 DEF BInv, SweepsOK, InHand
    <3>2. \A r \in Replicas : ~Marking(r, i)'
      <4>1. ASSUME NEW r \in Replicas, sweep[r].at = "mark" PROVE Job(r) # i
        BY <3>1, <4>1, LeastJob DEF BInv, InHand
      <4> QED BY <4>1 DEF Marking, Job
    <3> QED BY <3>1, <3>2 DEF JobOK, RunsApart
  <2> QED BY <1>3, <1>6, <2>1, <2>2 DEF Rows
<1> QED BY <1>4, <1>5, <1>6

\* A deleted job is left to the sweeps that have it in hand.
LEMMA DeleteStep ==
  ASSUME BInv, Delete
  PROVE  JobTypes' /\ SweepsOK' /\ \A i \in Rows' \ excused' : JobOK(i)'
<1>1. PICK d \in Rows : jobs' = [jobs EXCEPT ![d] = Deleted]
  BY DEF Delete
<1>2. /\ jobs' \in Seq(JobRow \cup {Deleted}) /\ Len(jobs') = Len(jobs) /\ DOMAIN jobs' = DOMAIN jobs
      /\ jobs'[d] = Deleted /\ \A i \in DOMAIN jobs : i # d => jobs'[i] = jobs[i]
  BY <1>1 DEF BInv, JobTypes, Rows
<1>3. JobTypes' /\ SweepsOK'
  BY <1>2 DEF BInv, JobTypes, SweepsOK, InHand, Delete
<1>4. ASSUME NEW i \in Rows' \ excused' PROVE JobOK(i)'
  <2>1. i \in Rows \ excused /\ jobs'[i] = jobs[i] /\ ran'[i] = ran[i]
    BY <1>2, <1>4 DEF Rows, Delete
  <2>2. SameHands(i)
    BY DEF SameHands, InHand, Marking, Job, Delete
  <2> QED BY <2>1, <2>2, Elsewhere DEF BInv
<1> QED BY <1>3, <1>4

-----------------------------------------------------------------------------
(* Sweeps.                                                                 *)

\* The sweep of r goes on with less in hand: for the jobs it was not at, nothing changes.
LEMMA LessInHand ==
  ASSUME JobTypes, NEW r \in Replicas, NEW x, sweep' = [sweep EXCEPT ![r] = x],
         x.at # "mark", x.due \subseteq InHand(r), x.due # {} => x.now = sweep[r].now,
         NEW i, ~Marking(r, i)
  PROVE  SameHands(i)
<1>1. sweep'[r] = x /\ \A q \in Replicas \ {r} : sweep'[q] = sweep[q]
  BY DEF JobTypes
<1>2. \A q \in Replicas \ {r} : InHand(q)' = InHand(q) /\ (Marking(q, i)' <=> Marking(q, i))
  BY <1>1 DEF InHand, Marking, Job
<1>3. InHand(r)' = x.due /\ ~Marking(r, i)'
  BY <1>1 DEF InHand, Marking
<1> QED BY <1>1, <1>2, <1>3 DEF SameHands

\* A sweep takes what is due; a job that another one has in hand is excused.
LEMMA SweepBeginsStep ==
  ASSUME BInv, NEW r \in Replicas, SweepBegins(r)
  PROVE  JobTypes' /\ SweepsOK' /\ \A i \in Rows' \ excused' : JobOK(i)'
<1> DEFINE S == {i \in Rows : Due(i)}
           x == [at |-> "job", now |-> clock, due |-> S]
<1>1. /\ S # {} /\ sweep[r].at = "idle" /\ sweep' = [sweep EXCEPT ![r] = x]
      /\ excused' = excused \cup (S \cap UNION {InHand(q) : q \in Replicas \ {r}})
      /\ UNCHANGED <<clock, jobs, boot, ran>>
  BY DEF SweepBegins
<1>2. S \subseteq DOMAIN jobs /\ S \subseteq Rows /\ \A i \in S : jobs[i].next <= clock
  BY DEF Rows, Due
<1>3. DOMAIN jobs \subseteq 1..MaxJobs /\ clock \in 0..MaxTime
  BY DEF BInv, JobTypes
<1> HIDE DEF S
<1>4. x \in Sweeping
  BY <1>2, <1>3 DEF Sweeping
<1>5. sweep'[r] = x /\ \A q \in Replicas \ {r} : sweep'[q] = sweep[q]
  BY <1>1 DEF BInv, JobTypes
<1>6. JobTypes'
  BY <1>1, <1>2, <1>4 DEF BInv, JobTypes
<1>7. SweepsOK'
  BY <1>1, <1>2, <1>3, <1>5 DEF BInv, SweepsOK, InHand
<1>8. InHand(r) = {} /\ InHand(r)' = S /\ \A i : ~Marking(r, i) /\ ~Marking(r, i)'
  BY <1>1, <1>5 DEF BInv, SweepsOK, InHand, Marking
<1>9. \A q \in Replicas \ {r} : InHand(q)' = InHand(q) /\ \A i : (Marking(q, i)' <=> Marking(q, i))
  BY <1>5 DEF InHand, Marking, Job
<1>10. ASSUME NEW i \in Rows' \ excused' PROVE JobOK(i)'
  <2>1. i \in Rows \ excused /\ JobOK(i)
    BY <1>1, <1>10 DEF Rows, BInv
  <2>2. CASE i \notin S
    <3>1. SameHands(i)
      BY <1>5, <1>8, <1>9, <2>2 DEF SameHands
    <3> QED BY <1>1, <2>1, <3>1, Elsewhere
  <2>3. CASE i \in S
    <3>1. \A q \in Replicas \ {r} : i \notin InHand(q) /\ i \notin InHand(q)'
      BY <1>1, <1>9, <1>10, <2>3
    <3>2. \A q \in Replicas : ~Marking(q, i) /\ ~Marking(q, i)'
      <4>1. ASSUME NEW q \in Replicas \ {r}, sweep[q].at = "mark" PROVE Job(q) # i
        BY <3>1, <4>1, LeastJob DEF BInv
      <4> QED BY <1>8, <1>9, <4>1 DEF Marking
    <3>3. RunsApart(i)' /\ \A n \in DOMAIN ran'[i] : Covered(i, n, jobs[i].next)'
      BY <1>1, <2>1, <3>2 DEF JobOK, RunsApart, Covered, NextRun
    <3>4. jobs'[i].next <= sweep'[r].now
      BY <1>1, <1>2, <1>5, <2>3
    <3> QED BY <3>1, <3>2, <3>3, <3>4 DEF JobOK
  <2> QED BY <2>2, <2>3
<1> QED BY <1>6, <1>7, <1>10

\* The runs so far and one more.
LEMMA OneMore ==
  ASSUME NEW S, NEW s \in Seq(S), NEW e \in S, NEW t, t = Append(s, e)
  PROVE  /\ t # <<>> /\ Len(t) = Len(s) + 1 /\ t[Len(t)] = e
         /\ \A n \in DOMAIN t : n < Len(t) => n \in DOMAIN s /\ t[n] = s[n]
         /\ Len(s) \in Nat /\ \A n \in DOMAIN t : n \in Nat /\ n <= Len(t)
  OBVIOUS

\* The run of the handler is a recurrence later than the runs before it.
LEMMA RunHandlerStep ==
  ASSUME BInv, NEW r \in Replicas, RunHandler(r)
  PROVE  JobTypes' /\ SweepsOK' /\ \A i \in Rows' \ excused' : JobOK(i)'
<1> DEFINE j == Job(r)
           now == sweep[r].now
<1>1. /\ sweep[r].at = "job" /\ ran' = [ran EXCEPT ![j] = Append(@, now)]
      /\ sweep' = [sweep EXCEPT ![r].at = "mark"] /\ UNCHANGED <<clock, jobs, boot, excused>>
  BY DEF RunHandler
<1>2. j \in InHand(r) /\ j \in DOMAIN jobs /\ j \in DOMAIN ran
  <2>1. j \in InHand(r)
    BY <1>1, LeastJob DEF BInv
  <2>2. j \in DOMAIN jobs
    BY <2>1 DEF BInv, SweepsOK
  <2> QED BY <2>1, <2>2 DEF BInv, JobTypes
<1>3. sweep[r] \in Sweeping /\ now \in 0..MaxTime
  BY DEF BInv, JobTypes, Sweeping
<1>4. /\ sweep'[r] \in Sweeping /\ sweep'[r].at = "mark" /\ sweep'[r].now = now /\ sweep'[r].due = sweep[r].due
      /\ \A q \in Replicas \ {r} : sweep'[q] = sweep[q]
  BY <1>1, <1>3 DEF BInv, JobTypes, Sweeping
<1>5. ran[j] \in Seq(0..MaxTime) /\ ran'[j] = Append(ran[j], now) /\ \A i \in DOMAIN ran : i # j => ran'[i] = ran[i]
  BY <1>1, <1>2 DEF BInv, JobTypes
<1>6. JobTypes'
  <2>1. ran' \in Seq(Seq(0..MaxTime)) /\ Len(ran') = Len(ran)
    BY <1>1, <1>2, <1>3, <1>5 DEF BInv, JobTypes
  <2>2. sweep' \in [Replicas -> Sweeping]
    BY <1>1, <1>4 DEF BInv, JobTypes
  <2> QED BY <1>1, <2>1, <2>2 DEF BInv, JobTypes
<1>7. SweepsOK'
  BY <1>1, <1>2, <1>4 DEF BInv, SweepsOK, InHand
<1>8. /\ \A q \in Replicas : InHand(q)' = InHand(q)
      /\ Job(r)' = j /\ \A i : Marking(r, i)' <=> i = j
      /\ \A q \in Replicas \ {r} : \A i : Marking(q, i)' <=> Marking(q, i)
      /\ \A i : ~Marking(r, i)
  BY <1>1, <1>4 DEF InHand, Marking, Job
<1> HIDE DEF j, now
<1>9. ASSUME NEW i \in Rows' \ excused' PROVE JobOK(i)'
  <2>1. i \in Rows \ excused /\ JobOK(i)
    BY <1>1, <1>9 DEF Rows, BInv
  <2>2. CASE i # j
    <3>1. SameHands(i)
      BY <1>4, <1>8, <2>2 DEF SameHands, now
    <3>2. i \in DOMAIN ran
      BY <2>1, RowTypes DEF BInv
    <3> QED BY <1>1, <1>5, <2>1, <2>2, <3>1, <3>2, Elsewhere
  <2>3. CASE i = j
    <3>1. \A q \in Replicas : i \in InHand(q) => q = r
      BY <1>2, <2>1, <2>3 DEF JobOK
    <3>2. \A q \in Replicas : ~Marking(q, i)
      <4>1. ASSUME NEW q \in Replicas, sweep[q].at = "mark" PROVE Job(q) # i
        BY <1>1, <3>1, <4>1, LeastJob DEF BInv
      <4> QED BY <4>1 DEF Marking
    <3>3. jobs[i].next <= now
      BY <1>2, <2>1, <2>3, <3>2 DEF JobOK, now
    <3>4. \A n \in DOMAIN ran[i] : Covered(i, n, jobs[i].next)
      BY <2>1, <3>2 DEF JobOK
    <3>5. jobs[i] \in JobRow /\ jobs[i].spec \in Recurrences /\ jobs[i].next \in Nat /\ now \in Nat
      BY <1>3, <2>1, RowTypes DEF BInv, JobRow
    <3>6. \A n \in DOMAIN ran[i] : /\ ran[i][n] \in Nat /\ NextRun(jobs[i].spec, ran[i][n]) \in Nat
                                   /\ NextRun(jobs[i].spec, ran[i][n]) <= now
      <4>1. ASSUME NEW n \in DOMAIN ran[i] PROVE ran[i][n] \in Nat
        BY <1>5, <2>3
      <4>2. \A n \in DOMAIN ran[i] : NextRun(jobs[i].spec, ran[i][n]) \in Nat
        BY <3>5, <4>1, NextRunLater
      <4> QED BY <3>3, <3>4, <3>5, <4>1, <4>2 DEF Covered
    <3>7. /\ ran'[i] # <<>> /\ Len(ran'[i]) = Len(ran[i]) + 1 /\ ran'[i][Len(ran'[i])] = now
          /\ \A n \in DOMAIN ran'[i] : n < Len(ran'[i]) => n \in DOMAIN ran[i] /\ ran'[i][n] = ran[i][n]
          /\ Len(ran[i]) \in Nat /\ \A n \in DOMAIN ran'[i] : n \in Nat /\ n <= Len(ran'[i])
      BY <1>3, <1>5, <2>3, OneMore
    <3>8. \A n \in DOMAIN ran'[i] : n < Len(ran'[i]) => Covered(i, n, sweep[r].now)'
      BY <1>1, <1>4, <3>6, <3>7 DEF Covered, NextRun
    <3>9. RunsApart(i)'
      <4>1. \A n \in DOMAIN ran[i] : Apart(jobs[i].spec, ran[i][n], now)
        BY <3>5, <3>6, NextRunGrows
      <4>2. \A m, n \in DOMAIN ran[i] : m < n => Apart(jobs[i].spec, ran[i][m], ran[i][n])
        BY <2>1 DEF JobOK, RunsApart
      <4>3. ASSUME NEW m \in DOMAIN ran'[i], NEW n \in DOMAIN ran'[i], m < n
            PROVE  Apart(jobs[i].spec, ran'[i][m], ran'[i][n])
        <5>1. m \in DOMAIN ran[i] /\ ran'[i][m] = ran[i][m]
          BY <3>7, <4>3
        <5>2. CASE n < Len(ran'[i])
          BY <3>7, <4>2, <4>3, <5>1, <5>2
        <5>3. CASE n = Len(ran'[i])
          BY <3>7, <4>1, <5>1, <5>3
        <5> QED BY <3>7, <5>2, <5>3
      <4> QED BY <1>1, <4>3 DEF RunsApart, Apart
    <3> QED BY <1>4, <1>8, <2>3, <3>1, <3>2, <3>7, <3>8, <3>9 DEF JobOK
  <2> QED BY <2>2, <2>3
<1> QED BY <1>6, <1>7, <1>9

\* The rest of the list.
LEMMA RestFacts ==
  ASSUME JobTypes, SweepsOK, NEW r \in Replicas, sweep[r].at = "mark"
  PROVE  /\ Job(r) \in InHand(r) /\ Job(r) \in DOMAIN jobs
         /\ Rest(r) \in Sweeping /\ Rest(r).at # "mark" /\ Rest(r).now <= clock
         /\ Rest(r).due = InHand(r) \ {Job(r)} /\ (Rest(r).due = {}) = (Rest(r).at = "idle")
         /\ Rest(r).due # {} => Rest(r).now = sweep[r].now
<1> DEFINE j == Job(r)
<1>1. j \in InHand(r) /\ j \in DOMAIN jobs
  BY LeastJob DEF SweepsOK
<1>2. sweep[r] \in Sweeping /\ sweep[r].due = InHand(r) /\ sweep[r].now <= clock /\ clock \in Nat
  BY DEF JobTypes, SweepsOK, InHand
<1> HIDE DEF j
<1>3. CASE sweep[r].due = {j}
  <2>1. Rest(r) = Idle
    BY <1>3 DEF Rest, j
  <2> QED BY <1>1, <1>2, <1>3, <2>1 DEF Idle, Sweeping, j
<1>4. CASE sweep[r].due # {j}
  <2>1. Rest(r) = [sweep[r] EXCEPT !.at = "job", !.due = @ \ {j}]
    BY <1>4 DEF Rest, j
  <2>2. Rest(r).at = "job" /\ Rest(r).now = sweep[r].now /\ Rest(r).due = sweep[r].due \ {j} /\ Rest(r) \in Sweeping
    BY <1>2, <2>1 DEF Sweeping
  <2> QED BY <1>1, <1>2, <1>4, <2>2 DEF j
<1> QED BY <1>3, <1>4

\* The sweep of r is done with the job at hand; nothing changes for the other jobs.
LEMMA DoneWith ==
  ASSUME BInv, NEW r \in Replicas, sweep[r].at = "mark", sweep' = [sweep EXCEPT ![r] = Rest(r)],
         UNCHANGED <<clock, ran>>, Len(jobs') = Len(jobs), DOMAIN jobs' = DOMAIN jobs,
         NEW i, i # Job(r), i \in Rows \ excused, jobs'[i] = jobs[i]
  PROVE  JobOK(i)'
<1>1. SameHands(i)
  <2> DEFINE x == Rest(r)
  <2>1. /\ sweep' = [sweep EXCEPT ![r] = x] /\ x.at # "mark" /\ x.due \subseteq InHand(r)
        /\ x.due # {} => x.now = sweep[r].now
    BY RestFacts DEF BInv
  <2>2. ~Marking(r, i)
    BY DEF Marking
  <2> HIDE DEF x
  <2> QED BY <2>1, <2>2, LessInHand DEF BInv
<1> QED BY <1>1, Elsewhere DEF BInv

\* The row moves ahead of the run that has just ended.
LEMMA MarkStep ==
  ASSUME BInv, NEW r \in Replicas, Mark(r)
  PROVE  JobTypes' /\ SweepsOK' /\ \A i \in Rows' \ excused' : JobOK(i)'
<1> DEFINE j == Job(r)
           now == sweep[r].now
           next == NextRun(jobs[j].spec, now)
<1>1. /\ sweep[r].at = "mark" /\ sweep' = [sweep EXCEPT ![r] = Rest(r)] /\ UNCHANGED <<clock, boot, ran, excused>>
      /\ jobs' = IF j \in Rows THEN [jobs EXCEPT ![j].next = next] ELSE jobs
  BY DEF Mark
<1>2. /\ j \in InHand(r) /\ j \in DOMAIN jobs
      /\ Rest(r) \in Sweeping /\ Rest(r).at # "mark" /\ Rest(r).now <= clock
      /\ Rest(r).due = InHand(r) \ {j} /\ (Rest(r).due = {}) = (Rest(r).at = "idle")
      /\ Rest(r).due # {} => Rest(r).now = sweep[r].now
  BY <1>1, RestFacts DEF BInv
<1>3. now \in Nat /\ now <= MaxTime
  BY DEF BInv, JobTypes, Sweeping
<1>4. j \in Rows => /\ jobs[j] \in JobRow /\ jobs[j].spec \in Recurrences /\ next \in 1..MaxTime+Period
                    /\ next \in Nat /\ now < next
  <2>1. ASSUME j \in Rows PROVE jobs[j] \in JobRow /\ jobs[j].spec \in Recurrences
    BY <2>1, RowTypes DEF BInv, JobRow
  <2>2. ASSUME j \in Rows PROVE next \in Nat /\ now < next /\ next <= now + Period
    BY <1>3, <2>1, <2>2, NextRunLater
  <2> QED BY <1>3, <2>1, <2>2
<1>5. sweep'[r] = Rest(r) /\ \A q \in Replicas \ {r} : sweep'[q] = sweep[q]
  BY <1>1 DEF BInv, JobTypes
<1> HIDE DEF j, now, next
<1>6. /\ jobs' \in Seq(JobRow \cup {Deleted}) /\ Len(jobs') = Len(jobs) /\ DOMAIN jobs' = DOMAIN jobs
      /\ \A i \in DOMAIN jobs : i # j => jobs'[i] = jobs[i]
      /\ j \in Rows => jobs'[j] = [jobs[j] EXCEPT !.next = next]
      /\ j \notin Rows => jobs'[j] = jobs[j]
  <2>1. CASE j \in Rows
    <3>1. [jobs[j] EXCEPT !.next = next] \in JobRow
      BY <1>4, <2>1 DEF JobRow
    <3>2. jobs' = [jobs EXCEPT ![j] = [jobs[j] EXCEPT !.next = next]]
      BY <1>1, <2>1
    <3> QED BY <1>2, <2>1, <3>1, <3>2 DEF BInv, JobTypes
  <2>2. CASE j \notin Rows
    BY <1>1, <2>2 DEF BInv, JobTypes
  <2> QED BY <2>1, <2>2
<1>7. JobTypes'
  <2>1. sweep' \in [Replicas -> Sweeping]
    BY <1>1, <1>2 DEF BInv, JobTypes
  <2> QED BY <1>1, <1>6, <2>1 DEF BInv, JobTypes
<1>8. SweepsOK'
  BY <1>1, <1>2, <1>5, <1>6 DEF BInv, SweepsOK, InHand
<1>9. ASSUME NEW i \in Rows' \ excused' PROVE JobOK(i)'
  <2>1. i \in Rows \ excused /\ JobOK(i)
    BY <1>1, <1>6, <1>9 DEF Rows, BInv
  <2>2. CASE i # j
    BY <1>1, <1>6, <2>1, <2>2, DoneWith DEF Rows, j
  <2>3. CASE i = j
    <3>1. \A q \in Replicas : i \in InHand(q) => q = r
      BY <1>2, <2>1, <2>3 DEF JobOK
    <3>2. \A q \in Replicas : i \notin InHand(q)'
      BY <1>2, <1>5, <2>3, <3>1 DEF InHand
    <3>3. \A q \in Replicas : ~Marking(q, i)'
      <4>1. ASSUME NEW q \in Replicas \ {r}, sweep[q].at = "mark" PROVE Job(q) # i
        BY <3>1, <4>1, LeastJob DEF BInv
      <4>2. \A q \in Replicas \ {r} : Job(q)' = Job(q)
        BY <1>5 DEF Job
      <4> QED BY <1>2, <1>5, <4>1, <4>2 DEF Marking
    <3>4. Marking(r, i)
      BY <1>1, <2>3 DEF Marking, j
    <3>5. /\ ran[i][Len(ran[i])] = now
          /\ \A n \in DOMAIN ran[i] : n < Len(ran[i]) => NextRun(jobs[i].spec, ran[i][n]) <= now
      BY <2>1, <3>4 DEF JobOK, Covered, now
    <3>6. jobs'[i].next = next /\ jobs'[i].spec = jobs[i].spec /\ next = NextRun(jobs[i].spec, now)
      BY <1>4, <1>6, <2>1, <2>3 DEF JobRow, next
    <3>7. ran[i] \in Seq(0..MaxTime)
      BY <2>1, RowTypes DEF BInv
    <3>8. \A n \in DOMAIN ran'[i] : Covered(i, n, jobs[i].next)'
      <4>1. ASSUME NEW n \in DOMAIN ran[i] PROVE NextRun(jobs[i].spec, ran[i][n]) <= next
        <5>1. n \in Nat /\ n <= Len(ran[i]) /\ Len(ran[i]) \in Nat /\ ran[i][n] \in Nat
          BY <3>7, <4>1
        <5>2. NextRun(jobs[i].spec, ran[i][n]) \in Nat
          BY <1>4, <2>1, <2>3, <5>1, NextRunLater
        <5>3. CASE n < Len(ran[i])
          BY <1>3, <1>4, <2>1, <2>3, <3>5, <5>2, <5>3
        <5>4. CASE n = Len(ran[i])
          BY <1>4, <2>1, <2>3, <3>5, <3>6, <5>4
        <5> QED BY <5>1, <5>3, <5>4
      <4> QED BY <1>1, <3>6, <4>1 DEF Covered, NextRun
    <3>9. RunsApart(i)'
      BY <1>1, <2>1, <3>6 DEF JobOK, RunsApart
    <3> QED BY <3>2, <3>3, <3>8, <3>9 DEF JobOK
  <2> QED BY <2>2, <2>3
<1> QED BY <1>7, <1>8, <1>9

\* A row that stays behind excuses its job.
LEMMA MarkFailsStep ==
  ASSUME BInv, NEW r \in Replicas, MarkFails(r)
  PROVE  JobTypes' /\ SweepsOK' /\ \A i \in Rows' \ excused' : JobOK(i)'
<1>1. /\ sweep[r].at = "mark" /\ sweep' = [sweep EXCEPT ![r] = Rest(r)] /\ UNCHANGED <<clock, jobs, boot, ran>>
      /\ excused' = excused \cup {Job(r)}
  BY DEF MarkFails
<1>2. /\ Job(r) \in DOMAIN jobs /\ Rest(r) \in Sweeping /\ Rest(r).now <= clock
      /\ Rest(r).due \subseteq InHand(r) /\ (Rest(r).due = {}) = (Rest(r).at = "idle")
  BY <1>1, RestFacts DEF BInv
<1>3. sweep'[r] = Rest(r) /\ \A q \in Replicas \ {r} : sweep'[q] = sweep[q]
  BY <1>1 DEF BInv, JobTypes
<1>4. JobTypes'
  BY <1>1, <1>2 DEF BInv, JobTypes
<1>5. SweepsOK'
  BY <1>1, <1>2, <1>3 DEF BInv, SweepsOK, InHand
<1>6. ASSUME NEW i \in Rows' \ excused' PROVE JobOK(i)'
  BY <1>1, <1>6, DoneWith DEF Rows
<1> QED BY <1>4, <1>5, <1>6

\* So does a crash between the handler and the row; otherwise the sweep is just over.
LEMMA CrashStep ==
  ASSUME BInv, NEW r \in Replicas, HubCrashes(r)
  PROVE  JobTypes' /\ SweepsOK' /\ \A i \in Rows' \ excused' : JobOK(i)'
<1>1. /\ sweep' = [sweep EXCEPT ![r] = Idle] /\ UNCHANGED <<clock, boot, jobs, ran>>
      /\ excused' = IF sweep[r].at = "mark" THEN excused \cup {Job(r)} ELSE excused
  BY DEF HubCrashes
<1>2. Idle \in Sweeping /\ Idle.at = "idle" /\ Idle.now <= clock /\ Idle.due = {}
  BY DEF Idle, Sweeping, BInv, JobTypes
<1>3. sweep[r].at = "mark" => Job(r) \in DOMAIN jobs
  BY RestFacts DEF BInv
<1>4. sweep'[r] = Idle /\ \A q \in Replicas \ {r} : sweep'[q] = sweep[q]
  BY <1>1 DEF BInv, JobTypes
<1>5. JobTypes'
  BY <1>1, <1>2, <1>3 DEF BInv, JobTypes
<1>6. SweepsOK'
  BY <1>1, <1>2, <1>4 DEF BInv, SweepsOK, InHand
<1>7. ASSUME NEW i \in Rows' \ excused' PROVE JobOK(i)'
  <2>1. i \in Rows \ excused /\ JobOK(i) /\ ~Marking(r, i)
    BY <1>1, <1>7 DEF Rows, BInv, Marking
  <2>2. SameHands(i)
    BY <1>1, <1>2, <2>1, LessInHand DEF BInv
  <2> QED BY <1>1, <2>1, <2>2, Elsewhere
<1> QED BY <1>5, <1>6, <1>7

-----------------------------------------------------------------------------
(* The election.                                                           *)

\* The invariant holds when all replicas have just started.
LEMMA InitElection == LeaderInit => ElectionInv
  BY DEF LeaderInit, ElectionInv, LeaderTypeOK, MemoryFirst, StaleOnlyIfBroken

\* A fault is counted and keeps the counter within its bound.
LEMMA FaultBounded == ASSUME faults \in 0..MaxFaults, Fault PROVE faults' \in 0..MaxFaults
  BY DEF Fault

\* The ticks of an election keep the invariant: a replica takes the lock only
\* when nobody has it, so that whoever still believes in it is broken.
LEMMA TickElection == ASSUME ElectionInv, NEW r \in Replicas, Tick(r) PROVE ElectionInv'
<1> USE DEF ElectionInv, LeaderTypeOK, MemoryFirst, StaleOnlyIfBroken
<1>1. CASE Acquire(r)
  BY <1>1 DEF Acquire, TryLock
<1>2. CASE StepDown(r)
  BY <1>2 DEF StepDown, Drop
<1> QED BY <1>1, <1>2 DEF Tick

\* So does every other step of a replica, of its process and of its connection.
LEMMA FaultElection ==
  ASSUME ElectionInv, NEW r \in Replicas,
         AcquireFails(r) \/ PingTimesOut(r) \/ ConnBreaks(r) \/ Stop(r) \/ Crash(r)
  PROVE  ElectionInv'
<1>1. faults' \in 0..MaxFaults
  BY FaultBounded DEF ElectionInv, LeaderTypeOK, AcquireFails, PingTimesOut, ConnBreaks, Stop, Crash
<1> USE DEF ElectionInv, LeaderTypeOK, MemoryFirst, StaleOnlyIfBroken
<1>2. CASE AcquireFails(r)
  BY <1>1, <1>2 DEF AcquireFails, TryLock
<1>3. CASE PingTimesOut(r)
  BY <1>1, <1>3 DEF PingTimesOut, Drop
<1>4. CASE ConnBreaks(r)
  BY <1>1, <1>4 DEF ConnBreaks, Closed
<1>5. CASE Stop(r)
  BY <1>1, <1>5 DEF Stop
<1>6. CASE Crash(r)
  BY <1>1, <1>6 DEF Crash, Closed
<1> QED BY <1>2, <1>3, <1>4, <1>5, <1>6

\* The invariant of the election is inductive.
LEMMA NextElection == ElectionInv /\ [LeaderNext]_leaderVars => ElectionInv'
<1> SUFFICES ASSUME ElectionInv, [LeaderNext]_leaderVars PROVE ElectionInv'
  OBVIOUS
<1>1. CASE UNCHANGED leaderVars
  BY <1>1 DEF leaderVars, ElectionInv, LeaderTypeOK, MemoryFirst, StaleOnlyIfBroken
<1>2. CASE Reap
  BY <1>2 DEF Reap, ElectionInv, LeaderTypeOK, MemoryFirst, StaleOnlyIfBroken
<1>3. ASSUME NEW r \in Replicas, Keep(r) PROVE ElectionInv'
  BY <1>3 DEF Keep, leaderVars, ElectionInv, LeaderTypeOK, MemoryFirst, StaleOnlyIfBroken
<1>4. ASSUME NEW r \in Replicas, Release(r) PROVE ElectionInv'
  BY <1>4 DEF Release, Closed, ElectionInv, LeaderTypeOK, MemoryFirst, StaleOnlyIfBroken
<1>5. ASSUME NEW r \in Replicas, Restart(r) PROVE ElectionInv'
  BY <1>5 DEF Restart, ElectionInv, LeaderTypeOK, MemoryFirst, StaleOnlyIfBroken
<1> QED BY <1>1, <1>2, <1>3, <1>4, <1>5, TickElection, FaultElection DEF LeaderNext

\* A failed statement elsewhere only counts.
LEMMA FaultOnly ==
  ASSUME ElectionInv, Fault, UNCHANGED <<up, lock, releasing, holder, broken>>
  PROVE  ElectionInv'
  BY FaultBounded DEF ElectionInv, LeaderTypeOK, MemoryFirst, StaleOnlyIfBroken

\* The invariant holds throughout.
LEMMA ElectionInvariant == LeaderSpec => []ElectionInv
  BY InitElection, NextElection, PTL DEF LeaderSpec

\* Type correctness of the election.
THEOREM LeaderTypeCorrect == LeaderSpec => []LeaderTypeOK
<1>1. ElectionInv => LeaderTypeOK
  BY DEF ElectionInv
<1> QED BY <1>1, ElectionInvariant, PTL

\* A replica that wrongly believes it leads has lost its connection since it
\* took the lock: clean hand-overs never produce a second leader.
THEOREM StaleLeadersAreBroken == LeaderSpec => []StaleOnlyIfBroken
<1>1. ElectionInv => StaleOnlyIfBroken
  BY DEF ElectionInv
<1> QED BY <1>1, ElectionInvariant, PTL

\* Of any two replicas that lead at the same time, one has a broken connection.
Split == \A r, s \in lock : r # s => r \in broken \/ s \in broken

\* Two leaders at once need a broken connection, whatever else happens.
THEOREM SplitNeedsBreak == LeaderSpec => []Split
<1>1. ElectionInv => Split
  BY DEF ElectionInv, Split, StaleOnlyIfBroken
<1> QED BY <1>1, ElectionInvariant, PTL

-----------------------------------------------------------------------------
(* The theorems.                                                           *)

\* There are no jobs at first.
LEMMA InitBInv == Init => BInv
<1> SUFFICES ASSUME Init PROVE BInv
  OBVIOUS
<1>1. ElectionInv
  BY InitElection DEF Init
<1>2. Idle \in Sweeping /\ Idle.at = "idle" /\ Idle.now = 0 /\ Idle.due = {}
  BY DEF Idle, Sweeping
<1>3. clock = 1 /\ jobs = <<>> /\ ran = <<>> /\ excused = {} /\ \A r \in Replicas : sweep[r] = Idle
  BY DEF Init
<1>4. JobTypes
  BY <1>2, <1>3 DEF Init, JobTypes
<1>5. SweepsOK
  BY <1>2, <1>3 DEF SweepsOK, InHand
<1>6. Rows = {}
  BY <1>3 DEF Rows
<1> QED BY <1>1, <1>4, <1>5, <1>6 DEF BInv

\* Every step keeps the invariant.
LEMMA NextBInv == BInv /\ [Next]_vars => BInv'
<1> SUFFICES ASSUME BInv, [Next]_vars PROVE BInv'
  OBVIOUS
<1> DEFINE Jobs == JobTypes' /\ SweepsOK' /\ \A i \in Rows' \ excused' : JobOK(i)'
<1>1. ASSUME UNCHANGED <<jobs, ran, sweep, excused>>, clock' \in 1..MaxTime, clock' >= clock,
             boot' \in [Replicas -> {"start", "create", "running"}]
      PROVE  Jobs
  <2>1. JobTypes'
    BY <1>1 DEF BInv, JobTypes
  <2>2. SweepsOK'
    <3>1. ASSUME NEW r \in Replicas PROVE sweep[r].now <= clock'
      <4>1. sweep[r].now \in Nat /\ clock \in Nat /\ clock' \in Nat /\ sweep[r].now <= clock
        BY <1>1 DEF BInv, JobTypes, Sweeping, SweepsOK
      <4> QED BY <1>1, <4>1
    <3> QED BY <1>1, <3>1 DEF BInv, SweepsOK, InHand
  <2> QED BY <1>1, <2>1, <2>2, JobsUntouched
<1>2. ASSUME UNCHANGED <<jobs, ran, sweep, excused, clock>>, boot' \in [Replicas -> {"start", "create", "running"}]
      PROVE  Jobs
  BY <1>1, <1>2 DEF BInv, JobTypes
<1>3. UNCHANGED leaderVars => ElectionInv'
  BY NextElection DEF BInv
<1> USE DEF BInv
<1> HIDE DEF Jobs
<1>4. CASE UNCHANGED vars
  <2>1. Jobs
    BY <1>2, <1>4 DEF vars, JobTypes
  <2> QED BY <1>3, <1>4, <2>1 DEF vars, Jobs
<1>5. CASE Schedule
  <2>1. Jobs
    BY <1>5, CreateStep DEF Schedule, JobTypes, Jobs
  <2> QED BY <1>3, <1>5, <2>1 DEF Schedule, Jobs
<1>6. CASE Delete
  <2>1. Jobs
    BY <1>6, DeleteStep DEF Jobs
  <2> QED BY <1>3, <1>6, <2>1 DEF Delete, Jobs
<1>7. CASE TimePasses
  <2>1. clock' \in 1..MaxTime /\ clock' >= clock
    BY <1>7 DEF TimePasses, JobTypes
  <2>2. Jobs
    BY <1>1, <1>7, <2>1 DEF TimePasses, JobTypes
  <2> QED BY <1>3, <1>7, <2>2 DEF TimePasses, Jobs
<1>8. CASE Election
  <2>1. LeaderNext
    BY <1>8 DEF Election, LeaderNext
  <2>2. Jobs
    BY <1>2, <1>8 DEF Election, JobTypes
  <2> QED BY <2>1, <2>2, NextElection DEF Jobs
<1>9. ASSUME NEW r \in Replicas, Boot(r) PROVE BInv'
  <2>1. boot' \in [Replicas -> {"start", "create", "running"}] /\ UNCHANGED leaderVars
    BY <1>9 DEF Boot, EnsureList, EnsureCreate, Boots, JobTypes
  <2>2. CASE UNCHANGED <<jobs, ran, sweep, excused, clock>>
    BY <1>2, <1>3, <2>1, <2>2 DEF Jobs
  <2>3. CASE Create("ai_report", "daily") /\ UNCHANGED <<clock, sweep, excused>>
    BY <1>3, <2>1, <2>3, CreateStep DEF Recurrences
  <2> QED BY <1>9, <2>2, <2>3 DEF Boot, EnsureList, EnsureCreate
<1>10. ASSUME NEW r \in Replicas, EnsureFails(r) PROVE BInv'
  <2>1. ElectionInv'
    BY <1>10, FaultOnly DEF EnsureFails
  <2>2. Jobs
    BY <1>2, <1>10 DEF EnsureFails, Boots, JobTypes
  <2> QED BY <2>1, <2>2 DEF Jobs
<1>11. ASSUME NEW r \in Replicas, Sweeps(r) PROVE BInv'
  <2>1. UNCHANGED leaderVars
    BY <1>11 DEF Sweeps, SweepBegins, RunHandler, Mark
  <2> QED BY <1>3, <1>11, <2>1, SweepBeginsStep, RunHandlerStep, MarkStep DEF Sweeps
<1>12. ASSUME NEW r \in Replicas, MarkFails(r) PROVE BInv'
  <2>1. ElectionInv'
    BY <1>12, FaultOnly DEF MarkFails
  <2> QED BY <1>12, <2>1, MarkFailsStep
<1>13. ASSUME NEW r \in Replicas, HubStops(r) PROVE BInv'
  <2>1. LeaderNext
    BY <1>13 DEF HubStops, LeaderNext
  <2>2. Jobs
    BY <1>2, <1>13 DEF HubStops, JobTypes
  <2> QED BY <2>1, <2>2, NextElection DEF Jobs
<1>14. ASSUME NEW r \in Replicas, HubCrashes(r) PROVE BInv'
  <2>1. ElectionInv'
    <3>1. CASE Crash(r)
      BY <3>1, NextElection DEF LeaderNext
    <3>2. CASE Fault /\ UNCHANGED <<up, lock, releasing, holder, broken>>
      BY <3>2, FaultOnly
    <3> QED BY <1>14, <3>1, <3>2 DEF HubCrashes
  <2> QED BY <1>14, <2>1, CrashStep
<1>15. ASSUME NEW r \in Replicas, HubRestarts(r) PROVE BInv'
  <2>1. LeaderNext
    BY <1>15 DEF HubRestarts, LeaderNext
  <2>2. Jobs
    BY <1>2, <1>15 DEF HubRestarts, JobTypes
  <2> QED BY <2>1, <2>2, NextElection DEF Jobs
<1> QED BY <1>4, <1>5, <1>6, <1>7, <1>8, <1>9, <1>10, <1>11, <1>12, <1>13, <1>14, <1>15 DEF Next

\* The invariant holds throughout.
LEMMA Invariant == Spec => []BInv
  BY InitBInv, NextBInv, PTL DEF Spec

\* Type correctness of the scheduler.
THEOREM TypeCorrect == Spec => []TypeOK
<1>1. BInv => TypeOK
  <2> SUFFICES ASSUME BInv PROVE TypeOK
    OBVIOUS
  <2>1. DOMAIN ran = DOMAIN jobs
    BY DEF BInv, JobTypes
  <2>2. \A i \in Rows : jobs[i].spec \in Recurrences /\ jobs[i].next \in 1..MaxTime+Period
    BY RowTypes DEF BInv, JobRow
  <2>3. \A r \in Replicas : sweep[r].at \in {"idle", "job", "mark"}
    BY DEF BInv, JobTypes, Sweeping
  <2> QED BY <2>1, <2>2, <2>3 DEF BInv, ElectionInv, JobTypes, SweepsOK, InHand, TypeOK
<1> QED BY <1>1, Invariant, PTL

\* A job runs at most once for each of its occurrences, unless a crash or a failed
\* update came between its handler and its row, or two leaders had it in hand.
THEOREM RunsOncePerOccurrence == Spec => []NoBurst
<1>1. BInv => NoBurst
  BY DEF BInv, JobOK, NoBurst
<1> QED BY <1>1, Invariant, PTL

-----------------------------------------------------------------------------
(* The alert engine.                                                       *)

Evaluation == [at : {"away", "tick", "found", "absent", "insert", "sweep"},
               todo : SUBSET Keys, key : Keys \cup {None}, ids : SUBSET Ids]

AlertTypes ==
  /\ rows \in [Ids -> Row \cup {NoRow}]
  /\ silences \subseteq Silenceable /\ cond \subseteq Keys /\ exempt \subseteq Keys
  /\ cool \in [Replicas -> SUBSET Keys] /\ clearing \in [Replicas -> SUBSET Keys]
  /\ cache \in [Replicas -> SUBSET Silenceable]
  /\ engine \in [Replicas -> Evaluation]

\* A replica that has found no open event of k and will, or may, insert one.
Pending(r, k) == engine[r].at \in {"absent", "insert"} /\ engine[r].key = k
PendingTypes == \A r \in Replicas : engine[r].at \in {"absent", "insert"} => engine[r].key \in Keys

\* What makes an insert harmless: it has been decided by one replica, and there is
\* still nothing to duplicate.
KeyOK(k) ==
  /\ \A i, j \in Unresolved(k) : i = j
  /\ \A q, r \in Replicas : Pending(q, k) /\ Pending(r, k) => q = r
  /\ \A r \in Replicas : Pending(r, k) => Unresolved(k) = {}

EInv == AlertTypes /\ PendingTypes /\ \A k \in Keys \ exempt : KeyOK(k)

\* Two events are two.
LEMMA AtMostOne ==
  ASSUME NEW k, \A i, j \in Unresolved(k) : i = j
  PROVE  ~(Cardinality(Unresolved(k)) > 1)
<1>1. CASE Unresolved(k) = {}
  BY <1>1, FS_EmptySet
<1>2. CASE Unresolved(k) # {}
  <2>1. PICK i : Unresolved(k) = {i}
    BY <1>2
  <2>2. Cardinality(Unresolved(k)) = 1
    BY <2>1, FS_Singleton
  <2> QED BY <2>2
<1> QED BY <1>1, <1>2

\* No event of k is opened, and nobody comes to think that there is none.
LEMMA KeyKept ==
  ASSUME NEW k, KeyOK(k), Unresolved(k)' \subseteq Unresolved(k),
         \A r \in Replicas : Pending(r, k)' => Pending(r, k)
  PROVE  KeyOK(k)'
  BY DEF KeyOK

\* The same for all the keys that are not excused.
LEMMA KeysKept ==
  ASSUME EInv, exempt \subseteq exempt',
         \A k \in Keys \ exempt' : /\ Unresolved(k)' \subseteq Unresolved(k)
                                   /\ \A r \in Replicas : Pending(r, k)' => Pending(r, k)
  PROVE  \A k \in Keys \ exempt' : KeyOK(k)'
  BY KeyKept DEF EInv

\* The engine of one replica takes a step.
LEMMA EngineMoves ==
  ASSUME EInv, NEW r \in Replicas, NEW e \in Evaluation, engine' = [engine EXCEPT ![r] = e]
  PROVE  /\ engine' \in [Replicas -> Evaluation]
         /\ engine'[r] = e /\ \A q \in Replicas \ {r} : engine'[q] = engine[q]
         /\ \A q \in Replicas \ {r} : \A k : Pending(q, k)' <=> Pending(q, k)
         /\ (e.at \in {"absent", "insert"} => e.key \in Keys) => PendingTypes'
  BY DEF EInv, AlertTypes, Pending, PendingTypes

\* What is left of a rule that is done.
LEMMA DoneFacts ==
  ASSUME EInv, NEW r \in Replicas
  PROVE  Done(r) \in Evaluation /\ Done(r).at = "tick"
  BY DEF EInv, AlertTypes, Evaluation, Done

-----------------------------------------------------------------------------
(* The engine.                                                             *)

\* A step of r's engine that leaves the events alone and decides on no insert.
LEMMA EngineOnly ==
  ASSUME EInv, NEW r \in Replicas, NEW e \in Evaluation, engine' = [engine EXCEPT ![r] = e],
         UNCHANGED <<rows, silences, cond>>, exempt \subseteq exempt', exempt' \subseteq Keys,
         cool' \in [Replicas -> SUBSET Keys], cache' \in [Replicas -> SUBSET Silenceable],
         clearing' \in [Replicas -> SUBSET Keys],
         e.at \in {"absent", "insert"} =>
           e.key \in Keys /\ (e.key \in exempt' \/ Pending(r, e.key))
  PROVE  EInv'
<1>1. /\ engine' \in [Replicas -> Evaluation] /\ engine'[r] = e
      /\ \A q \in Replicas \ {r} : \A k : Pending(q, k)' <=> Pending(q, k)
      /\ PendingTypes'
  BY EngineMoves
<1>2. AlertTypes'
  BY <1>1 DEF EInv, AlertTypes
<1>3. ASSUME NEW k \in Keys \ exempt'
      PROVE  /\ Unresolved(k)' \subseteq Unresolved(k)
             /\ \A q \in Replicas : Pending(q, k)' => Pending(q, k)
  BY <1>1 DEF Unresolved, Pending
<1> QED BY <1>1, <1>2, <1>3, KeysKept DEF EInv

\* A step of r's engine that finishes the rule at hand, with no new open event.
LEMMA RuleDone ==
  ASSUME EInv, NEW r \in Replicas, engine' = [engine EXCEPT ![r] = Done(r)],
         rows' \in [Ids -> Row \cup {NoRow}], \A k \in Keys : Unresolved(k)' \subseteq Unresolved(k),
         UNCHANGED <<silences, cond, exempt, cool, cache, clearing>>
  PROVE  EInv'
<1>1. /\ engine' \in [Replicas -> Evaluation] /\ engine'[r] = Done(r)
      /\ \A q \in Replicas \ {r} : \A k : Pending(q, k)' <=> Pending(q, k)
      /\ PendingTypes' /\ Done(r).at = "tick"
  BY EngineMoves, DoneFacts
<1>2. AlertTypes'
  BY <1>1 DEF EInv, AlertTypes
<1>3. \A k : ~Pending(r, k)'
  BY <1>1 DEF Pending
<1>4. ASSUME NEW k \in Keys \ exempt'
      PROVE  /\ Unresolved(k)' \subseteq Unresolved(k)
             /\ \A q \in Replicas : Pending(q, k)' => Pending(q, k)
  BY <1>1, <1>3
<1> QED BY <1>1, <1>2, <1>4, KeysKept DEF EInv

\* A tick begins with what the rules fire.
LEMMA TickBeginsStep == ASSUME EInv, NEW r \in Replicas, NEW E \in SUBSET Keys, TickBegins(r, E) PROVE EInv'
<1> DEFINE e == [engine[r] EXCEPT !.at = "tick", !.todo = Fires(r, E)]
<1>1. e \in Evaluation /\ e.at = "tick"
  BY DEF EInv, AlertTypes, Evaluation, Fires
<1>2. engine' = [engine EXCEPT ![r] = e]
  BY DEF TickBegins
<1> HIDE DEF e
<1> QED BY <1>1, <1>2, EngineOnly DEF TickBegins, EInv, AlertTypes

\* A look-up finds no open event, unless there is one, or its key is excused.
LEMMA QueryStep == ASSUME EInv, NEW r \in Replicas, Query(r) PROVE EInv'
<1>1. PICK k \in engine[r].todo :
        IF Open(k) # {}
         THEN /\ \E i \in Open(k) :
                   engine' = [engine EXCEPT ![r] =
                     [at |-> "found", todo |-> @.todo \ {k}, key |-> k, ids |-> {i}]]
              /\ UNCHANGED exempt
         ELSE /\ engine' = [engine EXCEPT ![r] =
                   [at |-> "absent", todo |-> @.todo \ {k}, key |-> k, ids |-> {}]]
              /\ exempt' = IF Overlap(r, k) THEN exempt \cup {k} ELSE exempt
  BY DEF Query
<1>2. engine[r] \in Evaluation /\ engine[r].todo \subseteq Keys /\ k \in Keys
  BY <1>1 DEF EInv, AlertTypes, Evaluation
<1>3. CASE Open(k) # {}
  <2>1. PICK i \in Open(k) : engine' = [engine EXCEPT ![r] =
                     [at |-> "found", todo |-> engine[r].todo \ {k}, key |-> k, ids |-> {i}]]
    BY <1>1, <1>3
  <2> DEFINE e == [at |-> "found", todo |-> engine[r].todo \ {k}, key |-> k, ids |-> {i}]
  <2>2. e \in Evaluation /\ e.at = "found"
    BY <1>2, <2>1 DEF Evaluation, Open
  <2>3. engine' = [engine EXCEPT ![r] = e] /\ exempt' = exempt
    BY <1>1, <1>3, <2>1
  <2> HIDE DEF e
  <2> QED BY <2>2, <2>3, EngineOnly DEF Query, EInv, AlertTypes
<1>4. CASE Open(k) = {}
  <2> DEFINE e == [at |-> "absent", todo |-> engine[r].todo \ {k}, key |-> k, ids |-> {}]
  <2>1. e \in Evaluation /\ e.at = "absent" /\ e.key = k
    BY <1>2 DEF Evaluation
  <2>2. engine' = [engine EXCEPT ![r] = e] /\ exempt' = IF Overlap(r, k) THEN exempt \cup {k} ELSE exempt
    BY <1>1, <1>4
  <2> HIDE DEF e
  <2>3. /\ engine' \in [Replicas -> Evaluation] /\ engine'[r] = e
        /\ \A q \in Replicas \ {r} : engine'[q] = engine[q] /\ \A j : Pending(q, j)' <=> Pending(q, j)
        /\ PendingTypes'
    BY <1>2, <2>1, <2>2, EngineMoves
  <2>4. AlertTypes' /\ UNCHANGED rows
    BY <1>2, <2>2, <2>3 DEF EInv, AlertTypes, Query
  <2>5. ASSUME NEW j \in Keys \ exempt' PROVE KeyOK(j)'
    <3>1. KeyOK(j) /\ Unresolved(j)' = Unresolved(j)
      BY <2>2, <2>4, <2>5 DEF EInv, Unresolved
    <3>2. CASE j # k
      <4>1. ~Pending(r, j)'
        BY <2>1, <2>3, <3>2 DEF Pending
      <4>2. \A q \in Replicas : Pending(q, j)' => Pending(q, j)
        BY <2>3, <4>1
      <4> QED BY <3>1, <4>2, KeyKept
    <3>3. CASE j = k
      <4>1. Unresolved(j)' = {}
        BY <1>4, <3>1, <3>3 DEF Open, IsOpen, Unresolved
      <4>2. \A q \in Replicas \ {r} : ~Pending(q, j)
        BY <2>2, <2>5, <3>3 DEF Overlap, Pending
      <4> QED BY <2>3, <4>1, <4>2 DEF KeyOK
    <3> QED BY <3>2, <3>3
  <2> QED BY <2>3, <2>4, <2>5 DEF EInv
<1> QED BY <1>3, <1>4

\* A look-up that fails is taken for no open event, and excuses its key.
LEMMA QueryFailsStep == ASSUME EInv, NEW r \in Replicas, QueryFails(r) PROVE EInv'
<1>1. PICK k \in engine[r].todo :
        /\ engine' = [engine EXCEPT ![r] =
             [at |-> "absent", todo |-> engine[r].todo \ {k}, key |-> k, ids |-> {}]]
        /\ exempt' = exempt \cup {k}
  BY DEF QueryFails
<1> DEFINE e == [at |-> "absent", todo |-> engine[r].todo \ {k}, key |-> k, ids |-> {}]
<1>2. e \in Evaluation /\ e.key = k /\ k \in Keys
  BY <1>1 DEF EInv, AlertTypes, Evaluation
<1>3. engine' = [engine EXCEPT ![r] = e]
  BY <1>1
<1> HIDE DEF e
<1>4. exempt \subseteq exempt' /\ exempt' \subseteq Keys /\ e.key \in exempt'
  BY <1>1, <1>2 DEF EInv, AlertTypes
<1>5. /\ cool' \in [Replicas -> SUBSET Keys] /\ cache' \in [Replicas -> SUBSET Silenceable]
      /\ clearing' \in [Replicas -> SUBSET Keys] /\ UNCHANGED <<rows, silences, cond>>
  BY DEF QueryFails, EInv, AlertTypes
<1> QED BY <1>2, <1>3, <1>4, <1>5, EngineOnly

\* Bump, and whatever else leaves key and state of every event alone.
LEMMA SameStates ==
  ASSUME rows \in [Ids -> Row \cup {NoRow}],
         \A i \in Ids : \/ rows'[i] = rows[i]
                        \/ rows'[i] = NoRow
                        \/ /\ rows[i] # NoRow /\ rows'[i].key = rows[i].key
                           /\ rows'[i].state \in {"firing", "ack"} => rows[i].state \in {"firing", "ack"}
  PROVE  \A k \in Keys : Unresolved(k)' \subseteq Unresolved(k)
  BY DEF Unresolved

\* A repetition leaves key and state of the event alone.
LEMMA BumpStep == ASSUME EInv, NEW r \in Replicas, Bump(r) PROVE EInv'
<1>1. /\ rows' = [i \in Ids |-> IF i \in engine[r].ids /\ rows[i] # NoRow
                             THEN [rows[i] EXCEPT !.stale = FALSE] ELSE rows[i]]
      /\ engine' = [engine EXCEPT ![r] = Done(r)]
      /\ UNCHANGED <<silences, cond, exempt, cool, cache, clearing>>
  BY DEF Bump
<1>2. \A i \in Ids : rows[i] # NoRow => [rows[i] EXCEPT !.stale = FALSE] \in Row
  BY DEF EInv, AlertTypes, Row
<1>3. rows' \in [Ids -> Row \cup {NoRow}]
  BY <1>1, <1>2 DEF EInv, AlertTypes
<1>4. \A k \in Keys : Unresolved(k)' \subseteq Unresolved(k)
  <2>1. ASSUME NEW i \in Ids, rows[i] # NoRow
        PROVE  LET x == [rows[i] EXCEPT !.stale = FALSE] IN x.key = rows[i].key /\ x.state = rows[i].state
    BY <2>1 DEF EInv, AlertTypes, Row
  <2> QED BY <1>1, <2>1, SameStates DEF EInv, AlertTypes
<1> QED BY <1>1, <1>3, <1>4, RuleDone

\* A silenced event is not an open one.
LEMMA InsertSilencedStep == ASSUME EInv, NEW r \in Replicas, InsertSilenced(r) PROVE EInv'
<1> DEFINE k == engine[r].key
<1>1. PICK i \in Free : rows' = [rows EXCEPT ![i] = [key |-> k, state |-> "silenced", stale |-> FALSE]]
  BY DEF InsertSilenced, Insert
<1>2. k \in Keys /\ i \in Ids
  BY DEF EInv, PendingTypes, InsertSilenced, At, Free
<1> HIDE DEF k
<1> DEFINE x == [key |-> k, state |-> "silenced", stale |-> FALSE]
<1>3. x \in Row /\ x.state = "silenced" /\ rows' = [rows EXCEPT ![i] = x]
  BY <1>1, <1>2 DEF Row
<1> HIDE DEF x
<1>4. rows' \in [Ids -> Row \cup {NoRow}] /\ rows'[i] = x /\ \A j \in Ids \ {i} : rows'[j] = rows[j]
  BY <1>2, <1>3 DEF EInv, AlertTypes
<1>5. \A j \in Keys : Unresolved(j)' \subseteq Unresolved(j)
  BY <1>3, <1>4 DEF Unresolved
<1> QED BY <1>4, <1>5, RuleDone DEF InsertSilenced

\* Rules that end without an event.
LEMMA NoWriteStep ==
  ASSUME EInv, NEW r \in Replicas, InCooldown(r) \/ WriteFails(r) \/ TableFull(r)
  PROVE  EInv'
<1>1. /\ engine' = [engine EXCEPT ![r] = Done(r)]
      /\ UNCHANGED <<rows, silences, cond, exempt, cool, cache, clearing>>
  BY DEF InCooldown, WriteFails, TableFull
<1>2. rows' \in [Ids -> Row \cup {NoRow}] /\ \A k \in Keys : Unresolved(k)' \subseteq Unresolved(k)
  BY <1>1 DEF EInv, AlertTypes, Unresolved
<1> QED BY <1>1, <1>2, RuleDone

\* The cooldown starts; the insert is still to come.
LEMMA StartCooldownStep == ASSUME EInv, NEW r \in Replicas, StartCooldown(r) PROVE EInv'
<1> DEFINE e == [engine[r] EXCEPT !.at = "insert"]
<1>1. engine[r] \in Evaluation /\ engine[r].at = "absent" /\ engine[r].key \in Keys
  BY DEF EInv, AlertTypes, PendingTypes, StartCooldown, At
<1>2. e \in Evaluation /\ e.key = engine[r].key
  BY <1>1 DEF Evaluation
<1>3. Pending(r, e.key) /\ e.key \in Keys
  BY <1>1, <1>2 DEF Pending
<1>4. engine' = [engine EXCEPT ![r] = e]
  BY DEF StartCooldown
<1>5. cool' \in [Replicas -> SUBSET Keys]
  <2>1. cool' = [cool EXCEPT ![r] = cool[r] \cup {engine[r].key}]
    BY DEF StartCooldown
  <2> QED BY <1>1, <2>1 DEF EInv, AlertTypes
<1> HIDE DEF e
<1> QED BY <1>2, <1>3, <1>4, <1>5, EngineOnly DEF StartCooldown, EInv, AlertTypes

\* The insert that was decided on when there was nothing to duplicate.
LEMMA InsertFiringStep == ASSUME EInv, NEW r \in Replicas, InsertFiring(r) PROVE EInv'
<1> DEFINE k == engine[r].key
<1>1. PICK i \in Free : rows' = [rows EXCEPT ![i] = [key |-> k, state |-> "firing", stale |-> FALSE]]
  BY DEF InsertFiring, Insert
<1>2. k \in Keys /\ i \in Ids /\ Pending(r, k)
  BY DEF EInv, PendingTypes, InsertFiring, At, Free, Pending
<1> HIDE DEF k
<1> DEFINE x == [key |-> k, state |-> "firing", stale |-> FALSE]
<1>3. x \in Row /\ x.key = k /\ rows' = [rows EXCEPT ![i] = x]
  BY <1>1, <1>2 DEF Row
<1> HIDE DEF x
<1>4. rows' \in [Ids -> Row \cup {NoRow}] /\ rows'[i] = x /\ \A j \in Ids \ {i} : rows'[j] = rows[j]
  BY <1>2, <1>3 DEF EInv, AlertTypes
<1>5. /\ engine' \in [Replicas -> Evaluation] /\ engine'[r] = Done(r) /\ Done(r).at = "tick"
      /\ \A q \in Replicas \ {r} : \A j : Pending(q, j)' <=> Pending(q, j)
      /\ PendingTypes'
  BY EngineMoves, DoneFacts DEF InsertFiring
<1>6. AlertTypes' /\ exempt' = exempt
  BY <1>4, <1>5 DEF EInv, AlertTypes, InsertFiring
<1>7. \A j : ~Pending(r, j)'
  BY <1>5 DEF Pending
<1>8. ASSUME NEW j \in Keys \ exempt' PROVE KeyOK(j)'
  <2>1. KeyOK(j)
    BY <1>6, <1>8 DEF EInv
  <2>2. CASE j # k
    <3>1. Unresolved(j)' \subseteq Unresolved(j)
      BY <1>3, <1>4, <2>2 DEF Unresolved
    <3> QED BY <1>5, <1>7, <2>1, <3>1, KeyKept
  <2>3. CASE j = k
    <3>1. Unresolved(j) = {} /\ \A q \in Replicas \ {r} : ~Pending(q, j)
      BY <1>2, <2>1, <2>3 DEF KeyOK
    <3>2. Unresolved(j)' \subseteq {i}
      BY <1>4, <3>1 DEF Unresolved
    <3> QED BY <1>5, <1>7, <3>1, <3>2 DEF KeyOK
  <2> QED BY <2>2, <2>3
<1> QED BY <1>5, <1>6, <1>8 DEF EInv

\* The stale events are chosen.
LEMMA AlertSweepStep == ASSUME EInv, NEW r \in Replicas, AlertSweepBegins(r) PROVE EInv'
<1> DEFINE S == {i \in Ids : IsOpen(i) /\ rows[i].stale}
           e == [engine[r] EXCEPT !.at = "sweep", !.ids = S]
<1>1. e \in Evaluation /\ e.at = "sweep"
  BY DEF EInv, AlertTypes, Evaluation
<1>2. engine' = [engine EXCEPT ![r] = e]
  BY DEF AlertSweepBegins
<1> HIDE DEF e
<1> QED BY <1>1, <1>2, EngineOnly DEF AlertSweepBegins, EInv, AlertTypes

\* Closing an event.
LEMMA ResolvedFacts ==
  ASSUME EInv, NEW i \in Ids, rows' = Resolved(i)
  PROVE  /\ rows' \in [Ids -> Row \cup {NoRow}]
         /\ \A k \in Keys : Unresolved(k)' \subseteq Unresolved(k)
<1>1. CASE IsOpen(i)
  <2> DEFINE x == [rows[i] EXCEPT !.state = "resolved"]
  <2>1. x \in Row /\ x.key = rows[i].key /\ x.state = "resolved"
    BY <1>1 DEF EInv, AlertTypes, IsOpen, Row
  <2>2. rows' = [rows EXCEPT ![i] = x]
    BY <1>1 DEF Resolved
  <2> HIDE DEF x
  <2> QED BY <2>1, <2>2 DEF EInv, AlertTypes, Unresolved
<1>2. CASE ~IsOpen(i)
  BY <1>2 DEF Resolved, EInv, AlertTypes, Unresolved
<1> QED BY <1>1, <1>2

\* A stale event is closed.
LEMMA SweepStep == ASSUME EInv, NEW r \in Replicas, Sweep(r) PROVE EInv'
<1>1. PICK i \in engine[r].ids :
       /\ rows' = Resolved(i)
       /\ cool' = [cool EXCEPT ![r] = IF rows[i] = NoRow THEN @ ELSE @ \ {rows[i].key}]
       /\ engine' = [engine EXCEPT ![r] =
            IF engine[r].ids = {i} THEN Done(r) ELSE [engine[r] EXCEPT !.ids = @ \ {i}]]
  BY Zenon DEF Sweep, Swept
<1> DEFINE e == IF engine[r].ids = {i} THEN Done(r) ELSE [engine[r] EXCEPT !.ids = @ \ {i}]
<1>2. i \in Ids /\ engine[r] \in Evaluation /\ engine[r].at = "sweep"
  BY <1>1 DEF EInv, AlertTypes, Evaluation, Sweep, At
<1>3. e \in Evaluation /\ e.at \notin {"absent", "insert"}
  BY <1>2, DoneFacts DEF Evaluation
<1>4. engine' = [engine EXCEPT ![r] = e]
  BY <1>1, Zenon
<1> HIDE DEF e
<1>5. /\ engine' \in [Replicas -> Evaluation] /\ engine'[r] = e /\ PendingTypes'
      /\ \A q \in Replicas \ {r} : \A k : Pending(q, k)' <=> Pending(q, k)
  BY <1>3, <1>4, EngineMoves
<1>6. /\ rows' \in [Ids -> Row \cup {NoRow}]
      /\ \A k \in Keys : Unresolved(k)' \subseteq Unresolved(k)
  BY <1>1, <1>2, ResolvedFacts
<1>7. AlertTypes' /\ exempt' = exempt
  BY <1>1, <1>5, <1>6 DEF EInv, AlertTypes, Sweep
<1>8. \A k : ~Pending(r, k)'
  BY <1>3, <1>5 DEF Pending
<1> QED BY <1>5, <1>6, <1>7, <1>8, KeysKept DEF EInv

\* Processes end, and what they were about to do with them.
LEMMA ForgottenStep ==
  ASSUME EInv, NEW S \in SUBSET Replicas, Forgotten(S), UNCHANGED <<rows, silences, cond, exempt>>,
         clearing' \in [Replicas -> SUBSET Keys]
  PROVE  EInv'
<1>1. Away \in Evaluation /\ Away.at = "away"
  BY DEF Away, Evaluation
<1>2. \A r \in Replicas : engine'[r] = IF r \in S THEN Away ELSE engine[r]
  BY DEF Forgotten
<1>3. AlertTypes'
  BY <1>1 DEF EInv, AlertTypes, Forgotten
<1>4. PendingTypes' /\ \A r \in Replicas, k \in Keys : Pending(r, k)' => Pending(r, k)
  BY <1>1, <1>2 DEF EInv, PendingTypes, Pending
<1>5. \A k \in Keys \ exempt' : Unresolved(k)' \subseteq Unresolved(k)
  BY DEF Unresolved
<1> QED BY <1>3, <1>4, <1>5, KeysKept DEF EInv

\* A tick ends, in a process that goes on or in one that stops.
LEMMA TickEndsStep == ASSUME EInv, NEW r \in Replicas, TickEnds(r) PROVE EInv'
<1>1. CASE r \in up
  <2>1. Away \in Evaluation /\ Away.at = "away"
    BY DEF Away, Evaluation
  <2>2. engine' = [engine EXCEPT ![r] = Away]
    BY <1>1 DEF TickEnds
  <2> HIDE DEF Away
  <2> QED BY <1>1, <2>1, <2>2, EngineOnly DEF TickEnds, EInv, AlertTypes
<1>2. CASE r \notin up
  BY <1>2, ForgottenStep DEF TickEnds, EInv, AlertTypes
<1> QED BY <1>1, <1>2

-----------------------------------------------------------------------------
(* Operators and the environment.                                          *)

\* A step that leaves the engines alone and opens nothing.
LEMMA EnginesAlone ==
  ASSUME EInv, UNCHANGED engine, rows' \in [Ids -> Row \cup {NoRow}],
         exempt \subseteq exempt', exempt' \subseteq Keys,
         \A k \in Keys \ exempt' : Unresolved(k)' \subseteq Unresolved(k),
         silences' \subseteq Silenceable, cond' \subseteq Keys,
         cool' \in [Replicas -> SUBSET Keys], cache' \in [Replicas -> SUBSET Silenceable],
         clearing' \in [Replicas -> SUBSET Keys]
  PROVE  EInv'
<1>1. AlertTypes' /\ PendingTypes'
  BY DEF EInv, AlertTypes, PendingTypes
<1>2. \A k, r : Pending(r, k)' <=> Pending(r, k)
  BY DEF Pending
<1> QED BY <1>1, <1>2, KeysKept DEF EInv

\* An acknowledged event was open already, or was silenced, which excuses its key.
LEMMA AckEventStep == ASSUME EInv, NEW i \in Ids, AckEvent(i) PROVE EInv'
<1>1. rows[i] \in Row /\ rows[i].key \in Keys
  BY DEF AckEvent, EInv, AlertTypes, Row
<1> DEFINE x == [rows[i] EXCEPT !.state = "ack"]
<1>2. x \in Row /\ x.key = rows[i].key /\ rows' = [rows EXCEPT ![i] = x]
  BY <1>1 DEF AckEvent, Acked, Row
<1> HIDE DEF x
<1>3. rows' \in [Ids -> Row \cup {NoRow}] /\ rows'[i] = x /\ \A j \in Ids \ {i} : rows'[j] = rows[j]
  BY <1>2 DEF EInv, AlertTypes
<1>4. exempt \subseteq exempt' /\ exempt' \subseteq Keys
  BY <1>1 DEF AckEvent, EInv, AlertTypes
<1>5. rows[i] # NoRow /\ (rows[i].state \in {"firing", "ack"} \/ rows[i].key \in exempt')
  BY <1>1 DEF AckEvent, Row
<1>6. ASSUME NEW k \in Keys \ exempt' PROVE Unresolved(k)' \subseteq Unresolved(k)
  BY <1>2, <1>3, <1>5, <1>6 DEF Unresolved
<1> QED BY <1>3, <1>4, <1>6, EnginesAlone DEF AckEvent, replicaVars, EInv, AlertTypes

\* An operator closes an event.
LEMMA ResolveEventStep == ASSUME EInv, NEW r \in Replicas, NEW i \in Ids, ResolveEvent(r, i) PROVE EInv'
<1>1. rows[i].key \in Keys
  BY DEF ResolveEvent, IsOpen, EInv, AlertTypes, Row
<1>2. clearing' \in [Replicas -> SUBSET Keys]
  <2>1. clearing' = [clearing EXCEPT ![r] = clearing[r] \cup {rows[i].key}]
    BY DEF ResolveEvent
  <2> QED BY <1>1, <2>1 DEF EInv, AlertTypes
<1>3. rows' \in [Ids -> Row \cup {NoRow}] /\ \A k \in Keys : Unresolved(k)' \subseteq Unresolved(k)
  BY ResolvedFacts DEF ResolveEvent
<1> QED BY <1>2, <1>3, EnginesAlone DEF ResolveEvent, EInv, AlertTypes

\* Windows, cooldowns and conditions.
LEMMA NoEventStep ==
  ASSUME EInv, NEW r \in Replicas, NEW k \in Keys,
         ClearCooldown(r) \/ SetSilences(r) \/ RefreshSilences(r) \/ CooldownPasses(r, k) \/ CondChanges(k)
  PROVE  EInv'
<1>1. UNCHANGED <<engine, rows, exempt>>
  BY DEF ClearCooldown, SetSilences, RefreshSilences, CooldownPasses, CondChanges, replicaVars
<1>2. silences' \subseteq Silenceable /\ cond' \subseteq Keys
  BY DEF ClearCooldown, SetSilences, RefreshSilences, CooldownPasses, CondChanges, EInv, AlertTypes
<1>3. cool' \in [Replicas -> SUBSET Keys] /\ clearing' \in [Replicas -> SUBSET Keys]
  BY DEF ClearCooldown, SetSilences, RefreshSilences, CooldownPasses, CondChanges, replicaVars, EInv, AlertTypes
<1>4. cache' \in [Replicas -> SUBSET Silenceable]
  BY DEF ClearCooldown, SetSilences, RefreshSilences, CooldownPasses, CondChanges, replicaVars, EInv, AlertTypes
<1>5. \A j \in Keys : Unresolved(j)' = Unresolved(j)
  BY <1>1 DEF Unresolved
<1> QED BY <1>1, <1>2, <1>3, <1>4, <1>5, EnginesAlone DEF EInv, AlertTypes

\* A tick without leadership only touches the counters.
LEMMA FollowerStep == ASSUME EInv, NEW r \in Replicas, FollowerTick(r) PROVE EInv'
<1>1. \A k \in Keys : Unresolved(k)' = Unresolved(k)
  BY DEF FollowerTick, Unresolved
<1> QED BY <1>1, EnginesAlone DEF FollowerTick, EInv, AlertTypes

\* Events become stale, and closed ones are removed.
LEMMA RowAgesStep == ASSUME EInv, NEW i \in Ids, RowAges(i) \/ Prune(i) PROVE EInv'
<1>1. rows[i] \in Row /\ rows[i] # NoRow
  BY DEF RowAges, Prune, IsOpen, EInv, AlertTypes
<1> DEFINE x == [rows[i] EXCEPT !.stale = TRUE]
<1>2. x \in Row /\ x.key = rows[i].key /\ x.state = rows[i].state
      /\ (rows' = [rows EXCEPT ![i] = x] \/ rows' = [rows EXCEPT ![i] = NoRow])
  BY <1>1 DEF RowAges, Prune, Row
<1> HIDE DEF x
<1>3. rows' \in [Ids -> Row \cup {NoRow}] /\ rows'[i] \in {x, NoRow} /\ \A j \in Ids \ {i} : rows'[j] = rows[j]
  BY <1>2 DEF EInv, AlertTypes
<1>4. \A k \in Keys : Unresolved(k)' \subseteq Unresolved(k)
  BY <1>1, <1>2, <1>3 DEF Unresolved
<1>5. UNCHANGED <<silences, cond, engine, cool, cache, clearing, exempt>>
  BY DEF RowAges, Prune, replicaVars
<1> QED BY <1>3, <1>4, <1>5, EnginesAlone DEF EInv, AlertTypes

\* The election, and what it does to the processes.
LEMMA ElectionStep == ASSUME EInv, EngineElection PROVE EInv'
<1>1. UNCHANGED <<rows, silences, cond, exempt>> /\ clearing' \in [Replicas -> SUBSET Keys]
  BY DEF EngineElection, EInv, AlertTypes
<1>2. CASE up \subseteq up'
  <2>1. UNCHANGED <<engine, cool>> /\ cache' \in [Replicas -> SUBSET Silenceable]
    BY <1>2 DEF EngineElection, EInv, AlertTypes
  <2>2. \A k \in Keys : Unresolved(k)' = Unresolved(k)
    BY <1>1 DEF Unresolved
  <2> QED BY <1>1, <2>1, <2>2, EnginesAlone DEF EInv, AlertTypes
<1>3. CASE ~(up \subseteq up')
  <2>1. Forgotten((up \ up') \cap Replicas)
    BY <1>3 DEF EngineElection, Forgotten
  <2> QED BY <1>1, <2>1, ForgottenStep
<1> QED BY <1>2, <1>3

\* A process stops while its tick is under way, or is killed then.
LEMMA ProcessStep == ASSUME EInv, NEW r \in Replicas, Drains(r) \/ Killed(r) PROVE EInv'
<1>1. CASE Drains(r)
  <2>1. \A k \in Keys : Unresolved(k)' = Unresolved(k)
    BY <1>1 DEF Drains, Unresolved
  <2> QED BY <1>1, <2>1, EnginesAlone DEF Drains, EInv, AlertTypes
<1>2. CASE Killed(r)
  BY <1>2, ForgottenStep DEF Killed, EInv, AlertTypes
<1> QED BY <1>1, <1>2

\* Every step keeps the invariant.
LEMMA NextEInv == EInv /\ [AlertNext]_alertVars => EInv'
<1> SUFFICES ASSUME EInv, [AlertNext]_alertVars PROVE EInv'
  OBVIOUS
<1>1. CASE UNCHANGED alertVars
  <2>1. \A k \in Keys : Unresolved(k)' = Unresolved(k)
    BY <1>1 DEF alertVars, Unresolved
  <2> QED BY <1>1, <2>1, EnginesAlone DEF alertVars, replicaVars, EInv, AlertTypes
<1>2. ASSUME NEW r \in Replicas, Engine(r) PROVE EInv'
  BY <1>2, TickBeginsStep, FollowerStep, QueryStep, BumpStep, InsertSilencedStep, NoWriteStep, StartCooldownStep,
     InsertFiringStep, SweepStep, TickEndsStep DEF Engine
<1>3. ASSUME NEW r \in Replicas, QueryFails(r) \/ WriteFails(r) \/ AlertSweepBegins(r) PROVE EInv'
  BY <1>3, QueryFailsStep, NoWriteStep, AlertSweepStep
<1>4. ASSUME NEW r \in Replicas, ClearCooldown(r) PROVE EInv'
  <2>1. \E k : k \in Keys
    BY <1>4 DEF ClearCooldown, EInv, AlertTypes
  <2> QED BY <1>4, <2>1, NoEventStep
<1>5. ASSUME NEW r \in Replicas, SetSilences(r) \/ RefreshSilences(r) PROVE EInv'
  <2>1. UNCHANGED <<rows, cond, engine, cool, clearing, exempt>> /\ silences' \subseteq Silenceable
        /\ cache' \in [Replicas -> SUBSET Silenceable]
    BY <1>5 DEF SetSilences, RefreshSilences, EInv, AlertTypes
  <2>2. \A k \in Keys : Unresolved(k)' = Unresolved(k)
    BY <2>1 DEF Unresolved
  <2> QED BY <2>1, <2>2, EnginesAlone DEF EInv, AlertTypes
<1>6. ASSUME NEW r \in Replicas, NEW i \in Ids, ResolveEvent(r, i) PROVE EInv'
  BY <1>6, ResolveEventStep
<1>7. ASSUME NEW r \in Replicas, NEW k \in Keys, CooldownPasses(r, k) PROVE EInv'
  BY <1>7, NoEventStep
<1>8. ASSUME NEW i \in Ids, AckEvent(i) \/ RowAges(i) \/ Prune(i) PROVE EInv'
  BY <1>8, AckEventStep, RowAgesStep
<1>9. ASSUME NEW k \in Keys, CondChanges(k) PROVE EInv'
  <2>1. cond' \subseteq Keys /\ UNCHANGED <<rows, silences, engine, cool, cache, clearing, exempt>>
    BY <1>9 DEF CondChanges, replicaVars, EInv, AlertTypes
  <2>2. \A j \in Keys : Unresolved(j)' = Unresolved(j)
    BY <2>1 DEF Unresolved
  <2> QED BY <2>1, <2>2, EnginesAlone DEF EInv, AlertTypes
<1> QED BY <1>1, <1>2, <1>3, <1>4, <1>5, <1>6, <1>7, <1>8, <1>9, ElectionStep, ProcessStep DEF AlertNext

\* The counters stay between 0 and Need: they grow by one evaluation at a time, and
\* start again from 0 when the condition, the leadership or the process ends.
CountOK == count \in [Replicas -> [Counted -> 0..Need]]

LEMMA NoCounts == [k \in Counted |-> 0] \in [Counted -> 0..Need]
  BY AlertAssumption

LEMMA CountsType ==
  ASSUME CountOK, NEW r \in Replicas, NEW E PROVE Counts(r, E) \in [Counted -> 0..Need]
<1>1. ASSUME NEW k \in Counted, count[r][k] < Need PROVE count[r][k] + 1 \in 0..Need
  BY <1>1, AlertAssumption DEF CountOK
<1> QED BY <1>1, AlertAssumption DEF CountOK, Counts

LEMMA NextCount == CountOK /\ [AlertNext]_alertVars => CountOK'
<1> SUFFICES ASSUME CountOK, [AlertNext]_alertVars PROVE CountOK'
  OBVIOUS
<1>1. ASSUME NEW r \in Replicas, NEW E \in SUBSET Keys, TickBegins(r, E) PROVE CountOK'
  BY <1>1, CountsType DEF TickBegins, CountOK
<1>2. ASSUME NEW r \in Replicas, FollowerTick(r) PROVE CountOK'
  <2> DEFINE c == [k \in Counted |-> IF k \in Bandwidth THEN 0 ELSE count[r][k]]
  <2>1. c \in [Counted -> 0..Need]
    BY AlertAssumption DEF CountOK
  <2>2. count' = [count EXCEPT ![r] = c]
    BY <1>2 DEF FollowerTick
  <2> QED BY <2>1, <2>2 DEF CountOK
<1>3. ASSUME NEW S, Forgotten(S) PROVE CountOK'
  BY <1>3, NoCounts DEF Forgotten, CountOK
<1>4. UNCHANGED count => CountOK'
  BY DEF CountOK
<1>5. ASSUME NEW r \in Replicas, Engine(r) PROVE CountOK'
  BY <1>1, <1>2, <1>3, <1>4, <1>5 DEF Engine, Query, Bump, InsertSilenced, InCooldown, StartCooldown,
     InsertFiring, TableFull, Sweep, TickEnds
<1>6. ASSUME NEW r \in Replicas,
             QueryFails(r) \/ WriteFails(r) \/ AlertSweepBegins(r) \/ ClearCooldown(r) \/ SetSilences(r)
               \/ RefreshSilences(r) \/ Drains(r) \/ Killed(r)
      PROVE  CountOK'
  BY <1>3, <1>4, <1>6 DEF QueryFails, WriteFails, AlertSweepBegins, ClearCooldown, SetSilences, RefreshSilences,
     Drains, Killed
<1>7. ASSUME NEW r \in Replicas, NEW i \in Ids, ResolveEvent(r, i) PROVE UNCHANGED count
  BY <1>7 DEF ResolveEvent
<1>8. ASSUME NEW r \in Replicas, NEW k \in Keys, CooldownPasses(r, k) PROVE UNCHANGED count
  BY <1>8 DEF CooldownPasses
<1>9. ASSUME NEW i \in Ids, AckEvent(i) \/ RowAges(i) \/ Prune(i) PROVE UNCHANGED count
  BY <1>9 DEF AckEvent, RowAges, Prune, replicaVars
<1>10. ASSUME NEW k \in Keys, CondChanges(k) PROVE UNCHANGED count
  BY <1>10 DEF CondChanges, replicaVars
<1>11. EngineElection => CountOK'
  BY <1>3, <1>4 DEF EngineElection
<1>12. UNCHANGED alertVars => UNCHANGED count
  BY DEF alertVars, replicaVars
<1> QED BY <1>4, <1>5, <1>6, <1>7, <1>8, <1>9, <1>10, <1>11, <1>12 DEF AlertNext

\* There are no events at first.
LEMMA InitEInv == AlertInit => EInv
<1> SUFFICES ASSUME AlertInit PROVE EInv
  OBVIOUS
<1>1. Away \in Evaluation /\ Away.at = "away"
  BY DEF Away, Evaluation
<1>2. AlertTypes
  BY <1>1 DEF AlertInit, AlertTypes
<1>3. \A r \in Replicas : engine[r].at = "away"
  BY <1>1 DEF AlertInit
<1>4. \A k : Unresolved(k) = {}
  BY DEF AlertInit, Unresolved
<1> QED BY <1>2, <1>3, <1>4 DEF EInv, PendingTypes, KeyOK, Pending

\* Whatever the engines and the operators do, the election goes on as in Leader.
LEMMA NextAlertElection == ElectionInv /\ [AlertNext]_alertVars => ElectionInv'
<1> SUFFICES ASSUME ElectionInv, [AlertNext]_alertVars PROVE ElectionInv'
  OBVIOUS
<1>1. CASE UNCHANGED leaderVars
  BY <1>1, NextElection
<1>2. CASE LeaderNext
  BY <1>2, NextElection
<1>3. CASE Fault /\ UNCHANGED <<up, lock, releasing, holder, broken>>
  BY <1>3, FaultOnly
<1>4. EngineElection => LeaderNext
  BY DEF EngineElection
<1>5. ASSUME NEW r \in Replicas, Drains(r) PROVE LeaderNext
  BY <1>5 DEF Drains, LeaderNext
<1>6. ASSUME NEW r \in Replicas, QueryFails(r) \/ WriteFails(r)
      PROVE  Fault /\ UNCHANGED <<up, lock, releasing, holder, broken>>
  BY <1>6 DEF QueryFails, WriteFails
<1>7. ASSUME NEW r \in Replicas, Engine(r) \/ AlertSweepBegins(r) PROVE UNCHANGED leaderVars
  BY <1>7 DEF Engine, TickBegins, FollowerTick, Query, Bump, InsertSilenced, InCooldown, StartCooldown,
              InsertFiring, TableFull, Sweep, TickEnds, AlertSweepBegins, leaderVars
<1>8. ASSUME NEW r \in Replicas, NEW i \in Ids, ResolveEvent(r, i) PROVE UNCHANGED leaderVars
  BY <1>8 DEF ResolveEvent, leaderVars
<1>9. ASSUME NEW r \in Replicas, ClearCooldown(r) \/ SetSilences(r) \/ RefreshSilences(r) \/ Killed(r)
      PROVE  UNCHANGED leaderVars
  BY <1>9 DEF ClearCooldown, SetSilences, RefreshSilences, Killed, leaderVars
<1>10. ASSUME NEW r \in Replicas, NEW k \in Keys, CooldownPasses(r, k) \/ CondChanges(k)
       PROVE  UNCHANGED leaderVars
  BY <1>10 DEF CooldownPasses, CondChanges, leaderVars
<1>11. ASSUME NEW i \in Ids, AckEvent(i) \/ RowAges(i) \/ Prune(i) PROVE UNCHANGED leaderVars
  BY <1>11 DEF AckEvent, RowAges, Prune, leaderVars
<1>12. ASSUME NEW k \in Keys, CondChanges(k) PROVE UNCHANGED leaderVars
  BY <1>12 DEF CondChanges, leaderVars
<1>13. UNCHANGED alertVars => UNCHANGED leaderVars
  BY DEF alertVars, leaderVars
<1> QED BY <1>1, <1>2, <1>3, <1>4, <1>5, <1>6, <1>7, <1>8, <1>9, <1>10, <1>11, <1>12, <1>13 DEF AlertNext

\* The invariant of the alert engine, with that of its election.
LEMMA AlertInvariant == AlertSpec => [](ElectionInv /\ EInv /\ CountOK)
<1>1. AlertInit => ElectionInv /\ EInv /\ CountOK
  BY InitElection, InitEInv, NoCounts DEF AlertInit, CountOK
<1>2. ElectionInv /\ EInv /\ CountOK /\ [AlertNext]_alertVars => (ElectionInv /\ EInv /\ CountOK)'
  BY NextAlertElection, NextEInv, NextCount
<1> QED BY <1>1, <1>2, PTL DEF AlertSpec

\* Type correctness of the alert engine.
THEOREM AlertsTypeCorrect == AlertSpec => []AlertTypeOK
<1>1. ElectionInv /\ EInv /\ CountOK => AlertTypeOK
  BY DEF ElectionInv, EInv, AlertTypes, CountOK, Evaluation, AlertTypeOK
<1> QED BY <1>1, AlertInvariant, PTL

\* A condition has at most one open event, unless a look-up failed, two replicas
\* evaluated the rule together, or a silenced event was acknowledged.
THEOREM DuplicatesAreExcused == AlertSpec => []DuplicatesExcused
<1>1. EInv => DuplicatesExcused
  BY AtMostOne DEF EInv, KeyOK, DuplicatesExcused
<1> QED BY <1>1, AlertInvariant, PTL

=============================================================================
