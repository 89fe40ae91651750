-------------------------- MODULE ComplianceProofs --------------------------
(***************************************************************************)
(* Compliance for any number of replicas, records, faults and changes of   *)
(* the clock: its types, the hash chain never forks, the checkpoints hold  *)
(* the roots of their hours, no hour is left out, and the evidence of the  *)
(* first day verifies.                                                     *)
(***************************************************************************)
EXTENDS Compliance, FiniteSetTheorems, WellFoundedInduction, TLAPS

Clocks == 0..2*MaxHour+1
Entry == [ts : Hours, prev : Seq(Hours), hash : Seq(Hours)]
Appending == [at : {"idle", "stamped", "locked", "read"}, ts : Hours, prev : Seq(Hours)]

\* The types that the chain depends on.
ChainType ==
  /\ clock \in Clocks
  /\ listener \in [Replicas -> Appending]
  /\ mutex \in Replicas \cup {None}
  /\ log \in Seq(Entry)

\* Who is between the lock and the commit holds the lock, so that there is only
\* one; what it read is the hash of the last row for as long as that row exists.
Exclusive == \A r \in Replicas : listener[r].at \in {"locked", "read"} => mutex = r
PrevIsLast == \A r \in Replicas :
  listener[r].at = "read" /\ log # <<>> /\ Len(log) \notin pruned
    => listener[r].prev = log[Len(log)].hash

\* The inductive invariant.  ChainLinks alone is not: an Insert must know that
\* what it read earlier is still the end of the chain.
IInv == ChainType /\ Exclusive /\ PrevIsLast /\ ChainLinks

USE ComplianceAssumption

\* The hour is one of Hours, as long as the clock is within its bound.
LEMMA HourType == ASSUME NEW c \in Clocks PROVE HourOf(c) \in Hours
  BY DEF Clocks, HourOf, Hours

\* The hours come in the order of the half hours.
LEMMA HourOrder == ASSUME NEW a \in Int, NEW b \in Int, a <= b PROVE HourOf(a) <= HourOf(b)
<1>1. 2 * (a \div 2) <= a /\ b < 2 * (b \div 2) + 2 /\ a \div 2 \in Int /\ b \div 2 \in Int
  OBVIOUS
<1> QED BY <1>1 DEF HourOf

\* A listener that waits has a state of its type.
LEMMA ListeningType == Listening \in Appending /\ 0 \in Clocks
<1>1. 0 \in Hours
  BY DEF Hours
<1> QED BY <1>1 DEF Listening, Appending, Clocks

\* The clock moves within its bound.
LEMMA ClockStep ==
  ASSUME clock \in Clocks, HalfHourPasses \/ SetBack
  PROVE  clock' \in Clocks /\ UNCHANGED <<chain, pruned>>
<1>1. CASE HalfHourPasses
  BY <1>1 DEF HalfHourPasses, Clocks, HourOf
<1>2. CASE SetBack
  BY <1>2 DEF SetBack, Clocks
<1> QED BY <1>1, <1>2

\* The chain is empty and nobody appends at the beginning.
LEMMA InitIInv == Init => IInv
<1> SUFFICES ASSUME Init PROVE IInv
  OBVIOUS
<1>1. ChainType
  BY ListeningType DEF Init, ChainType
<1>2. Exclusive /\ PrevIsLast
  BY DEF Init, Exclusive, PrevIsLast, Listening
<1>3. ChainLinks
  BY DEF Init, ChainLinks
<1> QED BY <1>1, <1>2, <1>3 DEF IInv

\* The last row, if it has not been deleted, is the one whose hash is read.
LEMMA LastHashIsLast ==
  ASSUME log \in Seq(Entry), log # <<>>, Len(log) \notin pruned
  PROVE  LastHash = log[Len(log)].hash
<1>1. Len(log) \in Rows /\ \A j \in Rows : Len(log) >= j /\ j \in Int
  BY DEF Rows
<1>2. \A x \in Rows : (\A y \in Rows : x >= y) => x = Len(log)
  BY <1>1
<1>3. Max(Rows) = Len(log)
  BY <1>1, <1>2 DEF Max
<1> QED BY <1>1, <1>3 DEF LastHash, LastOf

\* What is read is a hash.
LEMMA LastHashType ==
  ASSUME log \in Seq(Entry)
  PROVE  LastHash \in Seq(Hours)
<1>1. CASE Rows = {}
  BY <1>1 DEF LastHash, LastOf
<1>2. CASE Rows # {}
  <2>1. PICK n \in Nat : Rows \subseteq 1..n
    BY DEF Rows
  <2> DEFINE T == {n - x : x \in Rows}
             R == {p \in Nat \X Nat : p[1] < p[2]}
  <2>2. \A x \in Rows : x \in Int /\ n - x \in Nat
    BY <2>1
  <2>3. PICK t \in T : \A u \in T : ~(<<u, t>> \in R)
    <3>1. T \subseteq Nat /\ T # {}
      BY <1>2, <2>2
    <3>2. IsWellFoundedOn(R, Nat)
      BY NatLessThanWellFounded, Zenon DEF OpToRel
    <3> HIDE DEF T, R
    <3> QED BY <3>1, <3>2, WFMin
  <2>4. PICK m \in Rows : \A y \in Rows : m >= y
    <3>1. PICK m \in Rows : t = n - m
      OBVIOUS
    <3>2. \A y \in Rows : ~(n - y < n - m)
      BY <2>2, <2>3, <3>1
    <3> HIDE DEF T, R
    <3> QED BY <2>2, <3>1, <3>2
  <2>5. Max(Rows) \in Rows
    BY <2>4 DEF Max
  <2> DEFINE i == Max(Rows)
  <2>6. i \in 1..Len(log)
    BY <2>5 DEF Rows
  <2>7. LastHash = log[i].hash
    BY <1>2 DEF LastHash, LastOf
  <2> HIDE DEF i
  <2>8. log[i] \in Entry
    BY <2>6
  <2> QED BY <2>7, <2>8 DEF Entry
<1> QED BY <1>1, <1>2

-----------------------------------------------------------------------------
(* One lemma per action that touches the chain.                            *)

\* A record arrives.
LEMMA ReceiveStep == ASSUME IInv, NEW r \in Replicas, Receive(r) PROVE IInv'
<1>1. ChainType'
  <2> DEFINE l == [listener[r] EXCEPT !.at = "stamped"]
             k == [l EXCEPT !.ts = Hour]
  <2>1. l \in Appending
    BY DEF IInv, ChainType, Appending
  <2>2. Hour \in Hours
    BY HourType DEF IInv, ChainType, Hour
  <2>3. k \in Appending
    BY <2>1, <2>2 DEF Appending
  <2>4. listener' = [listener EXCEPT ![r] = k] /\ UNCHANGED <<clock, mutex, log>>
    BY DEF Receive
  <2> QED BY <2>3, <2>4 DEF IInv, ChainType
<1>2. Exclusive' /\ PrevIsLast'
  BY DEF IInv, ChainType, Appending, Exclusive, PrevIsLast, Receive
<1>3. ChainLinks'
  BY DEF IInv, ChainLinks, Receive
<1> QED BY <1>1, <1>2, <1>3 DEF IInv

\* Nobody is between lock and commit when the lock is free.
LEMMA LockStep == ASSUME IInv, NEW r \in Replicas, Lock(r) PROVE IInv'
<1>1. ChainType'
  BY DEF IInv, ChainType, Lock, Appending
<1>2. Exclusive' /\ PrevIsLast'
  BY DEF IInv, ChainType, Appending, Exclusive, PrevIsLast, Lock, LockFree
<1>3. ChainLinks'
  BY DEF IInv, ChainLinks, Lock
<1> QED BY <1>1, <1>2, <1>3 DEF IInv

\* What is read is the hash of the last row.
LEMMA ReadPrevStep == ASSUME IInv, NEW r \in Replicas, ReadPrev(r) PROVE IInv'
<1> DEFINE h == LastHash
<1>0. listener[r].at = "locked" /\ log' = log /\ pruned' = pruned /\ mutex' = mutex /\ clock' = clock
      /\ listener' = [listener EXCEPT ![r] = [@ EXCEPT !.at = "read", !.prev = h]]
  BY DEF ReadPrev
<1>1. h \in Seq(Hours)
  BY LastHashType DEF IInv, ChainType
<1>2. log # <<>> /\ Len(log) \notin pruned => h = log[Len(log)].hash
  BY LastHashIsLast DEF IInv, ChainType
<1> HIDE DEF h
<1>3. ChainType'
  BY <1>0, <1>1 DEF IInv, ChainType, Appending
<1>4. Exclusive'
  BY <1>0 DEF IInv, ChainType, Appending, Exclusive
<1>5. PrevIsLast'
  BY <1>0, <1>2 DEF IInv, ChainType, Appending, PrevIsLast
<1>6. ChainLinks'
  BY <1>0 DEF IInv, ChainLinks
<1> QED BY <1>3, <1>4, <1>5, <1>6 DEF IInv

\* The new row is linked to the last one, and nobody else has read.
LEMMA InsertStep == ASSUME IInv, NEW r \in Replicas, Insert(r) PROVE IInv'
<1> DEFINE e == [ts |-> listener[r].ts, prev |-> listener[r].prev,
                 hash |-> ComplianceHash(listener[r].prev, listener[r].ts)]
<1>0. /\ listener[r].at = "read" /\ log' = Append(log, e) /\ pruned' = pruned /\ mutex' = None
      /\ clock' = clock /\ listener' = [listener EXCEPT ![r] = Listening]
  BY DEF Insert
<1>1. e \in Entry /\ e.prev = listener[r].prev
  BY DEF IInv, ChainType, Appending, Entry, ComplianceHash
<1> HIDE DEF e
<1>2. ChainType'
  BY <1>0, <1>1, ListeningType DEF IInv, ChainType
<1>3. \A q \in Replicas : listener'[q].at \notin {"locked", "read"}
  BY <1>0 DEF IInv, ChainType, Exclusive, Listening
<1>4. Exclusive' /\ PrevIsLast'
  BY <1>3 DEF Exclusive, PrevIsLast
<1>5. ChainLinks'
  <2> SUFFICES ASSUME NEW i \in DOMAIN log', i + 1 \in DOMAIN log', i \notin pruned'
               PROVE  log'[i + 1].prev = log'[i].hash
    BY DEF ChainLinks
  <2>1. DOMAIN log' = 1..Len(log) + 1 /\ Len(log) \in Nat /\ DOMAIN log = 1..Len(log)
    BY <1>0, <1>1 DEF IInv, ChainType
  <2>2. CASE i = Len(log)
    <3>1. log'[i + 1] = e /\ log'[i] = log[i] /\ log # <<>>
      BY <1>0, <1>1, <2>1, <2>2 DEF IInv, ChainType
    <3> QED BY <1>0, <1>1, <2>2, <3>1 DEF IInv, PrevIsLast
  <2>3. CASE i # Len(log)
    <3>1. i \in DOMAIN log /\ i + 1 \in DOMAIN log
      BY <2>1, <2>3
    <3>2. log'[i + 1] = log[i + 1] /\ log'[i] = log[i]
      BY <1>0, <1>1, <2>1, <3>1 DEF IInv, ChainType
    <3> QED BY <1>0, <3>1, <3>2 DEF IInv, ChainLinks
  <2> QED BY <2>2, <2>3
<1> QED BY <1>2, <1>4, <1>5 DEF IInv

\* A replica that loses its connection to the chain gives the lock back, and it
\* had written nothing.
LEMMA ReleaseStep ==
  ASSUME IInv, NEW r \in Replicas,
         listener' = [listener EXCEPT ![r] = Listening],
         mutex' = IF mutex = r THEN None ELSE mutex,
         UNCHANGED <<clock, log, pruned>>
  PROVE  IInv'
<1>1. ChainType'
  BY ListeningType DEF IInv, ChainType
<1>2. Exclusive' /\ PrevIsLast'
  BY DEF IInv, ChainType, Exclusive, PrevIsLast, Listening
<1>3. ChainLinks'
  BY DEF IInv, ChainLinks
<1> QED BY <1>1, <1>2, <1>3 DEF IInv

\* Deleting rows and moving the clock leave the links that remain.
LEMMA ShrinkStep ==
  ASSUME IInv, UNCHANGED chain, pruned \subseteq pruned', clock' \in Clocks
  PROVE  IInv'
<1>1. ChainType' /\ Exclusive'
  BY DEF IInv, ChainType, Exclusive, chain
<1>2. PrevIsLast' /\ ChainLinks'
  BY DEF IInv, PrevIsLast, ChainLinks, chain
<1> QED BY <1>1, <1>2 DEF IInv

\* No step of a sealer touches the chain or brings a row back.
LEMMA SealerStep == ASSUME IInv, NEW r \in Replicas, Sealer(r) PROVE IInv'
<1>1. UNCHANGED <<chain, clock>> /\ pruned \subseteq pruned'
  <2>1. CASE Tick(r) \/ HourCheck(r) \/ ReadHashes(r) \/ ReadLatest(r) \/ SaveHourly(r)
    BY <2>1 DEF Tick, HourCheck, ReadHashes, ReadLatest, SaveHourly
  <2>2. CASE DayCheck(r) \/ ReadRoots(r) \/ ReadLatestDaily(r) \/ SaveDaily(r)
    BY <2>2 DEF DayCheck, ReadRoots, ReadLatestDaily, SaveDaily
  <2>3. CASE ExportLogs(r) \/ ExportManifest(r) \/ SealerFails(r)
    BY <2>3 DEF ExportLogs, ExportManifest, SealerFails
  <2>4. CASE Prune(r)
    BY <2>4 DEF Prune
  <2> QED BY <2>1, <2>2, <2>3, <2>4 DEF Sealer
<1> QED BY <1>1, ShrinkStep DEF IInv, ChainType

\* Every step keeps the invariant.
LEMMA NextIInv == ASSUME IInv, [Next]_vars PROVE IInv'
<1>1. CASE HalfHourPasses \/ SetBack
  BY <1>1, ClockStep, ShrinkStep DEF IInv, ChainType
<1>2. ASSUME NEW r \in Replicas, Listener(r) PROVE IInv'
  <2>1. CASE AppendFails(r)
    BY <2>1, ReleaseStep DEF AppendFails
  <2> QED BY <1>2, <2>1, ReceiveStep, LockStep, ReadPrevStep, InsertStep DEF Listener
<1>3. ASSUME NEW r \in Replicas, Sealer(r) PROVE IInv'
  BY <1>3, SealerStep
<1>4. ASSUME NEW r \in Replicas, Crash(r) PROVE IInv'
  BY <1>4, ReleaseStep DEF Crash
<1>5. ASSUME NEW r \in Replicas, Restart(r) PROVE IInv'
  BY <1>5, ShrinkStep DEF Restart, IInv, ChainType
<1>6. CASE UNCHANGED vars
  BY <1>6, ShrinkStep DEF vars, IInv, ChainType
<1> QED BY <1>1, <1>2, <1>3, <1>4, <1>5, <1>6 DEF Next

\* The hash chain never forks: every row is linked to the one before it for as
\* long as that one exists, whatever the replicas append, lose or delete
\* (store/compliance.go:60-71).
THEOREM ChainNeverForks == Spec => []ChainLinks
<1>1. IInv => ChainLinks
  BY DEF IInv
<1> QED BY InitIInv, NextIInv, <1>1, PTL DEF Spec

-----------------------------------------------------------------------------
(* ORDER BY always has an answer, so that a list has an entry for each row.  *)

Smaller == {p \in Nat \X Nat : p[1] < p[2]}

\* The least number of a set of naturals.
LEMMA LeastOf ==
  ASSUME NEW T \in SUBSET Nat, T # {}
  PROVE  \E n \in T : \A k \in T : ~(k < n)
<1>1. IsWellFoundedOn(Smaller, Nat)
  BY NatLessThanWellFounded, Zenon DEF OpToRel, Smaller
<1>2. PICK n \in T : \A k \in T : ~(<<k, n>> \in Smaller)
  BY <1>1, WFMin
<1> QED BY <1>2 DEF Smaller

\* A finite set of rows has one with the largest key.
LEMMA LargestKey ==
  ASSUME NEW S, IsFiniteSet(S), S # {}, NEW key, \A x \in S : key[x] \in Int
  PROVE  \E x \in S : \A y \in S : key[y] <= key[x]
<1> DEFINE HasLargest(T) == \E x \in T : \A y \in T : key[y] <= key[x]
           Without == {T \in SUBSET S : T # {} /\ ~HasLargest(T)}
           Sizes == {Cardinality(T) : T \in Without}
<1> SUFFICES ASSUME ~HasLargest(S) PROVE FALSE
  OBVIOUS
<1>1. \A T \in SUBSET S : IsFiniteSet(T) /\ Cardinality(T) \in Nat
  BY FS_Subset, FS_CardinalityType
<1>2. S \in Without
  OBVIOUS
<1>3. Sizes \in SUBSET Nat /\ Sizes # {}
  BY <1>1, <1>2
<1>4. PICK n \in Sizes : \A k \in Sizes : ~(k < n)
  <2> HIDE DEF Sizes
  <2> QED BY <1>3, LeastOf
<1>5. PICK T \in Without : Cardinality(T) = n
  OBVIOUS
<1>6. PICK x \in T : TRUE
  OBVIOUS
<1> DEFINE U == T \ {x}
<1>7. U \in SUBSET S /\ Cardinality(U) = Cardinality(T) - 1
  BY <1>1, <1>6, FS_RemoveElement
<1>8. U # {} => HasLargest(U)
  <2>1. Cardinality(T) \in Nat /\ Cardinality(U) < n
    BY <1>1, <1>5, <1>7
  <2>2. U \notin Without
    BY <1>4, <2>1
  <2> QED BY <1>7, <2>2
<1>9. HasLargest(T)
  <2>1. CASE U = {}
    BY <1>6, <2>1
  <2>2. CASE U # {}
    <3>1. PICK y \in U : \A z \in U : key[z] <= key[y]
      BY <1>8, <2>2
    <3>2. \A z \in T : z = x \/ z \in U
      OBVIOUS
    <3>3. key[x] \in Int /\ key[y] \in Int /\ \A z \in T : key[z] \in Int
      BY <1>6, <3>1
    <3>4. CASE key[x] <= key[y]
      BY <3>1, <3>2, <3>3, <3>4
    <3>5. CASE ~(key[x] <= key[y])
      BY <1>6, <3>1, <3>2, <3>3, <3>5
    <3> QED BY <3>4, <3>5
  <2> QED BY <2>1, <2>2
<1> QED BY <1>9

InOrder(s, key) == \A m, n \in DOMAIN s : m < n => key[s[m]] <= key[s[n]]

\* Any finite set of rows can be put in the order of their keys.
LEMMA OrderExists ==
  ASSUME NEW S, IsFiniteSet(S), NEW key, \A x \in S : key[x] \in Int
  PROVE  \E s \in Bijection(1..Cardinality(S), S) : InOrder(s, key)
<1> DEFINE Sortable(T) == \E s \in Bijection(1..Cardinality(T), T) : InOrder(s, key)
           Without == {T \in SUBSET S : ~Sortable(T)}
           Sizes == {Cardinality(T) : T \in Without}
<1> SUFFICES ASSUME ~Sortable(S) PROVE FALSE
  OBVIOUS
<1>1. \A T \in SUBSET S : IsFiniteSet(T) /\ Cardinality(T) \in Nat
  BY FS_Subset, FS_CardinalityType
<1>2. S \in Without
  OBVIOUS
<1>3. Sizes \in SUBSET Nat /\ Sizes # {}
  BY <1>1, <1>2
<1>4. PICK n \in Sizes : \A k \in Sizes : ~(k < n)
  <2> HIDE DEF Sizes
  <2> QED BY <1>3, LeastOf
<1>5. PICK T \in Without : Cardinality(T) = n
  OBVIOUS
<1>6. n \in Nat /\ IsFiniteSet(T) /\ T \subseteq S
  BY <1>1, <1>5
<1> HIDE DEF Sizes, Without, Sortable
<1>7. T # {}
  <2> SUFFICES ASSUME T = {} PROVE FALSE
    OBVIOUS
  <2>1. n = 0
    BY <1>5, FS_EmptySet
  <2> DEFINE s == [i \in 1..n |-> i]
  <2>2. s \in Bijection(1..n, T) /\ InOrder(s, key)
    BY <2>1 DEF Bijection, Injection, Surjection, IsInjective, InOrder
  <2> HIDE DEF s
  <2> QED BY <1>5, <2>2 DEF Without, Sortable
<1>8. PICK x \in T : \A y \in T : key[y] <= key[x]
  BY <1>6, <1>7, LargestKey
<1> DEFINE U == T \ {x}
<1>9. IsFiniteSet(U) /\ Cardinality(U) = n - 1 /\ U \in SUBSET S
  BY <1>5, <1>6, <1>8, FS_RemoveElement
<1>10. n - 1 \in Nat
  BY <1>1, <1>9
<1>11. PICK s \in Bijection(1..n-1, U) : InOrder(s, key)
  <2>1. Sortable(U)
    <3>1. Cardinality(U) < n
      BY <1>6, <1>9
    <3> QED BY <1>4, <1>9, <3>1 DEF Without, Sizes
  <2> QED BY <1>9, <2>1 DEF Sortable
<1> DEFINE t == [i \in 1..n |-> IF i = n THEN x ELSE s[i]]
<1>12. /\ s \in [1..n-1 -> U]
       /\ \A a, b \in 1..n-1 : s[a] = s[b] => a = b
       /\ \A u \in U : \E i \in 1..n-1 : s[i] = u
  BY <1>11 DEF Bijection, Injection, Surjection, IsInjective
<1>13. n \in 1..n /\ (\A i \in 1..n : i = n \/ i \in 1..n-1) /\ 1..n-1 \subseteq 1..n
  BY <1>6, <1>10
<1>14. t[n] = x /\ \A i \in 1..n-1 : t[i] = s[i] /\ s[i] \in U
  BY <1>6, <1>12, <1>13
<1>15. t \in [1..n -> T]
  BY <1>8, <1>13, <1>14
<1> HIDE DEF t
<1>16. \A a, b \in 1..n : t[a] = t[b] => a = b
  BY <1>12, <1>13, <1>14
<1>17. \A y \in T : \E i \in 1..n : t[i] = y
  <2> TAKE y \in T
  <2>1. CASE y = x
    BY <1>13, <1>14, <2>1
  <2>2. CASE y # x
    <3>1. PICK i \in 1..n-1 : s[i] = y
      BY <1>12, <2>2
    <3> QED BY <1>13, <1>14, <3>1
  <2> QED BY <2>1, <2>2
<1>18. t \in Bijection(1..n, T)
  BY <1>15, <1>16, <1>17 DEF Bijection, Injection, Surjection, IsInjective
<1>19. InOrder(t, key)
  <2> SUFFICES ASSUME NEW a \in 1..n, NEW b \in 1..n, a < b PROVE key[t[a]] <= key[t[b]]
    BY <1>15 DEF InOrder
  <2>1. a \in 1..n-1 /\ (b = n \/ b \in 1..n-1)
    BY <1>6, <1>13
  <2>2. CASE b = n
    BY <1>8, <1>14, <2>1, <2>2
  <2>3. CASE b \in 1..n-1
    <3>1. key[s[a]] <= key[s[b]]
      BY <1>11, <1>12, <2>1, <2>3 DEF InOrder
    <3> QED BY <1>14, <2>1, <2>3, <3>1
  <2> QED BY <2>1, <2>2, <2>3
<1> QED BY <1>5, <1>18, <1>19 DEF Without, Sortable

\* ORDER BY lists each row once, in order.
LEMMA OrderByFacts ==
  ASSUME NEW S, IsFiniteSet(S), NEW key, \A x \in S : key[x] \in Int
  PROVE  OrderBy(S, key) \in Bijection(1..Cardinality(S), S) /\ InOrder(OrderBy(S, key), key)
<1>1. \E s \in Bijection(1..Cardinality(S), S) : InOrder(s, key)
  BY OrderExists
<1> QED BY <1>1 DEF OrderBy, InOrder

\* A list of the rows of a finite set has as many entries as there are rows.
LEMMA ListFacts ==
  ASSUME NEW S, IsFiniteSet(S), NEW s, s \in [1..Cardinality(S) -> S]
  PROVE  /\ Len(s) = Cardinality(S) /\ Len(s) \in Nat /\ DOMAIN s = 1..Len(s)
         /\ s = <<>> <=> S = {}
         /\ s # <<>> => Len(s) >= 1
<1>1. Cardinality(S) \in Nat /\ (Cardinality(S) = 0 <=> S = {})
  BY FS_CardinalityType, FS_EmptySet
<1>2. s \in Seq(S) /\ Len(s) = Cardinality(S)
  BY <1>1
<1>3. s = <<>> <=> Len(s) = 0
  BY <1>2
<1> QED BY <1>1, <1>2, <1>3

RowsOf(rows, h) == {q \in rows : log[q].ts = h}

\* The list of the leaves of an hour is empty just when the hour has no rows.
LEMMA LeavesFacts ==
  ASSUME NEW rows \in SUBSET Int, IsFiniteSet(rows), NEW h
  PROVE  /\ Len(LeavesOf(rows, h)) \in Nat /\ Len(LeavesOf(rows, h)) <= Cardinality(rows)
         /\ LeavesOf(rows, h) = <<>> <=> RowsOf(rows, h) = {}
         /\ LeavesOf(rows, h) # <<>> => Len(LeavesOf(rows, h)) >= 1
<1> DEFINE Q == RowsOf(rows, h)
           F == Found(rows, h)
           key == [row \in F |-> row[1]]
           f == [q \in Q |-> <<q, log[q].hash>>]
           found == OrderBy(F, key)
<1>1. IsFiniteSet(Q) /\ Cardinality(Q) <= Cardinality(rows) /\ Cardinality(rows) \in Nat
  BY FS_Subset, FS_CardinalityType DEF RowsOf
<1>2. f \in Surjection(Q, F) /\ (F = {} <=> Q = {})
  BY DEF Surjection, Found, RowsOf
<1> HIDE DEF f
<1>3. IsFiniteSet(F) /\ Cardinality(F) <= Cardinality(Q)
  BY <1>1, <1>2, FS_Surjection
<1>4. \A row \in F : key[row] \in Int
  BY DEF Found
<1>5. LeavesOf(rows, h) = [n \in DOMAIN found |-> [hash |-> found[n][2]]]
  BY DEF LeavesOf
<1> HIDE DEF key, F, Q
<1>6. found \in [1..Cardinality(F) -> F]
  BY <1>3, <1>4, OrderByFacts DEF Bijection, Injection
<1> HIDE DEF found
<1>7. /\ Len(found) \in Nat /\ DOMAIN found = 1..Len(found) /\ Len(found) = Cardinality(F)
      /\ found = <<>> <=> F = {}
      /\ found # <<>> => Len(found) >= 1
  BY <1>3, <1>6, ListFacts
<1> DEFINE l == [n \in DOMAIN found |-> [hash |-> found[n][2]]]
<1>8. l \in Seq(ToSet(l)) /\ Len(l) = Len(found)
  BY <1>7 DEF ToSet
<1>9. l = <<>> <=> Len(l) = 0
  BY <1>8
<1>10. found = <<>> <=> Len(found) = 0
  BY <1>7
<1> HIDE DEF l
<1>11. LeavesOf(rows, h) = l
  BY <1>5 DEF l
<1>12. Cardinality(F) \in Nat /\ Cardinality(Q) \in Nat
  BY <1>1, <1>3, FS_CardinalityType
<1>13. Len(l) \in Nat /\ Len(l) <= Cardinality(rows)
  BY <1>1, <1>3, <1>7, <1>8, <1>12
<1>14. (l = <<>> <=> Q = {}) /\ (l # <<>> => Len(l) >= 1)
  BY <1>2, <1>7, <1>8, <1>9, <1>10
<1> QED BY <1>11, <1>13, <1>14 DEF Q

\* The ids of the checkpoints of some hours, each once and by hour.
LEMMA BetweenFacts ==
  ASSUME DOMAIN hourly = 1..Len(hourly), Len(hourly) \in Nat,
         \A i \in DOMAIN hourly : hourly[i].hour \in Int,
         NEW from, NEW to
  PROVE  LET Ids == {i \in DOMAIN hourly : hourly[i].hour \in from..to-1}
             ids == Between(from, to)
         IN  /\ ids \in Bijection(1..Len(ids), Ids) /\ Len(ids) \in Nat
             /\ ids = <<>> <=> Ids = {}
             /\ ids # <<>> => Len(ids) >= 1
             /\ \A m, n \in DOMAIN ids : m < n => hourly[ids[m]].hour <= hourly[ids[n]].hour
<1> DEFINE Ids == {i \in DOMAIN hourly : hourly[i].hour \in from..to-1}
           ids == Between(from, to)
           key == [i \in Ids |-> hourly[i].hour]
<1>1. IsFiniteSet(Ids)
  <2>1. IsFiniteSet(1..Len(hourly)) /\ Ids \in SUBSET (1..Len(hourly))
    BY FS_Interval
  <2> QED BY <2>1, FS_Subset
<1>2. \A i \in Ids : key[i] \in Int /\ key[i] = hourly[i].hour
  OBVIOUS
<1>3. ids = OrderBy(Ids, key)
  BY DEF Between
<1> HIDE DEF Ids, key, ids
<1>4. ids \in Bijection(1..Cardinality(Ids), Ids) /\ InOrder(ids, key)
  BY <1>1, <1>2, <1>3, OrderByFacts
<1>5. ids \in [1..Cardinality(Ids) -> Ids]
  BY <1>4 DEF Bijection, Injection
<1>6. /\ Len(ids) = Cardinality(Ids) /\ Len(ids) \in Nat
      /\ ids = <<>> <=> Ids = {}
      /\ ids # <<>> => Len(ids) >= 1
  BY <1>1, <1>5, ListFacts
<1>7. \A m, n \in DOMAIN ids : m < n => hourly[ids[m]].hour <= hourly[ids[n]].hour
  BY <1>2, <1>4, <1>5 DEF InOrder
<1> QED BY <1>4, <1>6, <1>7 DEF Ids, ids

\* A sequence of anything, after an Append.
LEMMA Appended ==
  ASSUME NEW s, s \in Seq(ToSet(s)), NEW e, NEW t, t = Append(s, e)
  PROVE  /\ t \in Seq(ToSet(t)) /\ Len(t) = Len(s) + 1 /\ Len(s) \in Nat
         /\ DOMAIN t = 1..Len(s)+1 /\ DOMAIN s = 1..Len(s)
         /\ \A i \in DOMAIN s : i \in DOMAIN t /\ t[i] = s[i]
         /\ t[Len(s) + 1] = e
         /\ ToSet(t) = ToSet(s) \cup {e}
<1> DEFINE S == ToSet(s) \cup {e}
<1>1. s \in Seq(S) /\ e \in S
  OBVIOUS
<1>2. t \in Seq(S) /\ Len(t) = Len(s) + 1 /\ Len(s) \in Nat /\ DOMAIN t = 1..Len(s)+1 /\ DOMAIN s = 1..Len(s)
  <2> HIDE DEF S
  <2> QED BY <1>1
<1>3. (\A i \in DOMAIN s : i \in DOMAIN t /\ t[i] = s[i]) /\ t[Len(s) + 1] = e
  <2> HIDE DEF S
  <2> QED BY <1>1, <1>2
<1>4. ToSet(t) = ToSet(s) \cup {e}
  <2>1. \A i \in DOMAIN t : i \in DOMAIN s \/ i = Len(s) + 1
    BY <1>2
  <2> QED BY <1>2, <1>3, <2>1 DEF ToSet
<1>5. t \in Seq(ToSet(t))
  BY <1>2, <1>4
<1> QED BY <1>2, <1>3, <1>4, <1>5

-----------------------------------------------------------------------------
(* What a step does to the sealers.                                        *)

SealerShape ==
  /\ sealer = [r \in Replicas |-> sealer[r]]
  /\ \A r \in Replicas : DOMAIN sealer[r] = {"at", "now", "list", "prev"}

\* One sealer goes to a place; the others stay where they are.
Moved(r, place) ==
  /\ SealerShape'
  /\ \A q \in Replicas \ {r} : sealer'[q] = sealer[q]
  /\ sealer'[r].at = place /\ sealer'[r].now = sealer[r].now

\* The other sealers stay when one is given a new state.
LEMMA PutFacts ==
  ASSUME SealerShape, NEW r \in Replicas, NEW s, DOMAIN s = {"at", "now", "list", "prev"},
         sealer' = [sealer EXCEPT ![r] = s]
  PROVE  SealerShape' /\ sealer'[r] = s /\ \A q \in Replicas \ {r} : sealer'[q] = sealer[q]
<1>1. DOMAIN sealer = Replicas
  BY DEF SealerShape
<1>2. sealer' = [q \in Replicas |-> IF q = r THEN s ELSE sealer[q]]
  BY <1>1
<1>3. sealer'[r] = s /\ \A q \in Replicas \ {r} : sealer'[q] = sealer[q]
  BY <1>2
<1>4. sealer' = [q \in Replicas |-> sealer'[q]]
  BY <1>2
<1>5. \A q \in Replicas : DOMAIN sealer'[q] = {"at", "now", "list", "prev"}
  BY <1>3 DEF SealerShape
<1> QED BY <1>3, <1>4, <1>5 DEF SealerShape

\* A sealer that only goes on keeps what it has read.
LEMMA GotoFacts ==
  ASSUME SealerShape, NEW r \in Replicas, NEW place, Goto(r, place)
  PROVE  Moved(r, place) /\ sealer'[r].list = sealer[r].list
<1> DEFINE s == [sealer[r] EXCEPT !.at = place]
<1>1. s.at = place /\ s.now = sealer[r].now /\ s.list = sealer[r].list
      /\ DOMAIN s = {"at", "now", "list", "prev"}
  BY DEF SealerShape
<1>2. sealer' = [sealer EXCEPT ![r] = s]
  BY DEF Goto
<1> HIDE DEF s
<1> QED BY <1>1, <1>2, PutFacts DEF Moved

\* A sealer that has read a list.
LEMMA ListRead ==
  ASSUME SealerShape, NEW r \in Replicas, NEW place, NEW l,
         sealer' = [sealer EXCEPT ![r] = [@ EXCEPT !.list = l, !.at = place]]
  PROVE  Moved(r, place) /\ sealer'[r].list = l
<1> DEFINE s == [sealer[r] EXCEPT !.list = l, !.at = place]
<1>1. s.at = place /\ s.now = sealer[r].now /\ s.list = l /\ DOMAIN s = {"at", "now", "list", "prev"}
  BY DEF SealerShape
<1>2. sealer' = [sealer EXCEPT ![r] = s]
  OBVIOUS
<1> HIDE DEF s
<1> QED BY <1>1, <1>2, PutFacts DEF Moved

\* A sealer that has read the root to link to.
LEMMA PrevRead ==
  ASSUME SealerShape, NEW r \in Replicas, NEW place, NEW p,
         sealer' = [sealer EXCEPT ![r] = [@ EXCEPT !.prev = p, !.at = place]]
  PROVE  Moved(r, place) /\ sealer'[r].list = sealer[r].list
<1> DEFINE s == [sealer[r] EXCEPT !.prev = p, !.at = place]
<1>1. s.at = place /\ s.now = sealer[r].now /\ s.list = sealer[r].list
      /\ DOMAIN s = {"at", "now", "list", "prev"}
  BY DEF SealerShape
<1>2. sealer' = [sealer EXCEPT ![r] = s]
  OBVIOUS
<1> HIDE DEF s
<1> QED BY <1>1, <1>2, PutFacts DEF Moved

\* A sealer that starts or ends a tick.
LEMMA TickFacts ==
  ASSUME SealerShape, NEW r \in Replicas, NEW place, NEW c,
         sealer' = [sealer EXCEPT ![r] = [Waiting EXCEPT !.at = place, !.now = c]]
  PROVE  /\ SealerShape' /\ sealer'[r].at = place /\ sealer'[r].now = c
         /\ \A q \in Replicas \ {r} : sealer'[q] = sealer[q]
<1> DEFINE s == [Waiting EXCEPT !.at = place, !.now = c]
<1>1. s.at = place /\ s.now = c /\ DOMAIN s = {"at", "now", "list", "prev"}
  BY DEF Waiting
<1> HIDE DEF s
<1>2. sealer' = [sealer EXCEPT ![r] = s]
  BY DEF s
<1> QED BY <1>1, <1>2, PutFacts

\* A sealer that has ended its tick, or is gone.
LEMMA WaitFacts ==
  ASSUME SealerShape, NEW r \in Replicas, sealer' = [sealer EXCEPT ![r] = Waiting]
  PROVE  /\ SealerShape' /\ sealer'[r].at = "idle" /\ sealer'[r].now = 0
         /\ \A q \in Replicas \ {r} : sealer'[q] = sealer[q]
<1>1. Waiting.at = "idle" /\ Waiting.now = 0 /\ DOMAIN Waiting = {"at", "now", "list", "prev"}
  BY DEF Waiting
<1> QED BY <1>1, PutFacts

-----------------------------------------------------------------------------
(* Type correctness.                                                       *)

\* An hour lies in the day that the division gives.
LEMMA DayFacts ==
  ASSUME NEW h \in Nat
  PROVE  Day(h) \in Nat /\ DayStart(Day(h)) <= h /\ h < DayStart(Day(h) + 1)
  BY DEF Day, DayStart

\* A day that begins at or before the last hour is one of Days, and there is
\* no day before the first.
LEMMA DayIsBounded ==
  ASSUME NEW d \in Int, NEW h \in Hours, NEW k \in Hours,
         d + 1 = Day(k), h < DayStart(d + 1)
  PROVE  d \in Days
<1>1. h \in Nat /\ k \in Nat /\ k <= MaxHour
  BY DEF Hours
<1>2. d + 1 \in Nat /\ (d + 1) * HoursPerDay <= k /\ k < (d + 2) * HoursPerDay
  BY <1>1, DayFacts DEF DayStart
<1> DEFINE e == Day(MaxHour)
<1>3. e \in Nat /\ MaxHour < (e + 1) * HoursPerDay
  BY DayFacts DEF DayStart
<1> HIDE DEF e
<1>4. d >= 0
  <2>1. CASE d + 1 = 0
    <3>1. DayStart(d + 1) = 0
      BY <2>1 DEF DayStart
    <3> QED BY <1>1, <3>1
  <2> QED BY <1>2, <2>1
<1>5. d <= e
  <2> SUFFICES ASSUME d >= e + 1 PROVE FALSE
    BY <1>3
  <2>1. (e + 1) * HoursPerDay <= d * HoursPerDay
    BY <1>3
  <2>2. d * HoursPerDay <= (d + 1) * HoursPerDay
    OBVIOUS
  <2>3. (e + 1) * HoursPerDay \in Int /\ d * HoursPerDay \in Int /\ (d + 1) * HoursPerDay \in Int
    BY <1>3
  <2> QED BY <1>1, <1>2, <1>3, <2>1, <2>2, <2>3
<1> QED BY <1>4, <1>5 DEF Days, e

Busy == {q \in Replicas : listener[q].at # "idle"}

\* A list is read for an hour, or a day, that there is, and is not empty.
SealerType(r) ==
  LET s == sealer[r] IN
  /\ s.at \in SealerPlaces /\ s.now \in Clocks
  /\ s.at \in {"latest", "save"} => SealedHour(s.now) \in Hours /\ Len(s.list) \in 1..MaxRecords
  /\ s.at \in {"latestDaily", "saveDaily"} => SealedDay(s.now) \in Days /\ Len(s.list) \in Nat \ {0}

\* There is room for the records that are on their way.
Room == Len(log) + Cardinality(Busy) <= MaxRecords

Tables ==
  /\ hourly \in Seq(ToSet(hourly)) /\ \A cp \in ToSet(hourly) : cp.hour \in Hours /\ cp.count \in 1..MaxRecords
  /\ daily \in Seq(ToSet(daily)) /\ \A cp \in ToSet(daily) : cp.day \in Days /\ cp.hours \in Nat \ {0}
  /\ worm \in [Days -> {"none", "logs", "complete"}]

Processes == up \subseteq Replicas /\ ticked \subseteq up /\ pruned \subseteq DOMAIN log

Bounds ==
  /\ alarmed \in BOOLEAN /\ faults \in 0..MaxFaults /\ setBacks \in 0..MaxSetBacks
  /\ disturbed \subseteq Hours

\* The inductive invariant of the types: TypeOK does not bound the records that
\* listeners are about to append, nor the lists that sealers hold.
TInv ==
  /\ IInv /\ Processes /\ Room /\ Bounds /\ Tables
  /\ SealerShape /\ \A r \in Replicas : SealerType(r)

\* The invariant implies the types.
LEMMA TInvTypes == TInv => TypeOK
<1> SUFFICES ASSUME TInv PROVE TypeOK
  OBVIOUS
<1>1. /\ clock \in 0..2*MaxHour+1 /\ mutex \in Replicas \cup {None}
      /\ \A r \in Replicas : /\ listener[r].at \in {"idle", "stamped", "locked", "read"}
                             /\ listener[r].ts \in Hours /\ listener[r].prev \in Seq(Hours)
      /\ log \in Seq([ts : Hours, prev : Seq(Hours), hash : Seq(Hours)])
  BY DEF TInv, IInv, ChainType, Appending, Entry, Clocks
<1>2. \A r \in Replicas : sealer[r].at \in SealerPlaces /\ sealer[r].now \in 0..2*MaxHour+1
  BY DEF TInv, SealerType, Clocks
<1>3. /\ \A i \in DOMAIN hourly : hourly[i].hour \in Hours /\ hourly[i].count \in 1..MaxRecords
      /\ \A i \in DOMAIN daily : daily[i].day \in Days /\ daily[i].hours \in Nat \ {0}
      /\ worm \in [Days -> {"none", "logs", "complete"}]
  BY DEF TInv, Tables, ToSet
<1> QED BY <1>1, <1>2, <1>3 DEF TInv, Processes, Bounds, TypeOK

\* Nothing is recorded or sealed at the beginning.
LEMMA InitTInv == Init => TInv
<1> SUFFICES ASSUME Init PROVE TInv
  OBVIOUS
<1>1. Processes /\ Bounds
  <2>1. up \subseteq Replicas /\ ticked = {} /\ pruned = {}
    BY DEF Init
  <2>2. alarmed \in BOOLEAN /\ faults = 0 /\ setBacks = 0 /\ disturbed = {}
    BY DEF Init
  <2> QED BY <2>1, <2>2 DEF Processes, Bounds
<1>2. Room
  <2>1. Busy = {}
    BY DEF Init, Busy, Listening
  <2> QED BY <2>1, FS_EmptySet DEF Init, Room
<1>3. Tables
  BY DEF Init, Tables, ToSet
<1>4. \A r \in Replicas : sealer[r].at = "idle" /\ sealer[r].now \in Clocks /\ DOMAIN sealer[r] = {"at", "now", "list", "prev"}
  BY ListeningType DEF Init, Waiting
<1>5. SealerShape /\ \A r \in Replicas : SealerType(r)
  BY <1>4 DEF Init, SealerShape, SealerType, SealerPlaces
<1> QED BY InitIInv, <1>1, <1>2, <1>3, <1>5 DEF TInv

\* One listener more, or one less.
LEMMA BusyFacts ==
  ASSUME IInv, NEW r \in Replicas, NEW l \in Appending, listener' = [listener EXCEPT ![r] = l]
  PROVE  /\ IsFiniteSet(Busy) /\ Cardinality(Busy) \in Nat
         /\ Cardinality(Busy') <= Cardinality(Busy) + 1
         /\ l.at = "idle" => Cardinality(Busy') <= Cardinality(Busy)
         /\ l.at = "idle" /\ listener[r].at # "idle" => Cardinality(Busy') = Cardinality(Busy) - 1
         /\ listener[r].at # "idle" => Cardinality(Busy') <= Cardinality(Busy)
<1>1. IsFiniteSet(Busy) /\ Cardinality(Busy) \in Nat /\ Busy \in SUBSET Replicas
  BY FS_Subset, FS_CardinalityType DEF Busy
<1>2. Busy' = IF l.at = "idle" THEN Busy \ {r} ELSE Busy \cup {r}
  BY DEF IInv, ChainType, Busy
<1>3. Cardinality(Busy \cup {r}) = IF r \in Busy THEN Cardinality(Busy) ELSE Cardinality(Busy) + 1
  BY <1>1, FS_AddElement
<1>4. Cardinality(Busy \ {r}) = IF r \in Busy THEN Cardinality(Busy) - 1 ELSE Cardinality(Busy)
  BY <1>1, FS_RemoveElement
<1>5. r \in Busy <=> listener[r].at # "idle"
  BY DEF Busy
<1>6. CASE l.at = "idle"
  BY <1>1, <1>2, <1>4, <1>5, <1>6
<1>7. CASE l.at # "idle"
  BY <1>1, <1>2, <1>3, <1>5, <1>7
<1> QED BY <1>6, <1>7

\* A failed statement stays within the bound of faults.
LEMMA FaultType == ASSUME Bounds, Fault PROVE faults' \in 0..MaxFaults /\ faults' > 0 /\ setBacks' \in 0..MaxSetBacks
  BY DEF Bounds, Fault

\* What is not written keeps its type.
LEMMA Unwritten ==
  ASSUME TInv
  PROVE  /\ UNCHANGED <<hourly, daily, worm>> => Tables'
         /\ UNCHANGED <<alarmed, counts, disturbed>> => Bounds'
<1>1. ASSUME UNCHANGED <<hourly, daily, worm>> PROVE Tables'
  BY <1>1 DEF TInv, Tables
<1>2. ASSUME UNCHANGED <<alarmed, counts, disturbed>> PROVE Bounds'
  BY <1>2 DEF TInv, Bounds, counts
<1> QED BY <1>1, <1>2

\* The types of the tables, after a step of the hourly part of a tick.
LEMMA HourlyTypes ==
  ASSUME TInv, NEW r \in Replicas,
         Tick(r) \/ HourCheck(r) \/ ReadHashes(r) \/ ReadLatest(r) \/ SaveHourly(r)
  PROVE  SealerShape' /\ (\A q \in Replicas : SealerType(q)') /\ Tables' /\ Bounds'
<1>0. /\ SealerShape /\ (\A q \in Replicas : SealerType(q)) /\ Tables /\ Bounds
      /\ clock \in Clocks /\ sealer[r].now \in Clocks
  BY DEF TInv, IInv, ChainType, SealerType
<1>1. SUFFICES SealerShape' /\ (\A q \in Replicas \ {r} : sealer'[q] = sealer[q]) /\ SealerType(r)'
               /\ Tables' /\ Bounds'
  BY <1>0 DEF SealerType
<1>2. CASE Tick(r)
  <2>1. SealerShape' /\ sealer'[r].at = "hour" /\ sealer'[r].now = clock
        /\ \A q \in Replicas \ {r} : sealer'[q] = sealer[q]
    BY <1>0, <1>2, TickFacts DEF Tick
  <2>2. SealerType(r)'
    BY <1>0, <2>1 DEF SealerType, SealerPlaces
  <2> QED BY <1>2, <2>1, <2>2, Unwritten DEF Tick
<1>3. CASE HourCheck(r)
  <2>1. PICK place \in {"day", "hashes"} : Goto(r, place)
    BY <1>3 DEF HourCheck
  <2>2. Moved(r, place)
    BY <1>0, <2>1, GotoFacts
  <2>3. SealerType(r)'
    BY <1>0, <2>2 DEF Moved, SealerType, SealerPlaces
  <2> QED BY <1>3, <2>2, <2>3, Unwritten DEF HourCheck, Moved
<1>4. CASE ReadHashes(r)
  <2> DEFINE h == SealedHour(Now(r))
             hs == HashesOf(h)
  <2>1. Moved(r, UnlessEmpty(hs, "day", "latest")) /\ sealer'[r].list = hs
    BY <1>0, <1>4, ListRead DEF ReadHashes
  <2>2. IsFiniteSet(Rows) /\ Rows \in SUBSET Int /\ Cardinality(Rows) <= MaxRecords
    <3>1. IsFiniteSet(1..Len(log)) /\ Cardinality(1..Len(log)) = Len(log) /\ DOMAIN log = 1..Len(log)
          /\ Len(log) \in Nat
      <4>1. DOMAIN log = 1..Len(log) /\ Len(log) \in Nat
        BY DEF TInv, IInv, ChainType
      <4>2. IsFiniteSet(1..Len(log)) /\ Cardinality(1..Len(log)) = IF 1 > Len(log) THEN 0 ELSE Len(log) - 1 + 1
        BY <4>1, FS_Interval
      <4>3. CASE Len(log) = 0
        BY <4>1, <4>2, <4>3
      <4>4. CASE Len(log) # 0
        BY <4>1, <4>2, <4>4
      <4> QED BY <4>3, <4>4
    <3>2. Rows \in SUBSET (1..Len(log))
      BY <3>1 DEF Rows
    <3>3. IsFiniteSet(Rows) /\ Cardinality(Rows) <= Len(log) /\ Cardinality(Rows) \in Nat
      BY <3>1, <3>2, FS_Subset, FS_CardinalityType
    <3>4. Cardinality(Busy) \in Nat
      BY FS_Subset, FS_CardinalityType DEF Busy
    <3> QED BY <3>1, <3>2, <3>3, <3>4 DEF TInv, Room
  <2>3. UNCHANGED <<hourly, daily, worm, alarmed, counts, disturbed>>
    BY <1>4 DEF ReadHashes
  <2>4. CASE hs = <<>>
    <3>1. Moved(r, "day")
      BY <2>1, <2>4 DEF UnlessEmpty
    <3>2. SealerType(r)'
      BY <1>0, <3>1 DEF Moved, SealerType, SealerPlaces
    <3> HIDE DEF hs, h
    <3> QED BY <2>3, <3>1, <3>2, Unwritten DEF Moved
  <2>5. CASE hs # <<>>
    <3>1. Moved(r, "latest") /\ sealer'[r].list = hs
      BY <2>1, <2>5 DEF UnlessEmpty
    <3>2. Len(hs) \in Nat /\ Len(hs) <= Cardinality(Rows) /\ Len(hs) >= 1 /\ RowsOf(Rows, h) # {}
      BY <2>2, <2>5, LeavesFacts DEF HashesOf
    <3>3. Len(hs) \in 1..MaxRecords
      BY <2>2, <3>2, FS_CardinalityType
    <3>4. h \in Hours
      <4>1. PICK q \in Rows : log[q].ts = h
        BY <3>2 DEF RowsOf
      <4>2. log \in Seq(Entry) /\ q \in DOMAIN log
        BY DEF TInv, IInv, ChainType, Rows
      <4>3. log[q] \in Entry
        BY <4>2
      <4> HIDE DEF h
      <4> QED BY <4>1, <4>3 DEF Entry
    <3>5. SealerType(r)'
      <4> HIDE DEF hs
      <4> QED BY <1>0, <3>1, <3>3, <3>4 DEF Moved, SealerType, SealerPlaces, Now
    <3> HIDE DEF hs, h
    <3> QED BY <2>3, <3>1, <3>5, Unwritten DEF Moved
  <2> QED BY <2>4, <2>5
<1>5. CASE ReadLatest(r)
  <2>1. PICK p \in PrevHourly : sealer' = [sealer EXCEPT ![r] = [@ EXCEPT !.prev = p, !.at = "save"]]
    BY <1>5 DEF ReadLatest
  <2>2. Moved(r, "save") /\ sealer'[r].list = sealer[r].list /\ sealer[r].at = "latest"
    BY <1>0, <1>5, <2>1, PrevRead DEF ReadLatest, At
  <2>3. SealerType(r)'
    BY <1>0, <2>2 DEF Moved, SealerType, SealerPlaces
  <2>4. Tables'
    BY <1>0, <1>5 DEF ReadLatest, Tables
  <2>5. Bounds'
    <3>1. alarmed' \in BOOLEAN
      BY <1>5 DEF ReadLatest
    <3> QED BY <1>0, <1>5, <3>1 DEF ReadLatest, Bounds, counts
  <2> QED BY <2>2, <2>3, <2>4, <2>5 DEF Moved
<1>6. CASE SaveHourly(r)
  <2> DEFINE cp == [hour |-> SealedHour(sealer[r].now), prev |-> sealer[r].prev,
                    root |-> MerkleRoot(sealer[r].list), count |-> Len(sealer[r].list)]
  <2>1. Moved(r, "day") /\ hourly' = Append(hourly, cp) /\ sealer[r].at = "save"
    BY <1>0, <1>6, GotoFacts DEF SaveHourly, At
  <2>2. cp.hour \in Hours /\ cp.count \in 1..MaxRecords
    BY <1>0, <2>1 DEF SealerType
  <2>3. SealerType(r)'
    BY <1>0, <2>1 DEF Moved, SealerType, SealerPlaces
  <2>4. Tables'
    <3> HIDE DEF cp
    <3>0. hourly \in Seq(ToSet(hourly)) /\ hourly' = Append(hourly, cp)
      BY <1>0, <2>1 DEF Tables
    <3>1. hourly' \in Seq(ToSet(hourly')) /\ ToSet(hourly') = ToSet(hourly) \cup {cp}
      BY <3>0, Appended
    <3>2. daily' = daily /\ worm' = worm
      BY <1>6 DEF SaveHourly
    <3> QED BY <1>0, <2>2, <3>1, <3>2 DEF Tables
  <2>5. Bounds'
    BY <1>0, <1>6 DEF SaveHourly, Bounds, counts
  <2> HIDE DEF cp
  <2> QED BY <2>1, <2>3, <2>4, <2>5 DEF Moved
<1> QED BY <1>2, <1>3, <1>4, <1>5, <1>6

\* The types of the tables, after a step of the daily part of a tick.
LEMMA DailyTypes ==
  ASSUME TInv, NEW r \in Replicas,
         \/ DayCheck(r) \/ ReadRoots(r) \/ ReadLatestDaily(r) \/ SaveDaily(r)
         \/ ExportLogs(r) \/ ExportManifest(r)
  PROVE  SealerShape' /\ (\A q \in Replicas : SealerType(q)') /\ Tables' /\ Bounds'
<1>0. /\ SealerShape /\ (\A q \in Replicas : SealerType(q)) /\ Tables
      /\ sealer[r].now \in Clocks
  BY DEF TInv, SealerType
<1>1. SUFFICES SealerShape' /\ (\A q \in Replicas \ {r} : sealer'[q] = sealer[q]) /\ SealerType(r)'
               /\ Tables' /\ Bounds'
  BY <1>0 DEF SealerType
<1>2. ASSUME NEW place \in SealerPlaces \ {"latest", "save", "latestDaily", "saveDaily"}, Moved(r, place)
      PROVE  SealerShape' /\ (\A q \in Replicas \ {r} : sealer'[q] = sealer[q]) /\ SealerType(r)'
  BY <1>0, <1>2 DEF Moved, SealerType
<1>3. CASE DayCheck(r)
  <2>1. PICK place \in {"roots", "prune"} : Goto(r, place)
    BY <1>3 DEF DayCheck
  <2>2. Moved(r, place) /\ place \in SealerPlaces \ {"latest", "save", "latestDaily", "saveDaily"}
    BY <1>0, <2>1, GotoFacts DEF SealerPlaces
  <2> QED BY <1>2, <1>3, <2>2, Unwritten DEF DayCheck
<1>4. CASE ReadRoots(r)
  <2> DEFINE d == SealedDay(Now(r))
             ids == HourlyOfDay(d)
             roots == RootsOf(ids)
  <2>1. Moved(r, UnlessEmpty(roots, "prune", "latestDaily")) /\ sealer'[r].list = roots
    BY <1>0, <1>4, ListRead DEF ReadRoots
  <2>2. Tables' /\ Bounds'
    BY <1>4, Unwritten DEF ReadRoots
  <2>3. CASE roots = <<>>
    <3>1. Moved(r, "prune")
      BY <2>1, <2>3 DEF UnlessEmpty
    <3>2. "prune" \in SealerPlaces \ {"latest", "save", "latestDaily", "saveDaily"}
      BY DEF SealerPlaces
    <3> HIDE DEF roots
    <3> QED BY <1>2, <2>2, <3>1, <3>2
  <2>4. CASE roots # <<>>
    <3>1. Moved(r, "latestDaily") /\ sealer'[r].list = roots
      BY <2>1, <2>4 DEF UnlessEmpty
    <3>2. DOMAIN hourly = 1..Len(hourly) /\ Len(hourly) \in Nat /\ \A i \in DOMAIN hourly : hourly[i].hour \in Hours
      BY <1>0 DEF Tables, ToSet
    <3>3. \A i \in DOMAIN hourly : hourly[i].hour \in Int
      BY <3>2 DEF Hours
    <3> DEFINE Ids == {i \in DOMAIN hourly : hourly[i].hour \in DayStart(d)..DayStart(d + 1)-1}
    <3>4. /\ ids \in Bijection(1..Len(ids), Ids) /\ Len(ids) \in Nat
          /\ ids = <<>> <=> Ids = {}
          /\ ids # <<>> => Len(ids) >= 1
      <4> HIDE DEF d
      <4> QED BY <3>2, <3>3, BetweenFacts DEF HourlyOfDay
    <3>5. DOMAIN roots = 1..Len(ids)
      <4>1. DOMAIN ids = 1..Len(ids)
        BY <3>4 DEF Bijection, Injection
      <4> QED BY <4>1 DEF RootsOf
    <3>6. ids # <<>>
      <4> SUFFICES ASSUME ids = <<>> PROVE FALSE
        OBVIOUS
      <4>1. roots = <<>>
        BY DEF RootsOf
      <4> HIDE DEF roots
      <4> QED BY <2>4, <4>1
    <3>7. Len(roots) \in Nat \ {0}
      <4> HIDE DEF roots, ids
      <4>1. Len(roots) = Len(ids)
        BY <3>4, <3>5
      <4> QED BY <3>4, <3>6, <4>1
    <3>8. d \in Days
      <4>1. PICK i \in DOMAIN hourly : hourly[i].hour \in DayStart(d)..DayStart(d + 1)-1
        BY <3>4, <3>6
      <4>2. HourOf(sealer[r].now) \in Hours /\ d + 1 = Day(HourOf(sealer[r].now)) /\ d \in Int
        <5>1. HourOf(sealer[r].now) \in Hours
          BY <1>0, HourType
        <5>2. Day(HourOf(sealer[r].now)) \in Nat
          BY <5>1, DayFacts DEF Hours
        <5> QED BY <5>1, <5>2 DEF SealedDay, Now
      <4>3. DayStart(d + 1) \in Int
        BY <4>2 DEF DayStart
      <4> DEFINE h == hourly[i].hour
      <4>4. h \in Hours /\ h < DayStart(d + 1)
        <5>1. h \in Hours /\ h \in Int
          BY <3>2, <3>3
        <5> HIDE DEF d
        <5> QED BY <4>1, <4>3, <5>1
      <4> HIDE DEF d, h
      <4> QED BY <4>2, <4>4, DayIsBounded
    <3>9. SealerType(r)'
      <4> HIDE DEF roots
      <4> QED BY <1>0, <3>1, <3>7, <3>8 DEF Moved, SealerType, SealerPlaces, Now
    <3> HIDE DEF roots
    <3> QED BY <2>2, <3>1, <3>9 DEF Moved
  <2> QED BY <2>3, <2>4
<1>5. CASE ReadLatestDaily(r)
  <2>1. PICK p \in PrevDaily : sealer' = [sealer EXCEPT ![r] = [@ EXCEPT !.prev = p, !.at = "saveDaily"]]
    BY <1>5 DEF ReadLatestDaily
  <2>2. Moved(r, "saveDaily") /\ sealer'[r].list = sealer[r].list /\ sealer[r].at = "latestDaily"
    BY <1>0, <1>5, <2>1, PrevRead DEF ReadLatestDaily, At
  <2>3. SealerType(r)'
    BY <1>0, <2>2 DEF Moved, SealerType, SealerPlaces
  <2> QED BY <1>5, <2>2, <2>3, Unwritten DEF ReadLatestDaily, Moved
<1>6. CASE SaveDaily(r)
  <2> DEFINE cp == [day |-> SealedDay(sealer[r].now), prev |-> sealer[r].prev,
                    root |-> MerkleRoot(sealer[r].list), hours |-> Len(sealer[r].list)]
  <2>1. Moved(r, "worm") /\ daily' = Append(daily, cp) /\ sealer[r].at = "saveDaily"
    BY <1>0, <1>6, GotoFacts DEF SaveDaily, At
  <2>2. cp.day \in Days /\ cp.hours \in Nat \ {0}
    BY <1>0, <2>1 DEF SealerType
  <2> HIDE DEF cp
  <2>3. "worm" \in SealerPlaces \ {"latest", "save", "latestDaily", "saveDaily"}
    BY DEF SealerPlaces
  <2>4. Tables'
    <3>0. daily \in Seq(ToSet(daily)) /\ daily' = Append(daily, cp)
      BY <1>0, <2>1 DEF Tables
    <3>1. daily' \in Seq(ToSet(daily')) /\ ToSet(daily') = ToSet(daily) \cup {cp}
      BY <3>0, Appended
    <3>2. hourly' = hourly /\ worm' = worm
      BY <1>6 DEF SaveDaily
    <3> QED BY <1>0, <2>2, <3>1, <3>2 DEF Tables
  <2> QED BY <1>2, <1>6, <2>1, <2>3, <2>4, Unwritten DEF SaveDaily
<1>7. CASE ExportLogs(r) \/ ExportManifest(r)
  <2>1. PICK place \in {"manifest", "prune"} : Goto(r, place)
    BY <1>7 DEF ExportLogs, ExportManifest
  <2>2. Moved(r, place) /\ place \in SealerPlaces \ {"latest", "save", "latestDaily", "saveDaily"}
    BY <1>0, <2>1, GotoFacts DEF SealerPlaces
  <2>3. worm' \in [Days -> {"none", "logs", "complete"}]
    BY <1>0, <1>7 DEF Tables, ExportLogs, ExportManifest
  <2>4. Tables'
    BY <1>0, <1>7, <2>3 DEF Tables, ExportLogs, ExportManifest
  <2>5. Bounds'
    BY <1>7, Unwritten DEF ExportLogs, ExportManifest
  <2> QED BY <1>2, <2>2, <2>4, <2>5
<1> QED BY <1>3, <1>4, <1>5, <1>6, <1>7

\* The types of the tables, after the end of a tick or a failed statement.
LEMMA TickEndTypes ==
  ASSUME TInv, NEW r \in Replicas, Prune(r) \/ SealerFails(r)
  PROVE  SealerShape' /\ (\A q \in Replicas : SealerType(q)') /\ Tables' /\ Bounds'
<1>0. /\ SealerShape /\ (\A q \in Replicas : SealerType(q)) /\ Bounds /\ sealer[r].now \in Clocks
  BY DEF TInv, SealerType
<1>1. SUFFICES SealerShape' /\ (\A q \in Replicas \ {r} : sealer'[q] = sealer[q]) /\ SealerType(r)'
               /\ Tables' /\ Bounds'
  BY <1>0 DEF SealerType
<1>2. CASE Prune(r)
  <2>1. SealerShape' /\ sealer'[r].at = "idle" /\ sealer'[r].now = 0
        /\ \A q \in Replicas \ {r} : sealer'[q] = sealer[q]
    BY <1>0, <1>2, WaitFacts DEF Prune
  <2>2. SealerType(r)'
    BY <2>1, ListeningType DEF SealerType, SealerPlaces
  <2>3. Tables'
    BY <1>2, Unwritten DEF Prune
  <2>4. Bounds'
    <3>1. alarmed' = alarmed /\ disturbed' = disturbed /\ (UNCHANGED counts \/ Fault)
      BY <1>2 DEF Prune
    <3>2. CASE UNCHANGED counts
      BY <3>1, <3>2, Unwritten
    <3>3. CASE Fault
      BY <1>0, <3>1, <3>3, FaultType DEF Bounds
    <3> QED BY <3>1, <3>2, <3>3
  <2> QED BY <2>1, <2>2, <2>3, <2>4
<1>3. CASE SealerFails(r)
  <2>1. PICK place \in {"day", "prune"} : Goto(r, place)
    BY <1>3 DEF SealerFails, AfterError
  <2>2. Moved(r, place)
    BY <1>0, <2>1, GotoFacts
  <2>3. SealerType(r)'
    BY <1>0, <2>2 DEF Moved, SealerType, SealerPlaces
  <2>4. Tables'
    BY <1>3, Unwritten DEF SealerFails
  <2>5. Bounds'
    BY <1>0, <1>3, FaultType DEF SealerFails, Bounds
  <2> QED BY <2>2, <2>3, <2>4, <2>5 DEF Moved
<1> QED BY <1>2, <1>3

\* No step of a sealer starts or ends a replica, and it only deletes rows there are.
LEMMA SealerTInv == ASSUME TInv, NEW r \in Replicas, Sealer(r) PROVE TInv'
<1>1. IInv'
  BY SealerStep DEF TInv
<1>2. SealerShape' /\ (\A q \in Replicas : SealerType(q)') /\ Tables' /\ Bounds'
  BY HourlyTypes, DailyTypes, TickEndTypes DEF Sealer
<1>3. UNCHANGED <<chain, up>> /\ r \in up /\ ticked' \in {ticked, ticked \cup {r}} /\ pruned' \in {pruned, pruned \cup Expired}
  <2>1. CASE Tick(r) \/ HourCheck(r) \/ ReadHashes(r) \/ ReadLatest(r) \/ SaveHourly(r)
    BY <2>1 DEF Tick, HourCheck, ReadHashes, ReadLatest, SaveHourly, At
  <2>2. CASE DayCheck(r) \/ ReadRoots(r) \/ ReadLatestDaily(r) \/ SaveDaily(r)
    BY <2>2 DEF DayCheck, ReadRoots, ReadLatestDaily, SaveDaily, At
  <2>3. CASE ExportLogs(r) \/ ExportManifest(r) \/ SealerFails(r)
    BY <2>3 DEF ExportLogs, ExportManifest, SealerFails, At
  <2>4. CASE Prune(r)
    BY <2>4 DEF Prune, At
  <2> QED BY <2>1, <2>2, <2>3, <2>4 DEF Sealer
<1>4. Processes'
  BY <1>3 DEF TInv, Processes, Expired, chain
<1>5. Room'
  BY <1>3 DEF TInv, Room, Busy, chain
<1> QED BY <1>1, <1>2, <1>4, <1>5 DEF TInv

\* A step that leaves the sealers alone keeps their types and those of their tables.
LEMMA OutsideTypes ==
  ASSUME TInv, UNCHANGED <<up, seals, pruned>>, DOMAIN log \subseteq DOMAIN log'
  PROVE  Processes' /\ Tables' /\ SealerShape' /\ \A q \in Replicas : SealerType(q)'
<1>1. Processes'
  BY DEF TInv, Processes, seals
<1>2. Tables'
  BY Unwritten DEF seals
<1>3. SealerShape' /\ \A q \in Replicas : SealerType(q)'
  BY DEF TInv, SealerShape, SealerType, seals
<1> QED BY <1>1, <1>2, <1>3

\* A record is only taken when there is room for it.
LEMMA ListenerTInv == ASSUME TInv, NEW r \in Replicas, Listener(r) PROVE TInv'
<1>0. IInv /\ Room /\ Bounds /\ Len(log) \in Nat /\ listener[r] \in Appending /\ DOMAIN log = 1..Len(log)
  BY DEF TInv, IInv, ChainType
<1>1. IInv'
  BY <1>0, NextIInv DEF Next
<1>2. UNCHANGED <<up, seals, pruned>>
  BY DEF Listener, Receive, Lock, ReadPrev, Insert, AppendFails
<1>3. PICK l \in Appending : listener' = [listener EXCEPT ![r] = l]
  <2>1. PICK l : listener' = [listener EXCEPT ![r] = l]
    BY DEF Listener, Receive, Lock, ReadPrev, Insert, AppendFails
  <2>2. listener'[r] = l /\ listener'[r] \in Appending
    BY <1>0, <1>1, <2>1 DEF IInv, ChainType
  <2> QED BY <2>1, <2>2
<1>4. l = listener'[r]
  BY <1>0, <1>3 DEF IInv, ChainType
<1>5. /\ Cardinality(Busy) \in Nat
      /\ Cardinality(Busy') <= Cardinality(Busy) + 1
      /\ l.at = "idle" /\ listener[r].at # "idle" => Cardinality(Busy') = Cardinality(Busy) - 1
      /\ listener[r].at # "idle" => Cardinality(Busy') <= Cardinality(Busy)
  BY <1>0, <1>3, BusyFacts
<1>6. Cardinality(Busy') \in Nat
  <2>1. IsFiniteSet(Busy')
    BY FS_Subset DEF Busy
  <2> QED BY <2>1, FS_CardinalityType
<1>7. CASE Receive(r)
  <2>1. log' = log /\ Len(log) + Cardinality(Busy) < MaxRecords /\ Bounds'
    BY <1>7, Unwritten DEF Receive, Busy, seals
  <2>2. Room'
    BY <1>0, <1>5, <1>6, <2>1 DEF Room
  <2> QED BY <1>1, <1>2, <2>1, <2>2, OutsideTypes DEF TInv
<1>8. CASE Lock(r) \/ ReadPrev(r)
  <2>1. log' = log /\ listener[r].at # "idle" /\ Bounds'
    BY <1>8, Unwritten DEF Lock, ReadPrev, seals
  <2>2. Room'
    BY <1>0, <1>5, <1>6, <2>1 DEF Room
  <2> QED BY <1>1, <1>2, <2>1, <2>2, OutsideTypes DEF TInv
<1>9. CASE Insert(r)
  <2>1. PICK e : log' = Append(log, e)
    BY <1>9 DEF Insert
  <2>2. Len(log') = Len(log) + 1 /\ DOMAIN log' = 1..Len(log)+1
    <3>1. log \in Seq(ToSet(log))
      BY DEF TInv, IInv, ChainType, ToSet
    <3> QED BY <2>1, <3>1, Appended
  <2>3. l.at = "idle" /\ listener[r].at = "read"
    BY <1>0, <1>4, <1>9 DEF Insert, Listening, IInv, ChainType
  <2>4. Room'
    BY <1>0, <1>5, <1>6, <2>2, <2>3 DEF Room
  <2>5. Bounds'
    <3>1. disturbed' \in {disturbed, disturbed \cup {listener[r].ts}}
      BY <1>9 DEF Insert
    <3>2. listener[r].ts \in Hours
      BY <1>0 DEF Appending
    <3>3. disturbed' \subseteq Hours
      BY <1>0, <3>1, <3>2 DEF Bounds
    <3>4. UNCHANGED <<alarmed, faults, setBacks>>
      BY <1>9 DEF Insert, seals, counts
    <3> QED BY <1>0, <3>3, <3>4 DEF Bounds
  <2>6. DOMAIN log \subseteq DOMAIN log'
    BY <1>0, <2>2
  <2> QED BY <1>1, <1>2, <2>4, <2>5, <2>6, OutsideTypes DEF TInv
<1>10. CASE AppendFails(r)
  <2>1. log' = log /\ listener[r].at # "idle"
    BY <1>10 DEF AppendFails
  <2>2. Room'
    BY <1>0, <1>5, <1>6, <2>1 DEF Room
  <2>3. Bounds'
    BY <1>0, <1>10, FaultType DEF AppendFails, Bounds, seals
  <2> QED BY <1>1, <1>2, <2>1, <2>2, <2>3, OutsideTypes DEF TInv
<1> QED BY <1>7, <1>8, <1>9, <1>10 DEF Listener

\* Every step keeps the types.
LEMMA NextTInv == ASSUME TInv, [Next]_vars PROVE TInv'
<1>0. IInv /\ IInv' /\ Bounds /\ Room
  BY NextIInv DEF TInv
<1>1. CASE HalfHourPasses
  <2>1. UNCHANGED <<up, chain, pruned, hourly, daily, worm, sealer>> /\ ticked' = {}
    BY <1>1 DEF HalfHourPasses
  <2>2. Bounds' /\ Tables'
    BY <1>1, Unwritten DEF HalfHourPasses
  <2>3. Processes' /\ Room'
    BY <2>1 DEF TInv, Processes, Room, Busy, chain
  <2>4. SealerShape' /\ \A q \in Replicas : SealerType(q)'
    BY <2>1 DEF TInv, SealerShape, SealerType
  <2> QED BY <1>0, <2>2, <2>3, <2>4 DEF TInv
<1>2. CASE SetBack
  <2>1. UNCHANGED <<up, chain, pruned, hourly, daily, worm, sealer, alarmed, faults>> /\ ticked' = {}
    BY <1>2 DEF SetBack
  <2>2. Tables'
    BY <2>1, Unwritten
  <2>3. Processes' /\ Room'
    BY <2>1 DEF TInv, Processes, Room, Busy, chain
  <2>4. SealerShape' /\ \A q \in Replicas : SealerType(q)'
    BY <2>1 DEF TInv, SealerShape, SealerType
  <2>5. disturbed' \subseteq Hours
    <3>1. PICK c \in 0..clock-1 : disturbed' = disturbed \cup HourOf(c)..Hour
      BY <1>2 DEF SetBack
    <3>2. clock \in Clocks /\ c \in Clocks
      BY <1>0 DEF IInv, ChainType, Clocks
    <3>3. HourOf(c) \in Hours /\ Hour \in Hours
      BY <3>2, HourType DEF Hour
    <3>4. HourOf(c)..Hour \subseteq Hours
      BY <3>3 DEF Hours
    <3> QED BY <1>0, <3>1, <3>4 DEF Bounds
  <2>6. setBacks' \in 0..MaxSetBacks
    BY <1>0, <1>2 DEF SetBack, Bounds
  <2>7. Bounds'
    BY <1>0, <2>1, <2>5, <2>6 DEF Bounds
  <2> QED BY <1>0, <2>2, <2>3, <2>4, <2>7 DEF TInv
<1>3. ASSUME NEW r \in Replicas, Listener(r) PROVE TInv'
  BY <1>3, ListenerTInv
<1>4. ASSUME NEW r \in Replicas, Sealer(r) PROVE TInv'
  BY <1>4, SealerTInv
<1>5. ASSUME NEW r \in Replicas, Crash(r) PROVE TInv'
  <2>1. SealerShape' /\ sealer'[r].at = "idle" /\ sealer'[r].now = 0
        /\ \A q \in Replicas \ {r} : sealer'[q] = sealer[q]
    BY <1>5, WaitFacts DEF Crash, TInv
  <2>2. \A q \in Replicas : SealerType(q)'
    BY <2>1, ListeningType DEF TInv, SealerType, SealerPlaces
  <2>3. Tables'
    BY <1>5, Unwritten DEF Crash
  <2>4. Bounds'
    BY <1>0, <1>5, FaultType DEF Crash, Bounds
  <2>5. Processes'
    BY <1>5 DEF Crash, TInv, Processes
  <2>6. Room'
    <3>1. log' = log /\ Len(log) \in Nat /\ Listening \in Appending /\ Listening.at = "idle"
          /\ listener' = [listener EXCEPT ![r] = Listening]
      BY <1>0, <1>5, ListeningType DEF Crash, IInv, ChainType, Listening
    <3>2. Cardinality(Busy') <= Cardinality(Busy) /\ Cardinality(Busy) \in Nat
      BY <1>0, <3>1, BusyFacts
    <3>3. Cardinality(Busy') \in Nat
      <4>1. IsFiniteSet(Busy')
        BY FS_Subset DEF Busy
      <4> QED BY <4>1, FS_CardinalityType
    <3> QED BY <1>0, <3>1, <3>2, <3>3 DEF Room
  <2> QED BY <1>0, <2>1, <2>2, <2>3, <2>4, <2>5, <2>6 DEF TInv
<1>6. CASE UNCHANGED vars \/ \E r \in Replicas : Restart(r)
  <2>1. UNCHANGED <<chain, pruned, seals, counts, disturbed>> /\ up \subseteq up' /\ up' \subseteq up \cup Replicas
    BY <1>6 DEF vars, Restart
  <2>2. Tables' /\ Bounds'
    BY <2>1, Unwritten DEF seals
  <2>3. Processes' /\ Room'
    BY <2>1 DEF TInv, Processes, Room, Busy, chain, seals
  <2>4. SealerShape' /\ \A q \in Replicas : SealerType(q)'
    BY <2>1 DEF TInv, SealerShape, SealerType, seals
  <2> QED BY <1>0, <2>2, <2>3, <2>4 DEF TInv
<1> QED BY <1>1, <1>2, <1>3, <1>4, <1>5, <1>6 DEF Next

\* Every variable keeps its type; in particular a checkpoint never counts more
\* rows than there can be, is of an hour there is, and a daily seal is of a day
\* with hours (sealer.go:104-143, 155-228).
THEOREM TypeCorrect == Spec => []TypeOK
BY InitTInv, NextTInv, TInvTypes, PTL DEF Spec

-----------------------------------------------------------------------------
(* What is past is settled: nothing is recorded any more for an hour that    *)
(* has ended, unless it is disturbed.                                      *)

Past(h) == h < Hour \/ h \in disturbed
HasRows(h) == \E i \in DOMAIN log : log[i].ts = h
Done(h) == Untouched(h) /\ HasRows(h) => CheckpointExists(h)

\* What a step may do to an hour that is past.
StaysSettled(h) ==
  /\ Past(h)'
  /\ Untouched(h)' => Untouched(h) /\ HashesOf(h)' = HashesOf(h)
  /\ Done(h) => Done(h)'

\* The list of the leaves depends on the rows of the hour only.
LEMMA SameHashes ==
  ASSUME NEW h, Found(Rows, h)' = Found(Rows, h)
  PROVE  HashesOf(h)' = HashesOf(h)
BY DEF HashesOf, LeavesOf

\* A checkpoint is never deleted.
LEMMA CheckpointStays ==
  ASSUME hourly \in Seq(ToSet(hourly)), NEW cp, hourly' \in {hourly, Append(hourly, cp)}, NEW h,
         CheckpointExists(h)
  PROVE  CheckpointExists(h)'
<1>1. PICK i \in DOMAIN hourly : hourly[i].hour = h
  BY DEF CheckpointExists
<1>2. i \in DOMAIN hourly' /\ hourly'[i] = hourly[i]
  <2>1. CASE hourly' = Append(hourly, cp)
    BY <2>1, Appended
  <2> QED BY <2>1
<1> QED BY <1>1, <1>2 DEF CheckpointExists

\* Rows are deleted and the clock moves on.
LEMMA SettledWithout ==
  ASSUME TInv, UNCHANGED log, pruned \subseteq pruned', disturbed \subseteq disturbed',
         NEW cp, hourly' \in {hourly, Append(hourly, cp)}, NEW h, Past(h)'
  PROVE  StaysSettled(h)
<1>1. Untouched(h)' => Untouched(h)
  BY DEF Untouched
<1>2. ASSUME Untouched(h)' PROVE Found(Rows, h)' = Found(Rows, h)
  BY <1>2 DEF Found, Rows, Untouched
<1>3. HasRows(h)' <=> HasRows(h)
  BY DEF HasRows
<1>4. ASSUME CheckpointExists(h) PROVE CheckpointExists(h)'
  <2>1. hourly \in Seq(ToSet(hourly))
    BY DEF TInv, Tables
  <2> QED BY <1>4, <2>1, CheckpointStays
<1> QED BY <1>1, <1>2, <1>3, <1>4, SameHashes DEF StaysSettled, Done

\* A new row is for the hour it is, or its hour is disturbed.
LEMMA SettledInsert ==
  ASSUME TInv, NEW r \in Replicas, Insert(r), NEW h \in Int, Past(h)
  PROVE  StaysSettled(h)
<1> DEFINE l == listener[r]
           e == [ts |-> l.ts, prev |-> l.prev, hash |-> ComplianceHash(l.prev, l.ts)]
<1>1. /\ log' = Append(log, e) /\ UNCHANGED <<pruned, hourly, clock>>
      /\ disturbed' = IF l.ts = Hour THEN disturbed ELSE disturbed \cup {l.ts}
  BY DEF Insert, seals
<1>2. /\ DOMAIN log' = 1..Len(log)+1 /\ DOMAIN log = 1..Len(log) /\ Len(log) \in Nat
      /\ \A i \in DOMAIN log : i \in DOMAIN log' /\ log'[i] = log[i]
      /\ log'[Len(log) + 1] = e
  <2>1. log \in Seq(ToSet(log))
    BY DEF TInv, IInv, ChainType, ToSet
  <2> HIDE DEF e
  <2> QED BY <1>1, <2>1, Appended
<1>3. e.ts = l.ts
  OBVIOUS
<1>4. pruned \subseteq DOMAIN log
  BY DEF TInv, Processes
<1> HIDE DEF e
<1>5. Hour' = Hour /\ Past(h)'
  BY <1>1 DEF Past, Hour
<1>6. Hour \in Int
  BY HourType DEF TInv, IInv, ChainType, Hour, Hours
<1>7. ASSUME Untouched(h)' PROVE Untouched(h) /\ l.ts # h
  <2>1. h \notin disturbed /\ \A i \in pruned : log[i].ts # h
    BY <1>1, <1>2, <1>4, <1>7 DEF Untouched
  <2>2. l.ts # h
    <3>1. CASE l.ts = Hour
      BY <1>6, <2>1, <3>1 DEF Past
    <3>2. CASE l.ts # Hour
      BY <1>1, <1>7, <3>2 DEF Untouched
    <3> QED BY <3>1, <3>2
  <2> QED BY <2>1, <2>2 DEF Untouched
<1>8. ASSUME Untouched(h)' PROVE Found(Rows, h)' = Found(Rows, h)
  <2>1. {q \in Rows' : log'[q].ts = h} = {q \in Rows : log[q].ts = h}
    <3>1. Rows' = Rows \cup {Len(log) + 1} \/ Rows' = Rows
      BY <1>1, <1>2 DEF Rows
    <3>2. Rows \subseteq Rows' /\ \A q \in Rows' : q \in Rows \/ q = Len(log) + 1
      BY <1>1, <1>2 DEF Rows
    <3>3. \A q \in Rows : log'[q] = log[q]
      BY <1>2 DEF Rows
    <3>4. log'[Len(log) + 1].ts # h
      BY <1>2, <1>3, <1>7, <1>8
    <3> QED BY <3>2, <3>3, <3>4
  <2>2. \A q \in Rows : log'[q] = log[q]
    BY <1>2 DEF Rows
  <2> QED BY <2>1, <2>2 DEF Found
<1>9. ASSUME Untouched(h)', HasRows(h)' PROVE HasRows(h)
  <2>1. PICK i \in DOMAIN log' : log'[i].ts = h
    BY <1>9 DEF HasRows
  <2>2. i # Len(log) + 1
    BY <1>2, <1>3, <1>7, <1>9, <2>1
  <2>3. i \in DOMAIN log
    BY <1>2, <2>2
  <2> QED BY <1>2, <2>1, <2>3 DEF HasRows
<1>10. CheckpointExists(h)' <=> CheckpointExists(h)
  BY <1>1 DEF CheckpointExists
<1> QED BY <1>5, <1>7, <1>8, <1>9, <1>10, SameHashes DEF StaysSettled, Done

\* What a step of a sealer does to the tables.
LEMMA SealerWrites ==
  ASSUME NEW r \in Replicas, Sealer(r)
  PROVE  /\ UNCHANGED <<clock, up, log, disturbed>> /\ pruned \subseteq pruned'
         /\ \E cp : hourly' \in {hourly, Append(hourly, cp)}
<1>1. CASE Tick(r) \/ HourCheck(r) \/ ReadHashes(r) \/ ReadLatest(r)
  BY <1>1 DEF Tick, HourCheck, ReadHashes, ReadLatest, chain
<1>2. CASE SaveHourly(r)
  BY <1>2 DEF SaveHourly, chain
<1>3. CASE DayCheck(r) \/ ReadRoots(r) \/ ReadLatestDaily(r) \/ SaveDaily(r)
  BY <1>3 DEF DayCheck, ReadRoots, ReadLatestDaily, SaveDaily, chain
<1>4. CASE ExportLogs(r) \/ ExportManifest(r) \/ SealerFails(r)
  BY <1>4 DEF ExportLogs, ExportManifest, SealerFails, chain
<1>5. CASE Prune(r)
  BY <1>5 DEF Prune, chain
<1> QED BY <1>1, <1>2, <1>3, <1>4, <1>5 DEF Sealer

\* Whatever happens, what is past stays settled.
LEMMA Settled ==
  ASSUME TInv, [Next]_vars, NEW h \in Int, Past(h)
  PROVE  StaysSettled(h)
<1>0. clock \in Int /\ Hour = clock \div 2
  BY DEF TInv, IInv, ChainType, Clocks, Hour, HourOf
<1>1. CASE HalfHourPasses
  <2>1. UNCHANGED <<log, pruned, disturbed, hourly>> /\ clock' = clock + 1
    BY <1>1 DEF HalfHourPasses, chain
  <2>2. Past(h)'
    BY <1>0, <2>1 DEF Past, Hour, HourOf
  <2> QED BY <2>1, <2>2, SettledWithout
<1>2. CASE SetBack
  <2>1. UNCHANGED <<log, pruned, hourly>>
    BY <1>2 DEF SetBack, chain
  <2>2. PICK c \in 0..clock-1 : clock' = c /\ disturbed' = disturbed \cup HourOf(c)..Hour
    BY <1>2 DEF SetBack
  <2>3. HourOf(c) \in Int /\ Hour \in Int /\ Hour' = HourOf(c)
    BY <1>0, <2>2 DEF HourOf, Hour
  <2>4. Past(h)'
    <3> HIDE DEF HourOf
    <3> QED BY <2>2, <2>3 DEF Past
  <2> QED BY <2>1, <2>2, <2>4, SettledWithout
<1>3. ASSUME NEW r \in Replicas, Insert(r) PROVE StaysSettled(h)
  BY <1>3, SettledInsert
<1>4. ASSUME UNCHANGED <<clock, log, disturbed, hourly, pruned>> PROVE StaysSettled(h)
  <2>1. Past(h)'
    BY <1>4 DEF Past, Hour
  <2> QED BY <1>4, <2>1, SettledWithout
<1>5. ASSUME NEW r \in Replicas, Receive(r) \/ Lock(r) \/ ReadPrev(r) \/ AppendFails(r) PROVE StaysSettled(h)
  BY <1>4, <1>5 DEF Receive, Lock, ReadPrev, AppendFails, seals
<1>6. ASSUME NEW r \in Replicas, Sealer(r) PROVE StaysSettled(h)
  <2>1. UNCHANGED <<clock, log, disturbed>> /\ pruned \subseteq pruned'
    BY <1>6, SealerWrites
  <2>2. PICK cp : hourly' \in {hourly, Append(hourly, cp)}
    BY <1>6, SealerWrites
  <2>3. Past(h)'
    BY <2>1 DEF Past, Hour
  <2> QED BY <2>1, <2>2, <2>3, SettledWithout
<1>7. ASSUME NEW r \in Replicas, Crash(r) \/ Restart(r) PROVE StaysSettled(h)
  BY <1>4, <1>7 DEF Crash, Restart, chain, seals
<1>8. CASE UNCHANGED vars
  BY <1>4, <1>8 DEF vars, chain, seals
<1> QED BY <1>1, <1>2, <1>3, <1>5, <1>6, <1>7, <1>8 DEF Next, Listener

-----------------------------------------------------------------------------
(* Checkpoints hold what their hours held, and no hour is left out.        *)

AfterHour == SealerPlaces \ {"idle", "hour", "hashes", "latest", "save"}

\* What a sealer knows of the hour that it seals: the hour has ended, the list
\* that it has read is still that of the hour, and once it goes on to the day the
\* hour needs no checkpoint any more.
SealerOK(r) ==
  LET s == sealer[r]
      h == SealedHour(s.now)
  IN  /\ s.at # "idle" => Past(h)
      /\ s.at \in {"latest", "save"} /\ Untouched(h) => s.list = HashesOf(h)
      /\ faults = 0 /\ s.at \in AfterHour => Done(h)

CheckpointsOK ==
  \A cp \in ToSet(hourly) : Past(cp.hour) /\ (Untouched(cp.hour) => HourHolds(Rows, cp))

\* Without faults somebody is up; all hours before the previous one are done with,
\* and the previous one, once somebody completed a tick.
InTime ==
  faults = 0 => /\ up # {}
                /\ \A h \in Int : h < Hour - 1 \/ (h < Hour /\ ticked # {}) => Done(h)

\* RootsMatch and HoursSealed say nothing of a sealer between two statements; this
\* invariant does.
SInv == TInv /\ CheckpointsOK /\ InTime /\ \A r \in Replicas : SealerOK(r)

\* Nothing has been sealed at the beginning, and nothing recorded.
LEMMA InitSInv == Init => SInv
<1> SUFFICES ASSUME Init PROVE SInv
  OBVIOUS
<1>1. CheckpointsOK
  BY DEF Init, CheckpointsOK, ToSet
<1>2. InTime
  BY DEF Init, InTime, Done, HasRows
<1>3. \A r \in Replicas : SealerOK(r)
  BY DEF Init, SealerOK, Waiting, AfterHour
<1> QED BY InitTInv, <1>1, <1>2, <1>3 DEF SInv

\* The properties follow.
LEMMA SInvHolds == SInv => RootsMatch /\ HoursSealed
<1>1. SInv => RootsMatch
  BY DEF SInv, CheckpointsOK, RootsMatch
<1>2. ASSUME SInv PROVE HoursSealed
  <2> SUFFICES ASSUME faults = 0, NEW i \in DOMAIN log, log[i].ts + 1 < Hour, Untouched(log[i].ts)
               PROVE  CheckpointExists(log[i].ts)
    BY DEF HoursSealed
  <2> DEFINE h == log[i].ts
  <2>1. h \in Int /\ Hour \in Int
    <3>1. log[i] \in Entry
      BY <1>2 DEF SInv, TInv, IInv, ChainType
    <3>2. h \in Hours /\ Hour \in Hours
      BY <1>2, <3>1, HourType DEF Entry, SInv, TInv, IInv, ChainType, Hour
    <3> QED BY <3>2 DEF Hours
  <2>2. h < Hour - 1 /\ HasRows(h)
    BY <2>1 DEF HasRows
  <2>3. Done(h)
    BY <1>2, <2>1, <2>2 DEF SInv, InTime
  <2> QED BY <2>2, <2>3 DEF Done
<1> QED BY <1>1, <1>2

\* A sealer that does nothing stays right.
LEMMA OtherSealers ==
  ASSUME SInv, [Next]_vars, NEW q \in Replicas, sealer'[q] = sealer[q], faults' = 0 => faults = 0
  PROVE  SealerOK(q)'
<1>1. PICK h \in Int : h = SealedHour(sealer[q].now)
  BY HourType DEF SInv, TInv, SealerType, SealedHour, Hours
<1>2. CASE sealer[q].at = "idle"
  BY <1>2 DEF SealerOK, AfterHour
<1>3. CASE sealer[q].at # "idle"
  <2>1. Past(h) /\ StaysSettled(h)
    BY <1>1, <1>3, Settled DEF SInv, SealerOK
  <2> QED BY <1>1, <2>1 DEF SInv, SealerOK, StaysSettled
<1> QED BY <1>2, <1>3

\* The checkpoints there are stay right.
LEMMA OldCheckpoints ==
  ASSUME SInv, [Next]_vars, NEW cp \in ToSet(hourly)
  PROVE  Past(cp.hour)' /\ (Untouched(cp.hour)' => HourHolds(Rows, cp)')
<1>1. cp.hour \in Int /\ Past(cp.hour) /\ (Untouched(cp.hour) => HourHolds(Rows, cp))
  BY DEF SInv, TInv, Tables, Hours, CheckpointsOK
<1>2. StaysSettled(cp.hour)
  BY <1>1, Settled DEF SInv
<1>3. Untouched(cp.hour)' => Untouched(cp.hour) /\ HashesOf(cp.hour)' = HashesOf(cp.hour)
  BY <1>2 DEF StaysSettled
<1> QED BY <1>1, <1>2, <1>3 DEF StaysSettled, HourHolds, HashesOf

\* What is in time stays so as long as the clock stands and no tick ends.
LEMMA StillInTime ==
  ASSUME SInv, [Next]_vars, UNCHANGED clock, up \subseteq up', ticked' = ticked, faults' = 0 => faults = 0
  PROVE  InTime'
<1> SUFFICES ASSUME faults' = 0, NEW h \in Int, h < Hour' - 1 \/ (h < Hour' /\ ticked' # {})
             PROVE  up' # {} /\ Done(h)'
  <2>1. faults' = 0 => up # {}
    BY DEF SInv, InTime
  <2> QED BY <2>1 DEF InTime
<1>1. Hour' = Hour /\ Hour \in Int
  BY HourType DEF SInv, TInv, IInv, ChainType, Hour, Hours
<1>2. up # {} /\ Done(h) /\ Past(h)
  BY <1>1 DEF SInv, InTime, Past
<1> QED BY <1>2, Settled DEF SInv, StaysSettled

\* Checkpoints that are not written stay right.
LEMMA SameCheckpoints == ASSUME SInv, [Next]_vars, UNCHANGED hourly PROVE CheckpointsOK'
<1>1. ToSet(hourly') = ToSet(hourly)
  OBVIOUS
<1> SUFFICES ASSUME NEW cp \in ToSet(hourly) PROVE Past(cp.hour)' /\ (Untouched(cp.hour)' => HourHolds(Rows, cp)')
  BY <1>1 DEF CheckpointsOK
<1> QED BY OldCheckpoints

\* The hourly part of a tick.
LEMMA HourlySInv ==
  ASSUME SInv, [Next]_vars, NEW r \in Replicas,
         Tick(r) \/ HourCheck(r) \/ ReadHashes(r) \/ ReadLatest(r) \/ SaveHourly(r)
  PROVE  CheckpointsOK' /\ InTime' /\ SealerOK(r)'
<1>0. /\ SealerShape /\ TInv /\ SealerOK(r) /\ Hour \in Int
      /\ UNCHANGED <<clock, up, ticked, counts, log, pruned, disturbed>>
  <2>1. Hour \in Int
    BY HourType DEF SInv, TInv, IInv, ChainType, Hour, Hours
  <2> QED BY <2>1 DEF SInv, TInv, Tick, HourCheck, ReadHashes, ReadLatest, SaveHourly, chain
<1>1. InTime'
  BY <1>0, StillInTime DEF counts
<1>2. PICK h \in Int : h = SealedHour(sealer[r].now)
  BY <1>0, HourType DEF TInv, SealerType, SealedHour, Hours
<1>3. sealer[r].at # "idle" => Past(h) /\ StaysSettled(h)
  BY <1>0, <1>2, Settled DEF SealerOK
<1>4. CASE Tick(r)
  <2>1. sealer'[r].at = "hour" /\ sealer'[r].now = clock /\ hourly' = hourly
    <3>1. /\ SealerShape
          /\ sealer' = [sealer EXCEPT ![r] = [Waiting EXCEPT !.at = "hour", !.now = clock]]
      BY <1>0, <1>4 DEF Tick
    <3>2. sealer'[r].at = "hour" /\ sealer'[r].now = clock
      BY <3>1, TickFacts
    <3>3. hourly' = hourly
      BY <1>4 DEF Tick
    <3> QED BY <3>2, <3>3
  <2>2. Past(SealedHour(clock))'
    BY <1>0 DEF Past, SealedHour, Hour
  <2>3. SealerOK(r)'
    BY <1>0, <2>1, <2>2 DEF SealerOK, AfterHour
  <2> QED BY <1>1, <2>1, <2>3, SameCheckpoints
<1>5. CASE HourCheck(r)
  <2>1. sealer[r].at = "hour" /\ hourly' = hourly
    BY <1>5 DEF HourCheck, At
  <2>2. PICK place \in {"day", "hashes"} : Goto(r, place) /\ (place = "day" => CheckpointExists(h))
    BY <1>2, <1>5 DEF HourCheck, Now
  <2>3. sealer'[r].at = place /\ sealer'[r].now = sealer[r].now
    BY <1>0, <2>2, GotoFacts DEF Moved
  <2>4. place = "day" => Done(h)'
    BY <1>3, <2>1, <2>2 DEF Done, StaysSettled
  <2>5. SealerOK(r)'
    <3>1. Past(h)'
      BY <1>3, <2>1 DEF StaysSettled
    <3> QED BY <1>2, <2>3, <2>4, <3>1 DEF SealerOK, AfterHour
  <2> QED BY <1>1, <2>1, <2>5, SameCheckpoints
<1>6. CASE ReadHashes(r)
  <2>0. PICK hs : hs = HashesOf(h)
    OBVIOUS
  <2>1. sealer[r].at = "hashes" /\ hourly' = hourly
    BY <1>6 DEF ReadHashes, At
  <2>2. /\ sealer'[r].at = UnlessEmpty(hs, "day", "latest") /\ sealer'[r].now = sealer[r].now
        /\ sealer'[r].list = hs
    <3>1. sealer' = [sealer EXCEPT ![r] = [@ EXCEPT !.list = hs, !.at = UnlessEmpty(hs, "day", "latest")]]
      BY <1>2, <1>6, <2>0 DEF ReadHashes, Now
    <3>2. Moved(r, UnlessEmpty(hs, "day", "latest")) /\ sealer'[r].list = hs
      BY <1>0, <3>1, ListRead
    <3> QED BY <3>2 DEF Moved
  <2>3. Past(h)' /\ StaysSettled(h)
    BY <1>3, <2>1 DEF StaysSettled
  <2>4. Untouched(h)' => hs = HashesOf(h)'
    BY <2>0, <2>3 DEF StaysSettled
  <2>5. ASSUME hs = <<>> PROVE Done(h)
    <3>1. DOMAIN log = 1..Len(log) /\ Len(log) \in Nat
      BY <1>0 DEF TInv, IInv, ChainType
    <3>2. Rows \in SUBSET (1..Len(log)) /\ IsFiniteSet(1..Len(log))
      BY <3>1, FS_Interval DEF Rows
    <3>3. Rows \in SUBSET Int
      BY <3>2
    <3>4. IsFiniteSet(Rows)
      BY <3>2, FS_Subset
    <3>5. RowsOf(Rows, h) = {}
      BY <2>0, <2>5, <3>3, <3>4, LeavesFacts DEF HashesOf
    <3> QED BY <3>5 DEF RowsOf, Rows, Done, Untouched, HasRows
  <2>6. SealerOK(r)'
    <3>1. CASE hs = <<>>
      <4>1. sealer'[r].at = "day" /\ Done(h)'
        BY <2>2, <2>3, <2>5, <3>1 DEF UnlessEmpty, StaysSettled
      <4> QED BY <1>2, <2>2, <2>3, <4>1 DEF SealerOK
    <3>2. CASE hs # <<>>
      <4>1. sealer'[r].at = "latest"
        BY <2>2, <3>2 DEF UnlessEmpty
      <4> QED BY <1>2, <2>2, <2>3, <2>4, <4>1 DEF SealerOK, AfterHour
    <3> QED BY <3>1, <3>2
  <2> QED BY <1>1, <2>1, <2>6, SameCheckpoints
<1>7. CASE ReadLatest(r)
  <2>1. sealer[r].at = "latest" /\ hourly' = hourly
    BY <1>7 DEF ReadLatest, At
  <2>2. PICK p \in PrevHourly : sealer' = [sealer EXCEPT ![r] = [@ EXCEPT !.prev = p, !.at = "save"]]
    BY <1>7 DEF ReadLatest
  <2>3. sealer'[r].at = "save" /\ sealer'[r].now = sealer[r].now /\ sealer'[r].list = sealer[r].list
    BY <1>0, <2>2, PrevRead DEF Moved
  <2>4. Past(h)' /\ (Untouched(h)' => sealer[r].list = HashesOf(h)')
    BY <1>0, <1>2, <1>3, <2>1 DEF StaysSettled, SealerOK
  <2>5. SealerOK(r)'
    BY <1>2, <2>3, <2>4 DEF SealerOK, AfterHour
  <2> QED BY <1>1, <2>1, <2>5, SameCheckpoints
<1>8. CASE SaveHourly(r)
  <2>0. PICK cp : cp = [hour |-> h, prev |-> sealer[r].prev,
                        root |-> MerkleRoot(sealer[r].list), count |-> Len(sealer[r].list)]
    OBVIOUS
  <2>1. sealer[r].at = "save" /\ hourly' = Append(hourly, cp) /\ Goto(r, "day")
    BY <1>2, <1>8, <2>0 DEF SaveHourly, At
  <2>2. sealer'[r].at = "day" /\ sealer'[r].now = sealer[r].now
    BY <1>0, <2>1, GotoFacts DEF Moved
  <2>3. Past(h)' /\ (Untouched(h)' => sealer[r].list = HashesOf(h)')
    BY <1>0, <1>2, <1>3, <2>1 DEF StaysSettled, SealerOK
  <2>4. cp.hour = h /\ cp.root = MerkleRoot(sealer[r].list) /\ cp.count = Len(sealer[r].list)
    BY <2>0
  <2>5. /\ ToSet(hourly') = ToSet(hourly) \cup {cp} /\ Len(hourly) + 1 \in DOMAIN hourly'
        /\ hourly'[Len(hourly) + 1] = cp
    <3>1. hourly \in Seq(ToSet(hourly)) /\ hourly' = Append(hourly, cp)
      BY <1>0, <2>1 DEF TInv, Tables
    <3>2. /\ Len(hourly) \in Nat /\ DOMAIN hourly' = 1..Len(hourly)+1
          /\ hourly'[Len(hourly) + 1] = cp
          /\ ToSet(hourly') = ToSet(hourly) \cup {cp}
      BY <3>1, Appended
    <3> QED BY <3>2
  <2>6. CheckpointsOK'
    <3> SUFFICES ASSUME NEW c \in ToSet(hourly'), c \in ToSet(hourly) \/ c = cp
                 PROVE  Past(c.hour)' /\ (Untouched(c.hour)' => HourHolds(Rows, c)')
      BY <2>5 DEF CheckpointsOK
    <3>1. CASE c \in ToSet(hourly)
      BY <3>1, OldCheckpoints
    <3>2. CASE c = cp
      BY <2>3, <2>4, <3>2 DEF HourHolds, HashesOf
    <3> QED BY <3>1, <3>2
  <2>7. SealerOK(r)'
    <3>1. CheckpointExists(h)'
      BY <2>4, <2>5 DEF CheckpointExists
    <3>2. Done(h)'
      BY <3>1 DEF Done
    <3> QED BY <1>2, <2>2, <2>3, <3>2 DEF SealerOK
  <2> QED BY <1>1, <2>6, <2>7
<1> QED BY <1>4, <1>5, <1>6, <1>7, <1>8

\* The daily part of a tick, and failed statements.
LEMMA DailySInv ==
  ASSUME SInv, [Next]_vars, NEW r \in Replicas,
         \/ DayCheck(r) \/ ReadRoots(r) \/ ReadLatestDaily(r) \/ SaveDaily(r)
         \/ ExportLogs(r) \/ ExportManifest(r) \/ SealerFails(r)
  PROVE  CheckpointsOK' /\ InTime' /\ SealerOK(r)'
<1> PICK h \in Int : h = SealedHour(sealer[r].now)
  BY HourType DEF SInv, TInv, SealerType, SealedHour, Hours
<1>0. SealerShape /\ TInv /\ SealerOK(r)
  BY DEF SInv, TInv
<1>1. UNCHANGED <<clock, up, ticked, hourly>> /\ (faults' = 0 => faults = 0)
  <2>1. CASE SealerFails(r)
    BY <1>0, <2>1, FaultType DEF SealerFails, TInv
  <2>2. CASE ~SealerFails(r)
    BY <2>2 DEF DayCheck, ReadRoots, ReadLatestDaily, SaveDaily, ExportLogs, ExportManifest, counts
  <2> QED BY <2>1, <2>2
<1>2. CheckpointsOK' /\ InTime'
  BY <1>1, SameCheckpoints, StillInTime
<1>3. /\ sealer[r].at # "idle"
      /\ sealer'[r].at \in AfterHour /\ sealer'[r].now = sealer[r].now
      /\ sealer[r].at \in AfterHour \/ faults' # 0
  <2>1. CASE DayCheck(r)
    <3>1. PICK place \in {"roots", "prune"} : Goto(r, place)
      BY <2>1 DEF DayCheck
    <3> QED BY <1>0, <2>1, <3>1, GotoFacts DEF DayCheck, At, AfterHour, SealerPlaces, Moved
  <2>2. CASE ReadRoots(r)
    <3> DEFINE roots == RootsOf(HourlyOfDay(SealedDay(Now(r))))
    <3>1. PICK place \in {"prune", "latestDaily"} :
            sealer' = [sealer EXCEPT ![r] = [@ EXCEPT !.list = roots, !.at = place]]
      BY <2>2 DEF ReadRoots, UnlessEmpty
    <3> HIDE DEF roots
    <3>2. Moved(r, place)
      BY <1>0, <3>1, ListRead
    <3>3. sealer[r].at = "roots"
      BY <2>2 DEF ReadRoots, At
    <3> QED BY <3>2, <3>3 DEF AfterHour, SealerPlaces, Moved
  <2>3. CASE ReadLatestDaily(r)
    <3>1. PICK p \in PrevDaily : sealer' = [sealer EXCEPT ![r] = [@ EXCEPT !.prev = p, !.at = "saveDaily"]]
      BY <2>3 DEF ReadLatestDaily
    <3>2. Moved(r, "saveDaily")
      BY <1>0, <3>1, PrevRead
    <3>3. sealer[r].at = "latestDaily"
      BY <2>3 DEF ReadLatestDaily, At
    <3> QED BY <3>2, <3>3 DEF AfterHour, SealerPlaces, Moved
  <2>4. CASE SaveDaily(r)
    <3>1. Goto(r, "worm")
      BY <2>4 DEF SaveDaily
    <3> QED BY <1>0, <2>4, <3>1, GotoFacts DEF SaveDaily, At, AfterHour, SealerPlaces, Moved
  <2>5. CASE ExportLogs(r) \/ ExportManifest(r)
    <3>1. PICK place \in {"manifest", "prune"} : Goto(r, place)
      BY <2>5 DEF ExportLogs, ExportManifest
    <3> QED BY <1>0, <2>5, <3>1, GotoFacts DEF ExportLogs, ExportManifest, At, AfterHour, SealerPlaces, Moved
  <2>6. CASE SealerFails(r)
    <3>1. PICK place \in {"day", "prune"} : Goto(r, place)
      BY <2>6 DEF SealerFails, AfterError
    <3>2. faults' # 0
      BY <1>0, <2>6, FaultType DEF SealerFails, TInv
    <3> QED BY <1>0, <2>6, <3>1, <3>2, GotoFacts DEF SealerFails, AfterHour, SealerPlaces, Moved
  <2> QED BY <2>1, <2>2, <2>3, <2>4, <2>5, <2>6
<1>4. Past(h)' /\ (Done(h) => Done(h)')
  BY <1>0, <1>3, Settled DEF SInv, SealerOK, StaysSettled
<1>5. faults' = 0 => Done(h)
  BY <1>0, <1>1, <1>3 DEF SealerOK
<1>6. SealerOK(r)'
  BY <1>3, <1>4, <1>5 DEF SealerOK, AfterHour
<1> QED BY <1>2, <1>6

\* A step of a sealer moves no other, and no fault is forgotten.
LEMMA SealerMovesOne ==
  ASSUME TInv, NEW r \in Replicas, Sealer(r)
  PROVE  (\A q \in Replicas \ {r} : sealer'[q] = sealer[q]) /\ (faults' = 0 => faults = 0)
<1>1. PICK s : sealer' = [sealer EXCEPT ![r] = s]
  <2>1. CASE Tick(r) \/ HourCheck(r) \/ ReadHashes(r) \/ ReadLatest(r) \/ SaveHourly(r)
    BY <2>1 DEF Tick, HourCheck, ReadHashes, ReadLatest, SaveHourly, Goto
  <2>2. CASE DayCheck(r) \/ ReadRoots(r) \/ ReadLatestDaily(r) \/ SaveDaily(r)
    BY <2>2 DEF DayCheck, ReadRoots, ReadLatestDaily, SaveDaily, Goto
  <2>3. CASE ExportLogs(r) \/ ExportManifest(r) \/ SealerFails(r) \/ Prune(r)
    BY <2>3 DEF ExportLogs, ExportManifest, SealerFails, Prune, Goto
  <2> QED BY <2>1, <2>2, <2>3 DEF Sealer
<1>2. DOMAIN sealer = Replicas
  BY DEF TInv, SealerShape
<1>3. UNCHANGED counts \/ Fault
  <2>1. CASE Tick(r) \/ HourCheck(r) \/ ReadHashes(r) \/ ReadLatest(r) \/ SaveHourly(r)
    BY <2>1 DEF Tick, HourCheck, ReadHashes, ReadLatest, SaveHourly
  <2>2. CASE DayCheck(r) \/ ReadRoots(r) \/ ReadLatestDaily(r) \/ SaveDaily(r)
    BY <2>2 DEF DayCheck, ReadRoots, ReadLatestDaily, SaveDaily
  <2>3. CASE ExportLogs(r) \/ ExportManifest(r) \/ SealerFails(r) \/ Prune(r)
    BY <2>3 DEF ExportLogs, ExportManifest, SealerFails, Prune
  <2> QED BY <2>1, <2>2, <2>3 DEF Sealer
<1>4. faults' = 0 => faults = 0
  BY <1>3, FaultType DEF counts, TInv
<1> QED BY <1>1, <1>2, <1>4

\* The end of a tick: the hour before the one it began in is done with.
LEMMA PruneSInv ==
  ASSUME SInv, [Next]_vars, NEW r \in Replicas, Prune(r)
  PROVE  CheckpointsOK' /\ InTime' /\ SealerOK(r)'
<1> PICK h \in Int : h = SealedHour(sealer[r].now)
  BY HourType DEF SInv, TInv, SealerType, SealedHour, Hours
<1>0. SealerShape /\ TInv /\ SealerOK(r) /\ Hour \in Int
  BY HourType DEF SInv, TInv, IInv, ChainType, Hour, Hours
<1>1. /\ UNCHANGED <<clock, up, hourly>> /\ (faults' = 0 => faults = 0)
      /\ sealer[r].at = "prune" /\ r \in up
      /\ ticked' = IF sealer[r].now = clock THEN ticked \cup {r} ELSE ticked
  <2>1. UNCHANGED counts \/ Fault
    BY DEF Prune
  <2>2. faults' = 0 => faults = 0
    BY <1>0, <2>1, FaultType DEF counts, TInv
  <2> QED BY <2>2 DEF Prune, At, Now
<1>2. CheckpointsOK'
  BY <1>1, SameCheckpoints
<1>3. InTime'
  <2>1. CASE ticked' = ticked
    BY <1>1, <2>1, StillInTime
  <2>2. CASE sealer[r].now = clock
    <3> SUFFICES ASSUME faults' = 0, NEW k \in Int, k < Hour' - 1 \/ (k < Hour' /\ ticked' # {})
                 PROVE  up' # {} /\ Done(k)'
      <4>1. up' # {}
        BY <1>1
      <4> QED BY <4>1 DEF InTime
    <3>1. Hour' = Hour /\ faults = 0
      BY <1>1 DEF Hour
    <3>2. h = Hour - 1 /\ Done(h)
      BY <1>0, <1>1, <2>2, <3>1 DEF SealedHour, Hour, SealerOK, AfterHour, SealerPlaces
    <3>3. Done(k) /\ Past(k)
      <4>1. CASE k < Hour - 1
        BY <1>0, <3>1, <4>1 DEF SInv, InTime, Past
      <4>2. CASE k = h
        BY <1>0, <3>2, <4>2 DEF Past
      <4> QED BY <1>0, <3>1, <3>2, <4>1, <4>2
    <3> QED BY <1>0, <1>1, <3>3, Settled DEF StaysSettled
  <2> QED BY <1>1, <2>1, <2>2
<1>4. SealerOK(r)'
  <2>1. sealer'[r].at = "idle"
    BY <1>0, WaitFacts DEF Prune
  <2> QED BY <2>1 DEF SealerOK, AfterHour
<1> QED BY <1>2, <1>3, <1>4

\* Every step keeps the invariant.
LEMMA NextSInv == ASSUME SInv, [Next]_vars PROVE SInv'
<1>0. TInv /\ TInv' /\ SealerShape /\ Hour \in Int
  BY NextTInv, HourType DEF SInv, TInv, IInv, ChainType, Hour, Hours
<1>1. CASE HalfHourPasses
  <2>1. UNCHANGED <<up, hourly, sealer, faults>> /\ up \subseteq ticked /\ ticked' = {} /\ clock' = clock + 1
    BY <1>1 DEF HalfHourPasses, counts
  <2>2. CheckpointsOK'
    BY <2>1, SameCheckpoints
  <2>3. \A q \in Replicas : SealerOK(q)'
    BY <2>1, OtherSealers
  <2>4. InTime'
    <3> SUFFICES ASSUME faults = 0, NEW h \in Int, h < Hour' - 1 PROVE up' # {} /\ Done(h)'
      BY <2>1 DEF SInv, InTime
    <3>1. h < Hour
      BY <1>0, <2>1 DEF TInv, IInv, ChainType, Clocks, Hour, HourOf
    <3>2. up # {} /\ ticked # {}
      BY <2>1 DEF SInv, InTime
    <3>3. Done(h) /\ Past(h)
      BY <3>1, <3>2 DEF SInv, InTime, Past
    <3> QED BY <1>0, <2>1, <3>2, <3>3, Settled DEF StaysSettled
  <2> QED BY <1>0, <2>2, <2>3, <2>4 DEF SInv
<1>2. CASE SetBack
  <2>1. UNCHANGED <<up, hourly, sealer, faults>> /\ ticked' = {}
    BY <1>2 DEF SetBack
  <2>2. CheckpointsOK'
    BY <2>1, SameCheckpoints
  <2>3. \A q \in Replicas : SealerOK(q)'
    BY <2>1, OtherSealers
  <2>4. InTime'
    <3> SUFFICES ASSUME faults = 0, NEW h \in Int, h < Hour' - 1 PROVE up' # {} /\ Done(h)'
      BY <2>1 DEF SInv, InTime
    <3>1. h < Hour - 1
      <4>1. PICK c \in 0..clock-1 : clock' = c
        BY <1>2 DEF SetBack
      <4>2. clock \in Int /\ c \in Int /\ c <= clock
        BY <1>0, <4>1 DEF TInv, IInv, ChainType, Clocks
      <4>3. HourOf(c) \in Int /\ HourOf(clock) \in Int /\ HourOf(c) <= HourOf(clock)
        BY <4>2, HourOrder DEF HourOf
      <4>4. Hour' = HourOf(c) /\ Hour = HourOf(clock)
        BY <4>1 DEF Hour
      <4> QED BY <4>3, <4>4
    <3>2. up # {}
      BY DEF SInv, InTime
    <3>3. Done(h) /\ Past(h)
      BY <1>0, <3>1 DEF SInv, InTime, Past
    <3> QED BY <1>0, <2>1, <3>2, <3>3, Settled DEF StaysSettled
  <2> QED BY <1>0, <2>2, <2>3, <2>4 DEF SInv
<1>3. ASSUME UNCHANGED <<clock, hourly, sealer, ticked>>, up \subseteq up', faults' = 0 => faults = 0 PROVE SInv'
  <2>1. CheckpointsOK' /\ InTime'
    BY <1>3, SameCheckpoints, StillInTime
  <2>2. \A q \in Replicas : SealerOK(q)'
    BY <1>3, OtherSealers
  <2> QED BY <1>0, <2>1, <2>2 DEF SInv
<1>4. ASSUME NEW r \in Replicas, Listener(r) PROVE SInv'
  <2>1. CASE AppendFails(r)
    BY <1>0, <1>3, <2>1, FaultType DEF AppendFails, seals, TInv
  <2>2. CASE Receive(r) \/ Lock(r) \/ ReadPrev(r) \/ Insert(r)
    BY <1>3, <2>2 DEF Receive, Lock, ReadPrev, Insert, seals, counts
  <2> QED BY <1>4, <2>1, <2>2 DEF Listener
<1>5. ASSUME NEW r \in Replicas, Sealer(r) PROVE SInv'
  <2>1. CheckpointsOK' /\ InTime' /\ SealerOK(r)'
    BY <1>5, HourlySInv, DailySInv, PruneSInv DEF Sealer
  <2>2. \A q \in Replicas \ {r} : sealer'[q] = sealer[q]
    BY <1>0, <1>5, SealerMovesOne
  <2>3. faults' = 0 => faults = 0
    BY <1>0, <1>5, SealerMovesOne
  <2>4. \A q \in Replicas \ {r} : SealerOK(q)'
    BY <2>2, <2>3, OtherSealers
  <2> QED BY <1>0, <2>1, <2>4 DEF SInv
<1>6. ASSUME NEW r \in Replicas, Crash(r) PROVE SInv'
  <2>1. faults' # 0 /\ hourly' = hourly
    BY <1>0, <1>6, FaultType DEF Crash, TInv
  <2>2. sealer'[r].at = "idle" /\ \A q \in Replicas \ {r} : sealer'[q] = sealer[q]
    BY <1>0, <1>6, WaitFacts DEF Crash
  <2>3. CheckpointsOK' /\ InTime'
    BY <2>1, SameCheckpoints DEF InTime
  <2>4. \A q \in Replicas \ {r} : SealerOK(q)'
    BY <2>1, <2>2, OtherSealers
  <2>5. SealerOK(r)'
    BY <2>2 DEF SealerOK, AfterHour
  <2> QED BY <1>0, <2>3, <2>4, <2>5 DEF SInv
<1>7. ASSUME NEW r \in Replicas, Restart(r) PROVE SInv'
  BY <1>3, <1>7 DEF Restart, seals, counts
<1>8. CASE UNCHANGED vars
  BY <1>3, <1>8 DEF vars, seals, counts
<1> QED BY <1>1, <1>2, <1>4, <1>5, <1>6, <1>7, <1>8 DEF Next

\* A checkpoint seals what its hour really held: until a row of the hour is
\* deleted, or one comes after the hour has ended, or the clock goes back over it,
\* the rows give the root and the count (sealer.go:104-143).
THEOREM CheckpointsMatch == Spec => []RootsMatch
BY InitSInv, NextSInv, SInvHolds, PTL DEF Spec

\* No finished hour is left out while nothing fails: after one more hour every
\* undisturbed hour with records has its checkpoint (sealer.go:82-86).
THEOREM NoHourLeftOut == Spec => []HoursSealed
BY InitSInv, NextSInv, SInvHolds, PTL DEF Spec

-----------------------------------------------------------------------------
(* The evidence of the first day.                                         *)

\* Nothing has failed, been deleted or come late that the first day depends on.
First == faults = 0 /\ pruned = {} /\ disturbed \cap FirstDay = {} /\ SealedOnce

\* What is hashed into a row is its place in the chain, which starts with nothing.
Hashed ==
  /\ \A i \in DOMAIN log : log[i].hash = ComplianceHash(log[i].prev, log[i].ts)
  /\ log # <<>> => log[1].prev = <<>>
  /\ \A r \in Replicas : listener[r].at = "read" /\ log = <<>> => listener[r].prev = <<>>

\* The records of the first day come first, and none once the day is over.
DayOver == Hour >= HoursPerDay
FirstRows ==
  /\ \A i \in DOMAIN log : log[i].ts \notin FirstDay => DayOver
  /\ \A r \in Replicas : listener[r].ts \notin FirstDay => DayOver
  /\ \A i, j \in DOMAIN log : i < j /\ log[j].ts \in FirstDay => log[i].ts \in FirstDay

\* Who is in a tick runs; who seals a day does so in the first hour of the next.
SealingAt == {"roots", "latestDaily", "saveDaily", "worm", "manifest"}
Running == \A r \in Replicas : /\ sealer[r].at # "idle" => r \in up
                               /\ sealer[r].at \in SealingAt => SealsDay(sealer[r].now)

\* An hour is sealed when all hours of the first day before it are done with.
Earlier(h) == \A k \in FirstDay : k < h => Past(k) /\ Done(k)
InTurn ==
  /\ \A cp \in ToSet(hourly) : Earlier(cp.hour)
  /\ \A r \in Replicas : sealer[r].at # "idle" => Earlier(SealedHour(sealer[r].now))

\* A checkpoint of hour h is linked to the last one before it.
LinkOK(h, prev) ==
  \/ prev = <<>> /\ \A cp \in ToSet(hourly) : cp.hour >= h
  \/ \E cp \in ToSet(hourly) : /\ cp.hour < h /\ prev = cp.root
                               /\ \A c \in ToSet(hourly) : c.hour < h => c.hour <= cp.hour
Linked ==
  /\ \A cp \in ToSet(hourly) : cp.hour \in FirstDay => LinkOK(cp.hour, cp.prev)
  /\ \A r \in Replicas :
       LET h == SealedHour(sealer[r].now)
       IN  sealer[r].at = "save" /\ h \in FirstDay /\ ~CheckpointExists(h) => LinkOK(h, sealer[r].prev)

\* The seal of the first day holds the roots of its hours, all of which are done with.
FirstRoots == RootsOf(Between(0, HoursPerDay))
FirstSeal == 2 * HoursPerDay + 1
DaySeals ==
  /\ \A cp \in ToSet(daily) : cp.day = 0 => /\ Earlier(HoursPerDay)
                                            /\ cp.root = MerkleRoot(FirstRoots)
                                            /\ cp.hours = Len(FirstRoots)
  /\ \A r \in Replicas : sealer[r].at \in {"latestDaily", "saveDaily"} /\ sealer[r].now = FirstSeal
                           => sealer[r].list = FirstRoots

\* One sealer exports the first day, the one that has sealed it.
Exporting(r) == sealer[r].at \in {"worm", "manifest"} /\ sealer[r].now = FirstSeal
Exported ==
  /\ \A r, q \in Replicas : Exporting(r) /\ Exporting(q) => r = q
  /\ \A r \in Replicas : Exporting(r) => DaySealed(0)
  /\ worm[0] # "none" => DaySealed(0)
  /\ DaySealed(0) => \/ worm[0] = "complete"
                     \/ \E r \in Replicas : /\ Exporting(r)
                                            /\ worm[0] = IF sealer[r].at = "worm" THEN "none" ELSE "logs"

\* With records, the first day is sealed once a tick in that half hour has come to its
\* end, is not sealed any more by who has completed one, and is exported by the next hour.
Recorded == \E i \in DOMAIN log : log[i].ts \in FirstDay
SealingFirst(r) == sealer[r].at \in SealingAt /\ sealer[r].now = FirstSeal
SealedInTime ==
  Recorded =>
    /\ \A r \in Replicas : sealer[r].at = "prune" /\ sealer[r].now = FirstSeal => DaySealed(0)
    /\ clock = FirstSeal /\ ticked # {} => DaySealed(0)
    /\ clock = FirstSeal => \A r \in ticked : ~SealingFirst(r)
    /\ Hour > HoursPerDay => DaySealed(0) /\ worm[0] = "complete"

FirstOK == Hashed /\ FirstRows /\ Running /\ InTurn /\ Linked /\ DaySeals /\ Exported /\ SealedInTime
FirstInv == First => FirstOK

\* Faults, deletions and disturbances are not forgotten; tables only grow.
LEMMA Growth ==
  ASSUME TInv, [Next]_vars
  PROVE  /\ faults' = 0 => faults = 0
         /\ pruned \subseteq pruned' /\ disturbed \subseteq disturbed'
         /\ \E cp : hourly' \in {hourly, Append(hourly, cp)}
         /\ \E cp : daily' \in {daily, Append(daily, cp)}
<1>0. Bounds
  BY DEF TInv
<1>1. CASE HalfHourPasses \/ SetBack \/ UNCHANGED vars
  BY <1>1 DEF HalfHourPasses, SetBack, vars, seals, counts
<1>2. ASSUME NEW r \in Replicas, Receive(r) \/ Lock(r) \/ ReadPrev(r) \/ Insert(r) \/ Restart(r)
      PROVE  /\ UNCHANGED <<faults, hourly, daily>>
             /\ pruned \subseteq pruned' /\ disturbed \subseteq disturbed'
  BY <1>2 DEF Receive, Lock, ReadPrev, Insert, Restart, seals, counts
<1>3. ASSUME NEW r \in Replicas, AppendFails(r) \/ Crash(r)
      PROVE  /\ faults' # 0 /\ UNCHANGED <<hourly, daily>>
             /\ pruned \subseteq pruned' /\ disturbed \subseteq disturbed'
  BY <1>0, <1>3, FaultType DEF AppendFails, Crash, seals
<1>4. ASSUME NEW r \in Replicas, Sealer(r)
      PROVE  /\ faults' = 0 => faults = 0
             /\ pruned \subseteq pruned' /\ disturbed \subseteq disturbed'
             /\ \E cp : hourly' \in {hourly, Append(hourly, cp)}
             /\ \E cp : daily' \in {daily, Append(daily, cp)}
  <2>1. \E cp : daily' \in {daily, Append(daily, cp)}
    <3>1. CASE SaveDaily(r)
      BY <3>1 DEF SaveDaily
    <3>2. CASE Tick(r) \/ HourCheck(r) \/ ReadHashes(r) \/ ReadLatest(r) \/ SaveHourly(r)
      BY <3>2 DEF Tick, HourCheck, ReadHashes, ReadLatest, SaveHourly
    <3>3. CASE DayCheck(r) \/ ReadRoots(r) \/ ReadLatestDaily(r)
      BY <3>3 DEF DayCheck, ReadRoots, ReadLatestDaily
    <3>4. CASE ExportLogs(r) \/ ExportManifest(r) \/ SealerFails(r) \/ Prune(r)
      BY <3>4 DEF ExportLogs, ExportManifest, SealerFails, Prune
    <3> QED BY <1>4, <3>1, <3>2, <3>3, <3>4 DEF Sealer
  <2> QED BY <1>4, <2>1, SealerWrites, SealerMovesOne
<1> QED BY <1>1, <1>2, <1>3, <1>4 DEF Next, Listener

\* A sequence that grows keeps what is in it.
LEMMA GrownSeq ==
  ASSUME NEW s, s \in Seq(ToSet(s)), NEW e, NEW t, t \in {s, Append(s, e)}
  PROVE  /\ ToSet(s) \subseteq ToSet(t)
         /\ \A i \in DOMAIN s : i \in DOMAIN t /\ t[i] = s[i]
<1>1. CASE t = Append(s, e)
  <2>1. ToSet(t) = ToSet(s) \cup {e}
    BY <1>1, Appended
  <2>2. \A i \in DOMAIN s : i \in DOMAIN t /\ t[i] = s[i]
    BY <1>1, Appended
  <2> QED BY <2>1, <2>2
<1>2. CASE t = s
  BY <1>2
<1> QED BY <1>1, <1>2

\* What the first day depends on was so before.
LEMMA FirstBefore == ASSUME SInv, [Next]_vars, First' PROVE First
<1>1. /\ faults' = 0 => faults = 0
      /\ pruned \subseteq pruned' /\ disturbed \subseteq disturbed'
  BY Growth DEF SInv
<1>2. \A i \in DOMAIN hourly : i \in DOMAIN hourly' /\ hourly'[i] = hourly[i]
  <2>1. PICK cp : hourly' \in {hourly, Append(hourly, cp)}
    BY Growth DEF SInv
  <2>2. hourly \in Seq(ToSet(hourly))
    BY DEF SInv, TInv, Tables
  <2> QED BY <2>1, <2>2, GrownSeq
<1>3. \A i \in DOMAIN daily : i \in DOMAIN daily' /\ daily'[i] = daily[i]
  <2>1. PICK cp : daily' \in {daily, Append(daily, cp)}
    BY Growth DEF SInv
  <2>2. daily \in Seq(ToSet(daily))
    BY DEF SInv, TInv, Tables
  <2> QED BY <2>1, <2>2, GrownSeq
<1>4. SealedOnce
  BY <1>2, <1>3 DEF First, SealedOnce
<1> QED BY <1>1, <1>4 DEF First

\* The hourly part of a tick: what it leaves alone and where it goes.
LEMMA HourlyMove ==
  ASSUME TInv, NEW r \in Replicas,
         Tick(r) \/ HourCheck(r) \/ ReadHashes(r) \/ ReadLatest(r) \/ SaveHourly(r)
  PROVE  /\ UNCHANGED <<clock, up, listener, log, pruned, daily, worm, ticked, disturbed>>
         /\ \A q \in Replicas \ {r} : sealer'[q] = sealer[q]
         /\ r \in up
         /\ sealer[r].at \in {"idle", "hour", "hashes", "latest", "save"}
         /\ sealer'[r].at \in {"hour", "hashes", "latest", "save", "day"}
         /\ sealer'[r].now = IF Tick(r) THEN clock ELSE sealer[r].now
         /\ Tick(r) \/ sealer[r].at # "idle"
         /\ SaveHourly(r) \/ hourly' = hourly
         /\ ReadLatest(r) \/ sealer'[r].at # "save"
<1>0. SealerShape
  BY DEF TInv
<1>1. /\ UNCHANGED <<clock, up, listener, log, pruned, daily, worm, ticked, disturbed>>
      /\ r \in up /\ (SaveHourly(r) \/ hourly' = hourly)
  BY DEF Tick, HourCheck, ReadHashes, ReadLatest, SaveHourly, At, chain
<1>2. CASE Tick(r)
  <2>1. /\ sealer' = [sealer EXCEPT ![r] = [Waiting EXCEPT !.at = "hour", !.now = clock]]
        /\ sealer[r].at = "idle"
    BY <1>2 DEF Tick, At
  <2>2. /\ sealer'[r].at = "hour" /\ sealer'[r].now = clock
        /\ \A q \in Replicas \ {r} : sealer'[q] = sealer[q]
    <3>1. PICK c : c = clock
      OBVIOUS
    <3>2. sealer' = [sealer EXCEPT ![r] = [Waiting EXCEPT !.at = "hour", !.now = c]]
      BY <2>1, <3>1
    <3>3. /\ sealer'[r].at = "hour" /\ sealer'[r].now = c
          /\ \A q \in Replicas \ {r} : sealer'[q] = sealer[q]
      BY <1>0, <3>2, TickFacts
    <3> QED BY <3>1, <3>3
  <2> QED BY <1>1, <1>2, <2>1, <2>2
<1>3. CASE HourCheck(r)
  <2>1. sealer[r].at = "hour" /\ (Goto(r, "day") \/ Goto(r, "hashes"))
    BY <1>3 DEF HourCheck, At
  <2> QED BY <1>0, <1>1, <2>1, GotoFacts DEF Moved, Tick, At
<1>4. CASE ReadHashes(r)
  <2> DEFINE hs == HashesOf(SealedHour(Now(r)))
  <2>1. PICK place \in {"day", "latest"} : sealer' = [sealer EXCEPT ![r] = [@ EXCEPT !.list = hs, !.at = place]]
    BY <1>4 DEF ReadHashes, UnlessEmpty
  <2>2. sealer[r].at = "hashes"
    BY <1>4 DEF ReadHashes, At
  <2> HIDE DEF hs
  <2> QED BY <1>0, <1>1, <2>1, <2>2, ListRead DEF Moved, Tick, At
<1>5. CASE ReadLatest(r)
  <2>1. PICK p \in PrevHourly : sealer' = [sealer EXCEPT ![r] = [@ EXCEPT !.prev = p, !.at = "save"]]
    BY <1>5 DEF ReadLatest
  <2>2. sealer[r].at = "latest"
    BY <1>5 DEF ReadLatest, At
  <2> QED BY <1>0, <1>1, <1>5, <2>1, <2>2, PrevRead DEF Moved, Tick, At
<1>6. CASE SaveHourly(r)
  <2>1. sealer[r].at = "save" /\ Goto(r, "day")
    BY <1>6 DEF SaveHourly, At
  <2> QED BY <1>0, <1>1, <2>1, GotoFacts DEF Moved, Tick, At
<1> QED BY <1>2, <1>3, <1>4, <1>5, <1>6

\* The daily part.
LEMMA DailyMove ==
  ASSUME TInv, NEW r \in Replicas,
         \/ DayCheck(r) \/ ReadRoots(r) \/ ReadLatestDaily(r) \/ SaveDaily(r)
         \/ ExportLogs(r) \/ ExportManifest(r)
  PROVE  /\ UNCHANGED <<clock, up, listener, log, pruned, hourly, ticked, disturbed>>
         /\ \A q \in Replicas \ {r} : sealer'[q] = sealer[q]
         /\ r \in up
         /\ sealer[r].at \in SealingAt \cup {"day"}
         /\ sealer'[r].at \in SealingAt \cup {"prune"}
         /\ sealer'[r].now = sealer[r].now
         /\ SaveDaily(r) \/ daily' = daily
         /\ ExportLogs(r) \/ ExportManifest(r) \/ worm' = worm
<1>0. SealerShape
  BY DEF TInv
<1>1. /\ UNCHANGED <<clock, up, listener, log, pruned, hourly, ticked, disturbed>>
      /\ r \in up /\ (SaveDaily(r) \/ daily' = daily)
      /\ ExportLogs(r) \/ ExportManifest(r) \/ worm' = worm
  BY DEF DayCheck, ReadRoots, ReadLatestDaily, SaveDaily, ExportLogs, ExportManifest, At, chain
<1>2. CASE DayCheck(r)
  <2>1. sealer[r].at = "day" /\ (Goto(r, "roots") \/ Goto(r, "prune"))
    BY <1>2 DEF DayCheck, At
  <2> QED BY <1>0, <1>1, <2>1, GotoFacts DEF Moved, SealingAt
<1>3. CASE ReadRoots(r)
  <2> DEFINE roots == RootsOf(HourlyOfDay(SealedDay(Now(r))))
  <2>1. PICK place \in {"prune", "latestDaily"} :
          sealer' = [sealer EXCEPT ![r] = [@ EXCEPT !.list = roots, !.at = place]]
    BY <1>3 DEF ReadRoots, UnlessEmpty
  <2>2. sealer[r].at = "roots"
    BY <1>3 DEF ReadRoots, At
  <2> HIDE DEF roots
  <2> QED BY <1>0, <1>1, <2>1, <2>2, ListRead DEF Moved, SealingAt
<1>4. CASE ReadLatestDaily(r)
  <2>1. PICK p \in PrevDaily : sealer' = [sealer EXCEPT ![r] = [@ EXCEPT !.prev = p, !.at = "saveDaily"]]
    BY <1>4 DEF ReadLatestDaily
  <2>2. sealer[r].at = "latestDaily"
    BY <1>4 DEF ReadLatestDaily, At
  <2> QED BY <1>0, <1>1, <2>1, <2>2, PrevRead DEF Moved, SealingAt
<1>5. CASE SaveDaily(r)
  <2>1. sealer[r].at = "saveDaily" /\ Goto(r, "worm")
    BY <1>5 DEF SaveDaily, At
  <2> QED BY <1>0, <1>1, <2>1, GotoFacts DEF Moved, SealingAt
<1>6. CASE ExportLogs(r) \/ ExportManifest(r)
  <2>1. sealer[r].at \in {"worm", "manifest"} /\ (Goto(r, "manifest") \/ Goto(r, "prune"))
    BY <1>6 DEF ExportLogs, ExportManifest, At
  <2> QED BY <1>0, <1>1, <1>6, <2>1, GotoFacts DEF Moved, SealingAt
<1> QED BY <1>2, <1>3, <1>4, <1>5, <1>6

\* The end of a tick.
LEMMA PruneMove ==
  ASSUME TInv, NEW r \in Replicas, Prune(r)
  PROVE  /\ UNCHANGED <<clock, up, listener, log, hourly, daily, worm, disturbed>>
         /\ \A q \in Replicas \ {r} : sealer'[q] = sealer[q]
         /\ r \in up /\ sealer[r].at = "prune" /\ sealer'[r].at = "idle"
         /\ ticked' = IF sealer[r].now = clock THEN ticked \cup {r} ELSE ticked
<1>1. sealer' = [sealer EXCEPT ![r] = Waiting] /\ SealerShape
  BY DEF Prune, TInv
<1>2. sealer'[r].at = "idle" /\ \A q \in Replicas \ {r} : sealer'[q] = sealer[q]
  BY <1>1, WaitFacts
<1> QED BY <1>2 DEF Prune, At, Now, chain

\* What goes on outside the ticks, as long as nothing fails.
LEMMA OutsideMove ==
  ASSUME TInv, [Next]_vars, faults' = 0, \A r \in Replicas : ~Sealer(r)
  PROVE  /\ UNCHANGED <<sealer, hourly, daily, worm, pruned>> /\ up \subseteq up'
         /\ \/ HalfHourPasses /\ UNCHANGED <<listener, log, disturbed>>
            \/ SetBack /\ UNCHANGED <<listener, log>>
            \/ /\ UNCHANGED <<clock, ticked>>
               /\ \/ \E r \in Replicas : Receive(r) \/ Lock(r) \/ ReadPrev(r) \/ Insert(r)
                  \/ UNCHANGED <<listener, log, disturbed>>
<1>0. Bounds
  BY DEF TInv
<1>1. CASE HalfHourPasses \/ SetBack
  BY <1>1 DEF HalfHourPasses, SetBack, chain
<1>2. ASSUME NEW r \in Replicas, Receive(r) \/ Lock(r) \/ ReadPrev(r) \/ Insert(r)
      PROVE  UNCHANGED <<clock, ticked, up, sealer, hourly, daily, worm, pruned>>
  BY <1>2 DEF Receive, Lock, ReadPrev, Insert, seals
<1>3. ASSUME NEW r \in Replicas, AppendFails(r) \/ Crash(r) PROVE FALSE
  BY <1>0, <1>3, FaultType DEF AppendFails, Crash
<1>4. ASSUME NEW r \in Replicas, Restart(r)
      PROVE  UNCHANGED <<clock, ticked, sealer, hourly, daily, worm, pruned, listener, log, disturbed>> /\ up \subseteq up'
  BY <1>4 DEF Restart, seals, chain
<1>5. CASE UNCHANGED vars
  BY <1>5 DEF vars, seals, chain
<1> QED BY <1>1, <1>2, <1>3, <1>4, <1>5 DEF Next, Listener

\* A step of a sealer is of one of these three kinds, as long as nothing fails.
LEMMA SealerMove ==
  ASSUME TInv, NEW r \in Replicas, Sealer(r), faults' = 0
  PROVE  \/ Tick(r) \/ HourCheck(r) \/ ReadHashes(r) \/ ReadLatest(r) \/ SaveHourly(r)
         \/ DayCheck(r) \/ ReadRoots(r) \/ ReadLatestDaily(r) \/ SaveDaily(r)
         \/ ExportLogs(r) \/ ExportManifest(r)
         \/ Prune(r)
<1>1. ~SealerFails(r)
  BY FaultType DEF TInv, SealerFails
<1> QED BY <1>1 DEF Sealer

\* A record joins the chain.
LEMMA Inserted ==
  ASSUME TInv, NEW r \in Replicas, Insert(r)
  PROVE  /\ Len(log) \in Nat /\ DOMAIN log = 1..Len(log) /\ DOMAIN log' = 1..Len(log)+1
         /\ \A i \in DOMAIN log : log'[i] = log[i]
         /\ log'[Len(log) + 1].ts = listener[r].ts
         /\ log'[Len(log) + 1].prev = listener[r].prev
         /\ log'[Len(log) + 1].hash = ComplianceHash(listener[r].prev, listener[r].ts)
         /\ disturbed' = IF listener[r].ts = Hour THEN disturbed ELSE disturbed \cup {listener[r].ts}
         /\ listener[r].at = "read" /\ clock' = clock /\ pruned' = pruned
         /\ listener'[r] = Listening /\ \A q \in Replicas \ {r} : listener'[q] = listener[q]
<1> DEFINE e == [ts |-> listener[r].ts, prev |-> listener[r].prev,
                 hash |-> ComplianceHash(listener[r].prev, listener[r].ts)]
<1>1. log' = Append(log, e) /\ log \in Seq(ToSet(log))
  BY DEF Insert, TInv, IInv, ChainType, ToSet
<1>2. /\ e.ts = listener[r].ts /\ e.prev = listener[r].prev
      /\ e.hash = ComplianceHash(listener[r].prev, listener[r].ts)
  OBVIOUS
<1> HIDE DEF e
<1>3. /\ Len(log) \in Nat /\ DOMAIN log = 1..Len(log) /\ DOMAIN log' = 1..Len(log)+1
      /\ \A i \in DOMAIN log : log'[i] = log[i]
      /\ log'[Len(log) + 1] = e
  BY <1>1, Appended
<1>4. listener' = [listener EXCEPT ![r] = Listening] /\ DOMAIN listener = Replicas
  BY DEF Insert, TInv, IInv, ChainType
<1> QED BY <1>2, <1>3, <1>4 DEF Insert

\* A listener takes one step before its insert.
LEMMA ListenerMove ==
  ASSUME TInv, NEW r \in Replicas, Receive(r) \/ Lock(r) \/ ReadPrev(r)
  PROVE  /\ UNCHANGED <<clock, log, disturbed>>
         /\ \A q \in Replicas \ {r} : listener'[q] = listener[q]
         /\ listener'[r].ts \in {Hour, listener[r].ts}
         /\ listener'[r].at = "read" => listener'[r].prev = LastHash
<1>1. CASE Receive(r)
  <2> DEFINE h == Hour
  <2>1. /\ UNCHANGED <<clock, log, disturbed>>
        /\ listener' = [listener EXCEPT ![r] = [@ EXCEPT !.at = "stamped", !.ts = h]]
    BY <1>1 DEF Receive
  <2> HIDE DEF h
  <2>2. /\ \A q \in Replicas \ {r} : listener'[q] = listener[q]
        /\ listener'[r].ts = h /\ listener'[r].at = "stamped"
    BY <2>1 DEF TInv, IInv, ChainType, Appending
  <2> QED BY <2>1, <2>2 DEF h
<1>2. CASE Lock(r)
  <2>1. /\ UNCHANGED <<clock, log, disturbed>>
        /\ listener' = [listener EXCEPT ![r].at = "locked"]
    BY <1>2 DEF Lock
  <2>2. /\ \A q \in Replicas \ {r} : listener'[q] = listener[q]
        /\ listener'[r].ts = listener[r].ts /\ listener'[r].at = "locked"
    BY <2>1 DEF TInv, IInv, ChainType, Appending
  <2> QED BY <2>1, <2>2
<1>3. CASE ReadPrev(r)
  <2> DEFINE h == LastHash
  <2>1. /\ UNCHANGED <<clock, log, disturbed>>
        /\ listener' = [listener EXCEPT ![r] = [@ EXCEPT !.at = "read", !.prev = h]]
    BY <1>3 DEF ReadPrev
  <2> HIDE DEF h
  <2>2. /\ \A q \in Replicas \ {r} : listener'[q] = listener[q]
        /\ listener'[r].ts = listener[r].ts /\ listener'[r].prev = h
    BY <2>1 DEF TInv, IInv, ChainType, Appending
  <2> QED BY <2>1, <2>2 DEF h
<1> QED BY <1>1, <1>2, <1>3

\* What a step does to the records and to who appends them.
LEMMA RecordMove ==
  ASSUME TInv, [Next]_vars, faults' = 0
  PROVE  \/ UNCHANGED <<listener, log>>
         \/ \E r \in Replicas : Receive(r) \/ Lock(r) \/ ReadPrev(r) \/ Insert(r)
<1>1. CASE \E r \in Replicas : Sealer(r)
  BY <1>1, SealerMove, HourlyMove, DailyMove, PruneMove
<1>2. CASE ~\E r \in Replicas : Sealer(r)
  BY <1>2, OutsideMove
<1> QED BY <1>1, <1>2

\* A row is hashed when it is inserted.
LEMMA HashedStep == ASSUME TInv, Hashed, [Next]_vars, faults' = 0 PROVE Hashed'
<1>1. CASE UNCHANGED <<listener, log>>
  BY <1>1 DEF Hashed
<1>2. ASSUME NEW r \in Replicas, Receive(r) \/ Lock(r) \/ ReadPrev(r) PROVE Hashed'
  <2>1. /\ log' = log /\ \A q \in Replicas \ {r} : listener'[q] = listener[q]
        /\ listener'[r].at = "read" => listener'[r].prev = LastHash
    BY <1>2, ListenerMove
  <2>2. log = <<>> => LastHash = <<>>
    BY DEF LastHash, LastOf, Rows
  <2> QED BY <2>1, <2>2 DEF Hashed
<1>3. ASSUME NEW r \in Replicas, Insert(r) PROVE Hashed'
  <2>1. \A i \in DOMAIN log' : log'[i].hash = ComplianceHash(log'[i].prev, log'[i].ts)
    <3> SUFFICES ASSUME NEW i \in DOMAIN log' PROVE log'[i].hash = ComplianceHash(log'[i].prev, log'[i].ts)
      OBVIOUS
    <3>1. CASE i = Len(log) + 1
      BY <1>3, <3>1, Inserted
    <3>2. CASE i # Len(log) + 1
      <4>1. i \in DOMAIN log /\ log'[i] = log[i]
        BY <1>3, <3>2, Inserted
      <4> QED BY <4>1 DEF Hashed
    <3> QED BY <3>1, <3>2
  <2>2. log' # <<>>
    <3>1. Len(log) + 1 \in DOMAIN log'
      BY <1>3, Inserted
    <3> QED BY <3>1
  <2>3. log'[1].prev = <<>>
    <3>1. Len(log) \in Nat /\ (log = <<>> <=> Len(log) = 0)
      BY DEF TInv, IInv, ChainType
    <3>3. CASE log = <<>>
      <4>1. log'[1].prev = listener[r].prev /\ listener[r].at = "read"
        BY <1>3, <3>1, <3>3, Inserted
      <4> QED BY <3>3, <4>1 DEF Hashed
    <3>4. CASE log # <<>>
      <4>1. 1 \in DOMAIN log /\ log'[1] = log[1]
        BY <1>3, <3>1, <3>4, Inserted
      <4> QED BY <3>4, <4>1 DEF Hashed
    <3> QED BY <3>3, <3>4
  <2> QED BY <2>1, <2>2, <2>3 DEF Hashed
<1> QED BY <1>1, <1>2, <1>3, RecordMove

\* The first day does not come back.
LEMMA DayStaysOver ==
  ASSUME TInv, [Next]_vars, First', DayOver
  PROVE  DayOver'
<1>1. Hour \in Int /\ clock \in Int /\ HoursPerDay \in Int /\ HoursPerDay >= 1
  BY HourType DEF TInv, IInv, ChainType, Hour, Hours, Clocks
<1>2. CASE clock' = clock
  BY <1>2 DEF DayOver, Hour
<1>3. CASE HalfHourPasses
  <2>1. clock' = clock + 1
    BY <1>3 DEF HalfHourPasses
  <2>2. Hour <= Hour' /\ Hour' \in Int
    BY <1>1, <2>1 DEF Hour, HourOf
  <2> QED BY <1>1, <2>2 DEF DayOver
<1>4. CASE SetBack
  <2>1. PICK c \in 0..clock-1 : clock' = c /\ disturbed' = disturbed \cup HourOf(c)..Hour
    BY <1>4 DEF SetBack
  <2>2. Hour' = HourOf(c) /\ HourOf(c) \in Int
    BY <1>1, <2>1 DEF Hour, HourOf
  <2>3. HoursPerDay - 1 \notin HourOf(c)..Hour
    BY <1>1, <2>1 DEF First, FirstDay
  <2> QED BY <1>1, <2>2, <2>3 DEF DayOver
<1>5. clock' = clock \/ HalfHourPasses \/ SetBack
  <2>1. CASE \E r \in Replicas : Sealer(r)
    BY <2>1, SealerWrites
  <2>2. CASE ~\E r \in Replicas : Sealer(r)
    <3>1. ASSUME NEW r \in Replicas, Receive(r) \/ Lock(r) \/ ReadPrev(r) \/ Insert(r) PROVE clock' = clock
      BY <3>1 DEF Receive, Lock, ReadPrev, Insert
    <3> QED BY <2>2, <3>1, OutsideMove DEF First
  <2> QED BY <2>1, <2>2
<1> QED BY <1>2, <1>3, <1>4, <1>5

\* The rows of the first day are the first ones.
LEMMA FirstRowsStep == ASSUME TInv, FirstRows, [Next]_vars, First' PROVE FirstRows'
<1>0. /\ DayOver => DayOver'
      /\ Hour \in Nat /\ HoursPerDay \in Nat
      /\ Hour \notin FirstDay => DayOver
  <2>1. Hour \in Nat
    BY HourType DEF TInv, IInv, ChainType, Hour, Hours
  <2> QED BY <2>1, DayStaysOver DEF DayOver, FirstDay
<1>1. CASE UNCHANGED <<listener, log>>
  BY <1>0, <1>1 DEF FirstRows
<1>2. ASSUME NEW r \in Replicas, Receive(r) \/ Lock(r) \/ ReadPrev(r) PROVE FirstRows'
  <2>1. /\ log' = log /\ \A q \in Replicas \ {r} : listener'[q] = listener[q]
        /\ listener'[r].ts \in {Hour, listener[r].ts}
    BY <1>2, ListenerMove
  <2> QED BY <1>0, <2>1 DEF FirstRows
<1>3. ASSUME NEW r \in Replicas, Insert(r) PROVE FirstRows'
  <2>0. 0 \in FirstDay
    BY DEF FirstDay
  <2>1. \A q \in Replicas : listener'[q].ts \notin FirstDay => DayOver'
    BY <1>0, <1>3, <2>0, Inserted DEF FirstRows, Listening
  <2>2. \A i \in DOMAIN log' : i \in DOMAIN log \/ i = Len(log) + 1
    BY <1>3, Inserted
  <2>3. \A i \in DOMAIN log' : log'[i].ts \notin FirstDay => DayOver'
    BY <1>0, <1>3, <2>2, Inserted DEF FirstRows
  <2>4. listener[r].ts \in FirstDay => ~DayOver
    <3>1. listener[r].ts \in FirstDay => listener[r].ts = Hour
      BY <1>3, Inserted DEF First
    <3> QED BY <1>0, <3>1 DEF FirstDay, DayOver
  <2>5. ASSUME NEW i \in DOMAIN log', NEW j \in DOMAIN log', i < j, log'[j].ts \in FirstDay
        PROVE  log'[i].ts \in FirstDay
    <3>1. i \in DOMAIN log /\ log'[i] = log[i]
      BY <1>3, <2>2, <2>5, Inserted
    <3>2. CASE j \in DOMAIN log
      BY <1>3, <2>5, <3>1, <3>2, Inserted DEF FirstRows
    <3>3. CASE j = Len(log) + 1
      BY <1>3, <2>4, <2>5, <3>1, <3>3, Inserted DEF FirstRows
    <3> QED BY <2>2, <3>2, <3>3
  <2> QED BY <2>1, <2>3, <2>5 DEF FirstRows
<1> QED BY <1>1, <1>2, <1>3, RecordMove DEF First

\* The parts of a tick.
HourPart(r) == Tick(r) \/ HourCheck(r) \/ ReadHashes(r) \/ ReadLatest(r) \/ SaveHourly(r)
DayPart(r) == \/ DayCheck(r) \/ ReadRoots(r) \/ ReadLatestDaily(r) \/ SaveDaily(r)
              \/ ExportLogs(r) \/ ExportManifest(r)

\* The steps there are, as long as nothing fails.
LEMMA Kinds ==
  ASSUME TInv, [Next]_vars, faults' = 0
  PROVE  \/ \E r \in Replicas : HourPart(r) \/ DayPart(r) \/ Prune(r)
         \/ /\ \A r \in Replicas : ~Sealer(r)
            /\ UNCHANGED <<sealer, hourly, daily, worm, pruned>> /\ up \subseteq up'
<1>1. CASE \E r \in Replicas : Sealer(r)
  BY <1>1, SealerMove DEF HourPart, DayPart
<1>2. CASE ~\E r \in Replicas : Sealer(r)
  BY <1>2, OutsideMove
<1> QED BY <1>1, <1>2

\* The day is looked at.
LEMMA DayChecked ==
  ASSUME TInv, NEW r \in Replicas, DayCheck(r)
  PROVE  LET c == sealer[r].now
         IN  sealer'[r].at = IF SealsDay(c) /\ ~DaySealed(SealedDay(c)) THEN "roots" ELSE "prune"
<1>1. SealerShape
  BY DEF TInv
<1> QED BY <1>1, GotoFacts DEF DayCheck, Now, Moved

\* A tick that does not fail is that of a replica that runs.
LEMMA RunningStep == ASSUME TInv, Running, [Next]_vars, faults' = 0 PROVE Running'
<1>1. ASSUME NEW r \in Replicas, HourPart(r) PROVE Running'
  BY <1>1, HourlyMove DEF HourPart, Running, SealingAt
<1>2. ASSUME NEW r \in Replicas, DayPart(r) PROVE Running'
  <2>1. /\ UNCHANGED up /\ r \in up /\ \A q \in Replicas \ {r} : sealer'[q] = sealer[q]
        /\ sealer[r].at \in SealingAt \cup {"day"} /\ sealer'[r].now = sealer[r].now
    BY <1>2, DailyMove DEF DayPart
  <2>2. sealer'[r].at \in SealingAt => SealsDay(sealer[r].now)
    <3>1. CASE DayCheck(r)
      BY <3>1, DayChecked DEF SealingAt
    <3>2. CASE ~DayCheck(r)
      <4>1. sealer[r].at # "day"
        BY <1>2, <3>2 DEF DayPart, ReadRoots, ReadLatestDaily, SaveDaily, ExportLogs, ExportManifest, At
      <4> QED BY <2>1, <4>1 DEF Running
    <3> QED BY <3>1, <3>2
  <2> QED BY <2>1, <2>2 DEF Running
<1>3. ASSUME NEW r \in Replicas, Prune(r) PROVE Running'
  BY <1>3, PruneMove DEF Running, SealingAt
<1>4. CASE UNCHANGED sealer /\ up \subseteq up'
  BY <1>4 DEF Running
<1> QED BY <1>1, <1>2, <1>3, <1>4, Kinds

\* The new checkpoint of an hour.
LEMMA HourSaved ==
  ASSUME TInv, NEW r \in Replicas, SaveHourly(r)
  PROVE  /\ sealer[r].at = "save" /\ sealer'[r].at = "day"
         /\ \E cp : /\ cp.hour = SealedHour(sealer[r].now) /\ cp.prev = sealer[r].prev
                    /\ ToSet(hourly') = ToSet(hourly) \cup {cp}
                    /\ DOMAIN hourly' = 1..Len(hourly)+1 /\ DOMAIN hourly = 1..Len(hourly) /\ Len(hourly) \in Nat
                    /\ hourly'[Len(hourly) + 1] = cp
                    /\ \A i \in DOMAIN hourly : hourly'[i] = hourly[i]
<1>1. PICK cp : cp = [hour |-> SealedHour(sealer[r].now), prev |-> sealer[r].prev,
                      root |-> MerkleRoot(sealer[r].list), count |-> Len(sealer[r].list)]
  OBVIOUS
<1>2. /\ cp.hour = SealedHour(sealer[r].now) /\ cp.prev = sealer[r].prev
      /\ hourly' = Append(hourly, cp) /\ sealer[r].at = "save" /\ Goto(r, "day")
  BY <1>1 DEF SaveHourly, At
<1>3. SealerShape /\ hourly \in Seq(ToSet(hourly))
  BY DEF TInv, Tables
<1>4. sealer'[r].at = "day"
  BY <1>2, <1>3, GotoFacts DEF Moved
<1>5. /\ ToSet(hourly') = ToSet(hourly) \cup {cp}
      /\ DOMAIN hourly' = 1..Len(hourly)+1 /\ DOMAIN hourly = 1..Len(hourly) /\ Len(hourly) \in Nat
      /\ hourly'[Len(hourly) + 1] = cp
      /\ \A i \in DOMAIN hourly : hourly'[i] = hourly[i]
  <2>1. hourly \in Seq(ToSet(hourly)) /\ hourly' = Append(hourly, cp)
    BY <1>2, <1>3
  <2>2. ToSet(hourly') = ToSet(hourly) \cup {cp}
    BY <2>1, Appended
  <2>3. /\ DOMAIN hourly' = 1..Len(hourly)+1 /\ DOMAIN hourly = 1..Len(hourly) /\ Len(hourly) \in Nat
        /\ hourly'[Len(hourly) + 1] = cp
        /\ \A i \in DOMAIN hourly : hourly'[i] = hourly[i]
    BY <2>1, Appended
  <2> QED BY <2>2, <2>3
<1> QED BY <1>2, <1>4, <1>5

\* Only hours with records are sealed.
LEMMA SealedHasRows ==
  ASSUME SInv, First, NEW r \in Replicas, sealer[r].at \in {"latest", "save"},
         SealedHour(sealer[r].now) \in FirstDay
  PROVE  HasRows(SealedHour(sealer[r].now))
<1> DEFINE h == SealedHour(sealer[r].now)
<1>1. Untouched(h)
  BY DEF Untouched, First
<1>2. HashesOf(h) # <<>>
  <2>1. sealer[r].list = HashesOf(h) /\ Len(sealer[r].list) \in 1..MaxRecords
    BY <1>1 DEF SInv, TInv, SealerOK, SealerType
  <2> QED BY <2>1
<1> HIDE DEF h
<1>3. Rows \in SUBSET Int /\ IsFiniteSet(Rows)
  <2>1. DOMAIN log = 1..Len(log) /\ Len(log) \in Nat
    BY DEF SInv, TInv, IInv, ChainType
  <2>2. Rows \in SUBSET (1..Len(log))
    BY <2>1 DEF Rows
  <2>3. IsFiniteSet(1..Len(log))
    BY <2>1, FS_Interval
  <2>4. IsFiniteSet(Rows)
    BY <2>2, <2>3, FS_Subset
  <2> QED BY <2>2, <2>4
<1>4. RowsOf(Rows, h) # {}
  BY <1>2, <1>3, LeavesFacts DEF HashesOf
<1> QED BY <1>4 DEF RowsOf, Rows, HasRows, h

\* No hour of the first day is sealed after a later one, or twice.
LEMMA NoLateSeal ==
  ASSUME SInv, First, First', NEW r \in Replicas, SaveHourly(r), SealedHour(sealer[r].now) \in FirstDay
  PROVE  /\ ~CheckpointExists(SealedHour(sealer[r].now))
         /\ \A k \in Int : Earlier(k) => k <= SealedHour(sealer[r].now)
<1> DEFINE h == SealedHour(sealer[r].now)
<1>1. ~CheckpointExists(h)
  <2> SUFFICES ASSUME NEW i \in DOMAIN hourly, hourly[i].hour = h PROVE FALSE
    BY DEF CheckpointExists
  <2>1. PICK cp : /\ cp.hour = h
                  /\ DOMAIN hourly' = 1..Len(hourly)+1 /\ DOMAIN hourly = 1..Len(hourly) /\ Len(hourly) \in Nat
                  /\ hourly'[Len(hourly) + 1] = cp
                  /\ \A j \in DOMAIN hourly : hourly'[j] = hourly[j]
    BY HourSaved DEF SInv
  <2>2. i # Len(hourly) + 1 /\ i \in DOMAIN hourly' /\ Len(hourly) + 1 \in DOMAIN hourly'
    BY <2>1
  <2>3. hourly'[i].hour = hourly'[Len(hourly) + 1].hour
    BY <2>1
  <2> QED BY <2>2, <2>3 DEF First, SealedOnce
<1>2. HasRows(h) /\ Untouched(h)
  <2>1. sealer[r].at = "save"
    BY HourSaved DEF SInv
  <2> QED BY <2>1, SealedHasRows DEF First, Untouched
<1>3. ~Done(h)
  BY <1>1, <1>2 DEF Done
<1> HIDE DEF h
<1>4. ASSUME NEW k \in Int, Earlier(k) PROVE k <= h
  <2>1. h \in FirstDay /\ h \in Int
    BY DEF h, FirstDay
  <2> QED BY <1>3, <1>4, <2>1 DEF Earlier
<1> QED BY <1>1, <1>4 DEF h

\* What is done with stays so.
LEMMA EarlierStays == ASSUME TInv, [Next]_vars, NEW h, Earlier(h) PROVE Earlier(h)'
<1> SUFFICES ASSUME NEW k \in FirstDay, k < h PROVE Past(k)' /\ Done(k)'
  BY DEF Earlier, FirstDay
<1>1. k \in Int /\ Past(k) /\ Done(k)
  BY DEF Earlier, FirstDay
<1> QED BY <1>1, Settled DEF StaysSettled

\* The checkpoints after a step: those there were and the one saved.
LEMMA HourlyAfter ==
  ASSUME TInv, [Next]_vars, faults' = 0
  PROVE  hourly' = hourly \/ \E r \in Replicas : SaveHourly(r)
<1>1. ASSUME NEW r \in Replicas, HourPart(r) \/ DayPart(r) \/ Prune(r), ~SaveHourly(r) PROVE hourly' = hourly
  BY <1>1, HourlyMove, DailyMove, PruneMove DEF HourPart, DayPart
<1> QED BY <1>1, Kinds

\* The hours are sealed in their order.
LEMMA InTurnStep == ASSUME SInv, First, InTurn, [Next]_vars, First' PROVE InTurn'
<1>0. TInv /\ faults = 0 /\ faults' = 0 /\ Hour \in Int
  BY HourType DEF SInv, TInv, IInv, ChainType, Hour, Hours, First
<1>1. \A cp \in ToSet(hourly') : Earlier(cp.hour)'
  <2>1. ASSUME NEW cp \in ToSet(hourly) PROVE Earlier(cp.hour)'
    BY <1>0, <2>1, EarlierStays DEF InTurn
  <2>2. ASSUME NEW r \in Replicas, SaveHourly(r) PROVE \A cp \in ToSet(hourly') : Earlier(cp.hour)'
    <3>0. PICK h : h = SealedHour(sealer[r].now)
      OBVIOUS
    <3>1. Earlier(h)'
      <4>1. Earlier(h)
        BY <1>0, <2>2, <3>0, HourSaved DEF InTurn
      <4> QED BY <1>0, <4>1, EarlierStays
    <3>2. \A cp \in ToSet(hourly') : cp \in ToSet(hourly) \/ cp.hour = h
      BY <1>0, <2>2, <3>0, HourSaved
    <3> QED BY <2>1, <3>1, <3>2
  <2> QED BY <1>0, <2>1, <2>2, HourlyAfter
<1>2. ASSUME NEW r \in Replicas, sealer'[r].at # "idle" PROVE Earlier(SealedHour(sealer[r].now))'
  <2>1. CASE sealer[r].at # "idle" /\ sealer'[r].now = sealer[r].now
    <3>1. PICK h : h = SealedHour(sealer[r].now)
      OBVIOUS
    <3>2. Earlier(h)
      BY <2>1, <3>1 DEF InTurn
    <3>3. Earlier(h)'
      BY <1>0, <3>2, EarlierStays
    <3> QED BY <2>1, <3>1, <3>3 DEF Earlier
  <2>2. CASE sealer'[r].now = clock
    <3>1. SealedHour(clock) = Hour - 1
      BY DEF SealedHour, Hour
    <3>2. Earlier(Hour - 1)
      <4> SUFFICES ASSUME NEW k \in FirstDay, k < Hour - 1 PROVE Past(k) /\ Done(k)
        BY DEF Earlier
      <4>1. k \in Int
        BY DEF FirstDay
      <4> QED BY <1>0, <4>1 DEF SInv, InTime, Past
    <3>3. PICK h : h = Hour - 1
      OBVIOUS
    <3>4. Earlier(h)
      BY <3>2, <3>3
    <3>5. Earlier(h)'
      BY <1>0, <3>4, EarlierStays
    <3>6. SealedHour(sealer'[r].now) = h
      BY <2>2, <3>1, <3>3
    <3> QED BY <3>5, <3>6 DEF Earlier
  <2>3. \/ sealer[r].at # "idle" /\ sealer'[r].now = sealer[r].now
        \/ sealer'[r].now = clock
    <3>1. ASSUME NEW q \in Replicas, HourPart(q) PROVE q # r \/ (sealer[r].at # "idle" /\ sealer'[r].now = sealer[r].now) \/ sealer'[r].now = clock
      BY <1>0, <3>1, HourlyMove DEF HourPart
    <3>2. ASSUME NEW q \in Replicas, DayPart(q) PROVE q # r \/ (sealer[r].at # "idle" /\ sealer'[r].now = sealer[r].now)
      BY <1>0, <3>2, DailyMove DEF DayPart, SealingAt
    <3>3. ASSUME NEW q \in Replicas, Prune(q) PROVE q # r
      BY <1>0, <1>2, <3>3, PruneMove
    <3>4. ASSUME NEW q \in Replicas \ {r}, HourPart(q) \/ DayPart(q) \/ Prune(q) PROVE sealer'[r] = sealer[r]
      BY <1>0, <3>4, HourlyMove, DailyMove, PruneMove DEF HourPart, DayPart
    <3>5. CASE sealer'[r] = sealer[r]
      BY <1>2, <3>5
    <3> QED BY <1>0, <3>1, <3>2, <3>3, <3>4, <3>5, Kinds
  <2> QED BY <2>1, <2>2, <2>3
<1> QED BY <1>1, <1>2 DEF InTurn

\* A link is right for as long as no checkpoint comes before it.
LEMMA LinkStays ==
  ASSUME NEW h \in Int, NEW prev, LinkOK(h, prev), NEW cp, cp.hour \in Int, cp.hour >= h,
         ToSet(hourly') = ToSet(hourly) \cup {cp}
  PROVE  LinkOK(h, prev)'
<1>1. CASE prev = <<>> /\ \A c \in ToSet(hourly) : c.hour >= h
  BY <1>1 DEF LinkOK
<1>2. CASE \E c \in ToSet(hourly) : /\ c.hour < h /\ prev = c.root
                                    /\ \A d \in ToSet(hourly) : d.hour < h => d.hour <= c.hour
  BY <1>2 DEF LinkOK
<1> QED BY <1>1, <1>2 DEF LinkOK

\* The latest checkpoint is the one to link to.
LEMMA LatestLink ==
  ASSUME SInv, First, InTurn, NEW r \in Replicas, sealer[r].at = "latest",
         NEW h \in FirstDay, h = SealedHour(sealer[r].now), ~CheckpointExists(h),
         NEW p \in PrevHourly
  PROVE  LinkOK(h, p)
<1>1. ~Done(h)
  <2>1. HasRows(h) /\ Untouched(h)
    BY SealedHasRows DEF First, Untouched
  <2> QED BY <2>1 DEF Done
<1>2. ASSUME NEW cp \in ToSet(hourly) PROVE cp.hour < h
  <2>1. cp.hour \in Int /\ h \in Int
    BY DEF SInv, TInv, Tables, Hours, FirstDay
  <2>2. cp.hour # h
    BY DEF CheckpointExists, ToSet
  <2>3. ~(h < cp.hour)
    BY <1>1 DEF InTurn, Earlier
  <2> QED BY <2>1, <2>2, <2>3
<1>3. CASE hourly = <<>>
  BY <1>3 DEF LinkOK, PrevHourly, LatestRoots, ToSet
<1>4. CASE hourly # <<>>
  <2>1. PICK i \in DOMAIN hourly : p = hourly[i].root /\ \A j \in DOMAIN hourly : hourly[j].hour <= hourly[i].hour
    BY <1>4 DEF PrevHourly, LatestRoots
  <2>2. hourly[i] \in ToSet(hourly) /\ \A c \in ToSet(hourly) : c.hour <= hourly[i].hour
    BY <2>1 DEF ToSet
  <2> QED BY <1>2, <2>1, <2>2 DEF LinkOK
<1> QED BY <1>3, <1>4

\* The sealers that are about to save have been so, or have just read the latest root.
LEMMA ToSave ==
  ASSUME TInv, [Next]_vars, faults' = 0, NEW r \in Replicas, sealer'[r].at = "save"
  PROVE  /\ sealer'[r].now = sealer[r].now
         /\ \/ sealer'[r] = sealer[r]
            \/ /\ sealer[r].at = "latest" /\ sealer'[r].prev \in PrevHourly
               /\ hourly' = hourly
<1>1. CASE sealer'[r] = sealer[r]
  BY <1>1
<1>2. CASE ReadLatest(r)
  <2>1. PICK p \in PrevHourly : sealer' = [sealer EXCEPT ![r] = [@ EXCEPT !.prev = p, !.at = "save"]]
    BY <1>2 DEF ReadLatest
  <2>2. sealer[r].at = "latest" /\ hourly' = hourly
    BY <1>2 DEF ReadLatest, At
  <2>3. SealerShape /\ DOMAIN sealer = Replicas
    BY DEF TInv, SealerShape
  <2>4. sealer'[r].now = sealer[r].now
    BY <2>1, <2>3, PrevRead DEF Moved
  <2>5. sealer'[r].prev = p
    BY <2>1, <2>3 DEF SealerShape
  <2> QED BY <2>2, <2>4, <2>5
<1>3. \A q \in Replicas \ {r} : HourPart(q) \/ DayPart(q) \/ Prune(q) => sealer'[r] = sealer[r]
  BY HourlyMove, DailyMove, PruneMove DEF HourPart, DayPart
<1>4. HourPart(r) => ReadLatest(r)
  BY HourlyMove DEF HourPart
<1>5. ~DayPart(r) /\ ~Prune(r)
  BY DailyMove, PruneMove DEF DayPart, SealingAt
<1> QED BY <1>1, <1>2, <1>3, <1>4, <1>5, Kinds

\* Every checkpoint of the first day is linked to the one before it.
LEMMA LinkedStep ==
  ASSUME SInv, First, InTurn, Linked, [Next]_vars, First'
  PROVE  Linked'
<1>0. TInv /\ faults' = 0
  BY DEF SInv, First
<1>1. ASSUME NEW h \in FirstDay, NEW p, LinkOK(h, p),
             hourly' = hourly \/ \E k \in FirstDay : k >= h /\ Earlier(k)
      PROVE  LinkOK(h, p)'
  <2>1. CASE hourly' = hourly
    BY <1>1, <2>1 DEF LinkOK
  <2>2. CASE hourly' # hourly
    <3>1. PICK k \in FirstDay : k >= h /\ Earlier(k)
      BY <1>1, <2>2
    <3>2. PICK r \in Replicas : SaveHourly(r)
      BY <1>0, <2>2, HourlyAfter
    <3>3. PICK cp : cp.hour = SealedHour(sealer[r].now) /\ ToSet(hourly') = ToSet(hourly) \cup {cp}
      BY <1>0, <3>2, HourSaved
    <3>4. h \in Int /\ k \in Int
      BY DEF FirstDay
    <3>5. cp.hour \in Int /\ cp.hour >= 0
      <4>1. sealer[r].at = "save"
        BY <1>0, <3>2, HourSaved
      <4> QED BY <1>0, <3>3, <4>1 DEF TInv, SealerType, Hours
    <3>6. cp.hour >= h
      <4>1. CASE cp.hour \in FirstDay
        <5>1. k <= cp.hour
          BY <3>1, <3>2, <3>3, <3>4, <4>1, NoLateSeal
        <5> QED BY <3>1, <3>4, <3>5, <5>1
      <4>2. CASE cp.hour \notin FirstDay
        BY <3>4, <3>5, <4>2 DEF FirstDay
      <4> QED BY <4>1, <4>2
    <3> QED BY <1>1, <3>3, <3>4, <3>5, <3>6, LinkStays
  <2> QED BY <2>1, <2>2
<1>2. ASSUME NEW cp \in ToSet(hourly'), cp.hour \in FirstDay
      PROVE  LinkOK(cp.hour, cp.prev)'
  <2>1. CASE cp \in ToSet(hourly)
    <3>1. LinkOK(cp.hour, cp.prev) /\ Earlier(cp.hour) /\ cp.hour \in Int
      BY <1>2, <2>1 DEF Linked, InTurn, FirstDay
    <3> QED BY <1>1, <1>2, <3>1
  <2>2. CASE cp \notin ToSet(hourly)
    <3>1. PICK r \in Replicas : SaveHourly(r)
      BY <1>0, <1>2, <2>2, HourlyAfter
    <3>2. cp.hour = SealedHour(sealer[r].now) /\ cp.prev = sealer[r].prev /\ sealer[r].at = "save"
      BY <1>0, <1>2, <2>2, <3>1, HourSaved
    <3>3. ~CheckpointExists(cp.hour)
      BY <1>2, <3>1, <3>2, NoLateSeal
    <3>4. LinkOK(cp.hour, cp.prev) /\ Earlier(cp.hour) /\ cp.hour \in Int
      BY <1>2, <3>2, <3>3 DEF Linked, InTurn, FirstDay
    <3> QED BY <1>1, <1>2, <3>4
  <2> QED BY <2>1, <2>2
<1>3. ASSUME NEW r \in Replicas, sealer'[r].at = "save", NEW h \in FirstDay, h = SealedHour(sealer'[r].now),
             ~CheckpointExists(h)', NEW p, p = sealer'[r].prev
      PROVE  LinkOK(h, p)'
  <2>1. h = SealedHour(sealer[r].now)
    BY <1>0, <1>3, ToSave DEF SealedHour
  <2>2. ~CheckpointExists(h)
    <3>1. PICK cp : hourly' \in {hourly, Append(hourly, cp)}
      BY <1>0, Growth
    <3>2. hourly \in Seq(ToSet(hourly))
      BY <1>0 DEF TInv, Tables
    <3>3. ASSUME CheckpointExists(h) PROVE CheckpointExists(h)'
      <4>1. PICK i \in DOMAIN hourly : hourly[i].hour = h
        BY <3>3 DEF CheckpointExists
      <4>2. i \in DOMAIN hourly' /\ hourly'[i] = hourly[i]
        BY <3>1, <3>2, GrownSeq
      <4> QED BY <4>1, <4>2 DEF CheckpointExists
    <3> QED BY <1>3, <3>3
  <2>3. CASE sealer'[r] = sealer[r]
    <3>1. LinkOK(h, p) /\ Earlier(h) /\ h \in Int
      BY <1>3, <2>1, <2>2, <2>3 DEF Linked, InTurn, FirstDay
    <3> QED BY <1>1, <3>1
  <2>4. CASE sealer[r].at = "latest" /\ sealer'[r].prev \in PrevHourly /\ hourly' = hourly
    <3>1. LinkOK(h, p)
      BY <1>3, <2>1, <2>2, <2>4, LatestLink
    <3> QED BY <1>1, <2>4, <3>1
  <2> QED BY <1>0, <1>3, <2>3, <2>4, ToSave
<1>4. ASSUME NEW r \in Replicas, sealer'[r].at = "save",
             SealedHour(sealer'[r].now) \in FirstDay, ~CheckpointExists(SealedHour(sealer[r].now))'
      PROVE  LinkOK(SealedHour(sealer[r].now), sealer[r].prev)'
  <2>1. PICK h \in FirstDay : h = SealedHour(sealer'[r].now)
    BY <1>4
  <2>2. PICK p : p = sealer'[r].prev
    OBVIOUS
  <2>3. ~CheckpointExists(h)'
    BY <1>4, <2>1 DEF CheckpointExists
  <2>4. LinkOK(h, p)'
    BY <1>3, <1>4, <2>1, <2>2, <2>3
  <2> QED BY <2>1, <2>2, <2>4 DEF LinkOK
<1> QED BY <1>2, <1>4 DEF Linked

\* The time at which the first day is sealed.
LEMMA FirstSealTime ==
  ASSUME NEW c \in Nat, SealsDay(c)
  PROVE  SealedDay(c) = 0 <=> c = FirstSeal
<1> DEFINE h == HourOf(c)
<1>1. h \in Nat /\ c = 2 * h + 1
  BY DEF SealsDay, HourOf
<1>2. h % HoursPerDay = 0
  BY DEF SealsDay, OfDay
<1> DEFINE d == h \div HoursPerDay
<1>3. d \in Nat /\ h = HoursPerDay * d + (h % HoursPerDay)
  BY <1>1
<1>4. SealedDay(c) = d - 1
  BY DEF SealedDay, Day
<1> HIDE DEF h, d
<1>5. h = HoursPerDay * d
  BY <1>1, <1>2, <1>3
<1>6. d = 1 => h = HoursPerDay
  BY <1>5
<1>7. h = HoursPerDay => d = 1
  <2>1. CASE d = 0
    BY <1>5, <2>1
  <2>2. CASE d >= 2
    <3>1. HoursPerDay * d >= HoursPerDay * 2
      BY <1>3, <2>2
    <3> QED BY <1>5, <3>1
  <2> QED BY <1>3, <2>1, <2>2
<1> QED BY <1>1, <1>3, <1>4, <1>6, <1>7 DEF FirstSeal

\* Its tick is one in the first hour of the second day.
LEMMA FirstSealFacts ==
  /\ FirstSeal \in Nat /\ HourOf(FirstSeal) = HoursPerDay /\ SealedHour(FirstSeal) = HoursPerDay - 1
  /\ SealsDay(FirstSeal) /\ SealedDay(FirstSeal) = 0
  /\ DayStart(0) = 0 /\ DayStart(0 + 1) = HoursPerDay
<1>1. FirstSeal \in Nat /\ HourOf(FirstSeal) = HoursPerDay /\ FirstSeal % 2 = 1
  BY DEF FirstSeal, HourOf
<1>2. HoursPerDay % HoursPerDay = 0
  OBVIOUS
<1>3. SealsDay(FirstSeal)
  BY <1>1, <1>2 DEF SealsDay, OfDay
<1>4. SealedDay(FirstSeal) = 0
  BY <1>1, <1>3, FirstSealTime
<1> QED BY <1>1, <1>3, <1>4 DEF SealedHour, DayStart

\* Who is past the hour in that tick knows the first day to be done with.
LEMMA DayDone ==
  ASSUME SInv, First, InTurn, NEW r \in Replicas, sealer[r].at \in AfterHour, sealer[r].now = FirstSeal
  PROVE  Earlier(HoursPerDay)
<1>1. Earlier(HoursPerDay - 1)
  BY FirstSealFacts DEF InTurn, AfterHour
<1>2. Past(HoursPerDay - 1) /\ Done(HoursPerDay - 1)
  BY FirstSealFacts DEF SInv, SealerOK, First, AfterHour
<1> SUFFICES ASSUME NEW k \in FirstDay PROVE Past(k) /\ Done(k)
  BY DEF Earlier
<1>3. k < HoursPerDay - 1 \/ k = HoursPerDay - 1
  BY DEF FirstDay
<1> QED BY <1>1, <1>2, <1>3 DEF Earlier

\* Checkpoints of later hours do not change the roots of the first day.
LEMMA RootsStay ==
  ASSUME SInv, First, [Next]_vars, First', Earlier(HoursPerDay)
  PROVE  FirstRoots' = FirstRoots
<1>0. TInv /\ faults' = 0
  BY DEF SInv, First
<1>1. CASE hourly' = hourly
  BY <1>1 DEF FirstRoots, RootsOf, Between
<1>2. CASE hourly' # hourly
  <2>1. PICK r \in Replicas : SaveHourly(r)
    BY <1>0, <1>2, HourlyAfter
  <2>2. PICK cp : /\ cp.hour = SealedHour(sealer[r].now)
                  /\ DOMAIN hourly' = 1..Len(hourly)+1 /\ DOMAIN hourly = 1..Len(hourly) /\ Len(hourly) \in Nat
                  /\ hourly'[Len(hourly) + 1] = cp
                  /\ \A i \in DOMAIN hourly : hourly'[i] = hourly[i]
    BY <1>0, <2>1, HourSaved
  <2>3. cp.hour \notin 0..HoursPerDay-1
    <3>1. cp.hour \in FirstDay => HoursPerDay <= cp.hour
      BY <2>1, <2>2, NoLateSeal
    <3> QED BY <3>1 DEF FirstDay
  <2> DEFINE Ids == {i \in DOMAIN hourly : hourly[i].hour \in 0..HoursPerDay-1}
  <2>4. {i \in DOMAIN hourly' : hourly'[i].hour \in 0..HoursPerDay-1} = Ids
    BY <2>2, <2>3
  <2>5. [i \in Ids |-> hourly'[i].hour] = [i \in Ids |-> hourly[i].hour]
    BY <2>2
  <2>6. Between(0, HoursPerDay)' = Between(0, HoursPerDay)
    BY <2>4, <2>5 DEF Between
  <2>7. Between(0, HoursPerDay) \in Bijection(1..Len(Between(0, HoursPerDay)), Ids)
    <3>1. \A i \in DOMAIN hourly : hourly[i].hour \in Int
      BY <1>0 DEF TInv, Tables, ToSet, Hours
    <3> QED BY <2>2, <3>1, BetweenFacts
  <2>8. \A n \in DOMAIN Between(0, HoursPerDay) : Between(0, HoursPerDay)[n] \in DOMAIN hourly
    BY <2>7 DEF Bijection, Injection
  <2>9. [n \in DOMAIN Between(0, HoursPerDay) |-> hourly'[Between(0, HoursPerDay)[n]].root]
        = [n \in DOMAIN Between(0, HoursPerDay) |-> hourly[Between(0, HoursPerDay)[n]].root]
    BY <2>2, <2>8
  <2> QED BY <2>6, <2>9 DEF FirstRoots, RootsOf
<1> QED BY <1>1, <1>2

\* What the first day's seal is about to say.
LEMMA ToSeal ==
  ASSUME TInv, [Next]_vars, faults' = 0, NEW r \in Replicas,
         sealer'[r].at \in {"latestDaily", "saveDaily"}, sealer'[r].now = FirstSeal
  PROVE  /\ sealer[r].now = FirstSeal /\ sealer[r].at \in AfterHour
         /\ \/ sealer[r].at \in {"latestDaily", "saveDaily"} /\ sealer'[r].list = sealer[r].list
            \/ sealer[r].at = "roots" /\ sealer'[r].list = FirstRoots
<1>0. SealerShape
  BY DEF TInv
<1>1. CASE sealer'[r] = sealer[r]
  BY <1>1 DEF AfterHour, SealerPlaces
<1>2. CASE ReadRoots(r)
  <2>0. PICK roots : roots = RootsOf(HourlyOfDay(SealedDay(Now(r))))
    OBVIOUS
  <2>1. PICK place \in {"prune", "latestDaily"} :
          sealer' = [sealer EXCEPT ![r] = [@ EXCEPT !.list = roots, !.at = place]]
    BY <1>2, <2>0 DEF ReadRoots, UnlessEmpty
  <2>2. sealer[r].at = "roots"
    BY <1>2 DEF ReadRoots, At
  <2>3. sealer'[r].now = sealer[r].now /\ sealer'[r].list = roots
    <3>1. Moved(r, place) /\ sealer'[r].list = roots
      BY <1>0, <2>1, ListRead
    <3> QED BY <3>1 DEF Moved
  <2>4. roots = FirstRoots
    BY <2>0, <2>3, FirstSealFacts DEF FirstRoots, HourlyOfDay, Now
  <2> QED BY <2>2, <2>3, <2>4 DEF AfterHour, SealerPlaces
<1>3. CASE ReadLatestDaily(r)
  <2>1. PICK p \in PrevDaily : sealer' = [sealer EXCEPT ![r] = [@ EXCEPT !.prev = p, !.at = "saveDaily"]]
    BY <1>3 DEF ReadLatestDaily
  <2>2. sealer[r].at = "latestDaily"
    BY <1>3 DEF ReadLatestDaily, At
  <2>3. sealer'[r].now = sealer[r].now /\ sealer'[r].list = sealer[r].list
    BY <1>0, <2>1, PrevRead DEF Moved
  <2> QED BY <2>2, <2>3 DEF AfterHour, SealerPlaces
<1>4. \A q \in Replicas \ {r} : HourPart(q) \/ DayPart(q) \/ Prune(q) => sealer'[r] = sealer[r]
  BY HourlyMove, DailyMove, PruneMove DEF HourPart, DayPart
<1>5. ~HourPart(r) /\ ~Prune(r)
  BY HourlyMove, PruneMove DEF HourPart
<1>6. DayPart(r) => ReadRoots(r) \/ ReadLatestDaily(r)
  <2>1. ~DayCheck(r)
    BY DayChecked
  <2>2. ~(SaveDaily(r) \/ ExportLogs(r) \/ ExportManifest(r))
    <3>1. SaveDaily(r) => Goto(r, "worm")
      BY DEF SaveDaily
    <3>2. ExportLogs(r) \/ ExportManifest(r) => Goto(r, "manifest") \/ Goto(r, "prune")
      BY DEF ExportLogs, ExportManifest
    <3>3. \A place \in {"worm", "manifest", "prune"} : ~Goto(r, place)
      BY <1>0, GotoFacts DEF Moved
    <3> QED BY <3>1, <3>2, <3>3
  <2> QED BY <2>1, <2>2 DEF DayPart
<1> QED BY <1>1, <1>2, <1>3, <1>4, <1>5, <1>6, Kinds

\* Where the daily part goes.
LEMMA DayPlaces ==
  ASSUME TInv, NEW r \in Replicas
  PROVE  /\ DayCheck(r) => sealer[r].at = "day" /\ sealer'[r].at \in {"roots", "prune"}
         /\ ReadRoots(r) => sealer[r].at = "roots" /\ sealer'[r].at \in {"prune", "latestDaily"}
         /\ ReadLatestDaily(r) => sealer[r].at = "latestDaily" /\ sealer'[r].at = "saveDaily"
         /\ SaveDaily(r) => sealer[r].at = "saveDaily" /\ sealer'[r].at = "worm"
         /\ ExportLogs(r) => /\ sealer[r].at = "worm" /\ sealer'[r].at \in {"manifest", "prune"}
                             /\ sealer'[r].at = "manifest" <=> worm[SealedDay(sealer[r].now)] = "none"
         /\ ExportManifest(r) => sealer[r].at = "manifest" /\ sealer'[r].at = "prune"
<1>0. SealerShape
  BY DEF TInv
<1>1. ASSUME DayCheck(r) PROVE sealer[r].at = "day" /\ sealer'[r].at \in {"roots", "prune"}
  <2>1. sealer[r].at = "day" /\ (Goto(r, "roots") \/ Goto(r, "prune"))
    BY <1>1 DEF DayCheck, At
  <2> QED BY <1>0, <2>1, GotoFacts DEF Moved
<1>2. ASSUME ReadRoots(r) PROVE sealer[r].at = "roots" /\ sealer'[r].at \in {"prune", "latestDaily"}
  <2> PICK roots : roots = RootsOf(HourlyOfDay(SealedDay(Now(r))))
    OBVIOUS
  <2>1. PICK place \in {"prune", "latestDaily"} :
          sealer' = [sealer EXCEPT ![r] = [@ EXCEPT !.list = roots, !.at = place]]
    BY <1>2 DEF ReadRoots, UnlessEmpty
  <2>2. Moved(r, place)
    BY <1>0, <2>1, ListRead
  <2> QED BY <1>2, <2>2 DEF Moved, ReadRoots, At
<1>3. ASSUME ReadLatestDaily(r) PROVE sealer[r].at = "latestDaily" /\ sealer'[r].at = "saveDaily"
  <2>1. PICK p \in PrevDaily : sealer' = [sealer EXCEPT ![r] = [@ EXCEPT !.prev = p, !.at = "saveDaily"]]
    BY <1>3 DEF ReadLatestDaily
  <2>2. Moved(r, "saveDaily")
    BY <1>0, <2>1, PrevRead
  <2> QED BY <1>3, <2>2 DEF Moved, ReadLatestDaily, At
<1>4. ASSUME SaveDaily(r) PROVE sealer[r].at = "saveDaily" /\ sealer'[r].at = "worm"
  <2>1. sealer[r].at = "saveDaily" /\ Goto(r, "worm")
    BY <1>4 DEF SaveDaily, At
  <2> QED BY <1>0, <2>1, GotoFacts DEF Moved
<1>5. ASSUME ExportLogs(r)
      PROVE  /\ sealer[r].at = "worm" /\ sealer'[r].at \in {"manifest", "prune"}
             /\ sealer'[r].at = "manifest" <=> worm[SealedDay(sealer[r].now)] = "none"
  <2>1. /\ sealer[r].at = "worm"
        /\ IF worm[SealedDay(sealer[r].now)] = "none" THEN Goto(r, "manifest") ELSE Goto(r, "prune")
    BY <1>5 DEF ExportLogs, At, Now
  <2> QED BY <1>0, <2>1, GotoFacts DEF Moved
<1>6. ASSUME ExportManifest(r) PROVE sealer[r].at = "manifest" /\ sealer'[r].at = "prune"
  <2>1. sealer[r].at = "manifest" /\ Goto(r, "prune")
    BY <1>6 DEF ExportManifest, At
  <2> QED BY <1>0, <2>1, GotoFacts DEF Moved
<1> QED BY <1>1, <1>2, <1>3, <1>4, <1>5, <1>6

\* The new seal of a day.
LEMMA DaySaved ==
  ASSUME TInv, NEW r \in Replicas, SaveDaily(r)
  PROVE  \E cp : /\ cp.day = SealedDay(sealer[r].now)
                 /\ cp.root = MerkleRoot(sealer[r].list) /\ cp.hours = Len(sealer[r].list)
                 /\ ToSet(daily') = ToSet(daily) \cup {cp}
                 /\ DOMAIN daily' = 1..Len(daily)+1 /\ DOMAIN daily = 1..Len(daily) /\ Len(daily) \in Nat
                 /\ daily'[Len(daily) + 1] = cp
                 /\ \A i \in DOMAIN daily : daily'[i] = daily[i]
<1>1. PICK cp : cp = [day |-> SealedDay(sealer[r].now), prev |-> sealer[r].prev,
                      root |-> MerkleRoot(sealer[r].list), hours |-> Len(sealer[r].list)]
  OBVIOUS
<1>2. /\ cp.day = SealedDay(sealer[r].now)
      /\ cp.root = MerkleRoot(sealer[r].list) /\ cp.hours = Len(sealer[r].list)
      /\ daily' = Append(daily, cp)
  BY <1>1 DEF SaveDaily
<1>3. daily \in Seq(ToSet(daily))
  BY DEF TInv, Tables
<1>4. ToSet(daily') = ToSet(daily) \cup {cp}
  BY <1>2, <1>3, Appended
<1>5. /\ DOMAIN daily' = 1..Len(daily)+1 /\ DOMAIN daily = 1..Len(daily) /\ Len(daily) \in Nat
      /\ daily'[Len(daily) + 1] = cp
      /\ \A i \in DOMAIN daily : daily'[i] = daily[i]
  BY <1>2, <1>3, Appended
<1> QED BY <1>2, <1>4, <1>5

\* The seals after a step: those there were and the one saved.
LEMMA DailyAfter ==
  ASSUME TInv, [Next]_vars, faults' = 0
  PROVE  daily' = daily \/ \E r \in Replicas : SaveDaily(r)
<1>1. ASSUME NEW r \in Replicas, HourPart(r) \/ DayPart(r) \/ Prune(r), ~SaveDaily(r) PROVE daily' = daily
  BY <1>1, HourlyMove, DailyMove, PruneMove DEF HourPart, DayPart
<1> QED BY <1>1, Kinds

\* A tick that seals the first day does so at its time.
LEMMA SealsFirst ==
  ASSUME TInv, Running, NEW r \in Replicas, sealer[r].at \in SealingAt
  PROVE  SealedDay(sealer[r].now) = 0 <=> sealer[r].now = FirstSeal
<1>1. sealer[r].now \in Nat
  BY DEF TInv, SealerType, Clocks
<1>2. SealsDay(sealer[r].now)
  BY DEF Running
<1> QED BY <1>1, <1>2, FirstSealTime

\* The seal of the first day says what its checkpoints say.
LEMMA DaySealsStep ==
  ASSUME SInv, First, Running, InTurn, DaySeals, [Next]_vars, First'
  PROVE  DaySeals'
<1>0. TInv /\ faults' = 0
  BY DEF SInv, First
<1>1. ASSUME NEW cp \in ToSet(daily'), cp.day = 0
      PROVE  Earlier(HoursPerDay) /\ cp.root = MerkleRoot(FirstRoots) /\ cp.hours = Len(FirstRoots)
  <2>1. CASE cp \in ToSet(daily)
    BY <1>1, <2>1 DEF DaySeals
  <2>2. CASE cp \notin ToSet(daily)
    <3>1. PICK r \in Replicas : SaveDaily(r)
      BY <1>0, <1>1, <2>2, DailyAfter
    <3>2. /\ cp.day = SealedDay(sealer[r].now)
          /\ cp.root = MerkleRoot(sealer[r].list) /\ cp.hours = Len(sealer[r].list)
      BY <1>0, <1>1, <2>2, <3>1, DaySaved
    <3>3. sealer[r].at = "saveDaily"
      BY <1>0, <3>1, DayPlaces
    <3>4. sealer[r].now = FirstSeal
      BY <1>0, <1>1, <3>2, <3>3, SealsFirst DEF SealingAt
    <3>5. sealer[r].at \in AfterHour
      BY <3>3 DEF AfterHour, SealerPlaces
    <3>6. sealer[r].list = FirstRoots
      BY <3>3, <3>4 DEF DaySeals
    <3> QED BY <3>2, <3>4, <3>5, <3>6, DayDone
  <2> QED BY <2>1, <2>2
<1>2. ASSUME NEW r \in Replicas, sealer'[r].at \in {"latestDaily", "saveDaily"}, sealer'[r].now = FirstSeal
      PROVE  Earlier(HoursPerDay) /\ sealer'[r].list = FirstRoots
  <2>1. /\ sealer[r].now = FirstSeal /\ sealer[r].at \in AfterHour
        /\ \/ sealer[r].at \in {"latestDaily", "saveDaily"} /\ sealer'[r].list = sealer[r].list
           \/ sealer[r].at = "roots" /\ sealer'[r].list = FirstRoots
    BY <1>0, <1>2, ToSeal
  <2>2. Earlier(HoursPerDay)
    BY <2>1, DayDone
  <2> QED BY <2>1, <2>2 DEF DaySeals
<1>3. ASSUME Earlier(HoursPerDay) PROVE FirstRoots' = FirstRoots /\ Earlier(HoursPerDay)'
  BY <1>0, <1>3, RootsStay, EarlierStays
<1>4. ASSUME NEW cp \in ToSet(daily'), cp.day = 0
      PROVE  Earlier(HoursPerDay)' /\ cp.root = MerkleRoot(FirstRoots') /\ cp.hours = Len(FirstRoots')
  BY <1>1, <1>3, <1>4
<1>5. ASSUME NEW r \in Replicas, sealer'[r].at \in {"latestDaily", "saveDaily"}, sealer'[r].now = FirstSeal
      PROVE  sealer'[r].list = FirstRoots'
  BY <1>2, <1>3, <1>5
<1> QED BY <1>4, <1>5 DEF DaySeals

\* A seal is never deleted.
LEMMA SealStays == ASSUME TInv, [Next]_vars, DaySealed(0) PROVE DaySealed(0)'
<1>1. PICK cp : daily' \in {daily, Append(daily, cp)}
  BY Growth
<1>2. PICK i \in DOMAIN daily : daily[i].day = 0
  BY DEF DaySealed
<1>3. daily \in Seq(ToSet(daily))
  BY DEF TInv, Tables
<1>4. i \in DOMAIN daily' /\ daily'[i] = daily[i]
  BY <1>1, <1>3, GrownSeq
<1> QED BY <1>2, <1>4 DEF DaySealed

\* Whoever saves the seal of the first day saves the only one.
LEMMA FirstSealSaved ==
  ASSUME SInv, Running, First', NEW r \in Replicas, SaveDaily(r)
  PROVE  IF sealer[r].now = FirstSeal THEN ~DaySealed(0) /\ DaySealed(0)'
                                      ELSE DaySealed(0)' <=> DaySealed(0)
<1>0. TInv /\ sealer[r].at = "saveDaily"
  BY DayPlaces DEF SInv
<1>1. PICK cp : /\ cp.day = SealedDay(sealer[r].now)
                /\ DOMAIN daily' = 1..Len(daily)+1 /\ DOMAIN daily = 1..Len(daily) /\ Len(daily) \in Nat
                /\ daily'[Len(daily) + 1] = cp
                /\ \A i \in DOMAIN daily : daily'[i] = daily[i]
  BY <1>0, DaySaved
<1>2. cp.day = 0 <=> sealer[r].now = FirstSeal
  BY <1>0, <1>1, SealsFirst DEF SealingAt
<1>3. Len(daily) + 1 \in DOMAIN daily' /\ \A i \in DOMAIN daily : i \in DOMAIN daily' /\ i # Len(daily) + 1
  BY <1>1
<1>4. \A i \in DOMAIN daily' : i \in DOMAIN daily \/ i = Len(daily) + 1
  BY <1>1
<1>5. CASE cp.day = 0
  <2>1. DaySealed(0)'
    BY <1>1, <1>3, <1>5 DEF DaySealed
  <2>2. ASSUME NEW i \in DOMAIN daily, daily[i].day = 0 PROVE FALSE
    <3>1. daily'[i].day = daily'[Len(daily) + 1].day
      BY <1>1, <1>5, <2>2
    <3> QED BY <1>3, <3>1 DEF First, SealedOnce
  <2> QED BY <1>2, <1>5, <2>1, <2>2 DEF DaySealed
<1>6. CASE cp.day # 0
  BY <1>1, <1>2, <1>3, <1>4, <1>6 DEF DaySealed
<1> QED BY <1>5, <1>6

\* What the package of the first day becomes.
LEMMA FirstWorm ==
  ASSUME TInv, Running, NEW r \in Replicas, ExportLogs(r) \/ ExportManifest(r)
  PROVE  worm'[0] = IF sealer[r].now # FirstSeal THEN worm[0]
                    ELSE IF ExportManifest(r) THEN "complete"
                    ELSE IF worm[0] = "none" THEN "logs" ELSE worm[0]
<1>1. DOMAIN worm = Days /\ 0 \in Days
  <2>1. Day(MaxHour) \in Nat
    BY DayFacts
  <2> QED BY <2>1 DEF TInv, Tables, Days
<1>2. SealedDay(sealer[r].now) = 0 <=> sealer[r].now = FirstSeal
  BY DayPlaces, SealsFirst DEF SealingAt
<1>3. ExportManifest(r) => ~ExportLogs(r)
  BY DEF ExportLogs, ExportManifest, At
<1>4. PICK d : d = SealedDay(sealer[r].now)
  OBVIOUS
<1>5. CASE ExportLogs(r)
  <2>1. worm' = IF worm[d] = "none" THEN [worm EXCEPT ![d] = "logs"] ELSE worm
    BY <1>4, <1>5 DEF ExportLogs, Now
  <2> QED BY <1>1, <1>2, <1>3, <1>4, <1>5, <2>1
<1>6. CASE ExportManifest(r)
  <2>1. worm' = [worm EXCEPT ![d] = "complete"]
    BY <1>4, <1>6 DEF ExportManifest, Now
  <2> QED BY <1>1, <1>2, <1>4, <1>6, <2>1
<1> QED BY <1>5, <1>6

\* Who exports the first day does so before and after every other step.
LEMMA SameExports ==
  ASSUME TInv, [Next]_vars, faults' = 0, NEW r \in Replicas,
         ~(SaveDaily(r) \/ ExportLogs(r) \/ ExportManifest(r))
  PROVE  /\ Exporting(r)' <=> Exporting(r)
         /\ Exporting(r) => sealer'[r].at = sealer[r].at
<1>1. CASE HourPart(r)
  <2>1. sealer[r].at \in {"idle", "hour", "hashes", "latest", "save"}
    BY <1>1, HourlyMove DEF HourPart
  <2>2. sealer'[r].at \in {"hour", "hashes", "latest", "save", "day"}
    BY <1>1, HourlyMove DEF HourPart
  <2> QED BY <2>1, <2>2 DEF Exporting
<1>2. CASE DayCheck(r) \/ ReadRoots(r) \/ ReadLatestDaily(r)
  <2>1. sealer[r].at \notin {"worm", "manifest"}
    BY <1>2, DayPlaces
  <2>2. sealer'[r].at \notin {"worm", "manifest"}
    BY <1>2, DayPlaces
  <2> QED BY <2>1, <2>2 DEF Exporting
<1>3. CASE Prune(r)
  <2>1. sealer[r].at = "prune" /\ sealer'[r].at = "idle"
    BY <1>3, PruneMove
  <2> QED BY <2>1 DEF Exporting
<1>4. CASE sealer'[r] = sealer[r]
  BY <1>4 DEF Exporting
<1>5. \A q \in Replicas \ {r} : HourPart(q) \/ DayPart(q) \/ Prune(q) => sealer'[r] = sealer[r]
  BY HourlyMove, DailyMove, PruneMove DEF HourPart, DayPart
<1>6. sealer'[r] = sealer[r] \/ HourPart(r) \/ DayPart(r) \/ Prune(r)
  BY <1>5, Kinds
<1> QED BY <1>1, <1>2, <1>3, <1>4, <1>6 DEF DayPart

\* The package of the first day is written by who has sealed it.
LEMMA ExportedStep ==
  ASSUME SInv, First, Running, Exported, [Next]_vars, First'
  PROVE  Exported'
<1>0. TInv /\ faults' = 0
  BY DEF SInv, First
<1>1. ASSUME NEW r \in Replicas, SaveDaily(r) PROVE Exported'
  <2>1. /\ worm' = worm /\ sealer[r].at = "saveDaily" /\ sealer'[r].at = "worm"
        /\ sealer'[r].now = sealer[r].now
        /\ \A q \in Replicas \ {r} : sealer'[q] = sealer[q]
    <3>1. sealer[r].at = "saveDaily" /\ sealer'[r].at = "worm"
      BY <1>0, <1>1, DayPlaces
    <3>2. worm' = worm
      BY <1>1 DEF SaveDaily
    <3>3. sealer'[r].now = sealer[r].now /\ \A q \in Replicas \ {r} : sealer'[q] = sealer[q]
      BY <1>0, <1>1, DailyMove
    <3> QED BY <3>1, <3>2, <3>3
  <2>2. CASE sealer[r].now = FirstSeal
    <3>1. ~DaySealed(0) /\ DaySealed(0)'
      BY <1>1, <2>2, FirstSealSaved
    <3>2. worm[0] = "none" /\ \A q \in Replicas : ~Exporting(q)
      BY <3>1 DEF Exported
    <3>3. \A q \in Replicas : Exporting(q)' <=> q = r
      BY <2>1, <2>2, <3>2 DEF Exporting
    <3> QED BY <2>1, <3>1, <3>2, <3>3 DEF Exported
  <2>3. CASE sealer[r].now # FirstSeal
    <3>1. DaySealed(0)' <=> DaySealed(0)
      BY <1>1, <2>3, FirstSealSaved
    <3>2. \A q \in Replicas : Exporting(q)' <=> Exporting(q)
      BY <2>1, <2>3 DEF Exporting
    <3>3. \A q \in Replicas : Exporting(q) => sealer'[q] = sealer[q]
      BY <2>1 DEF Exporting
    <3> QED BY <2>1, <3>1, <3>2, <3>3 DEF Exported
  <2> QED BY <2>2, <2>3
<1>2. ASSUME NEW r \in Replicas, ExportLogs(r) \/ ExportManifest(r) PROVE Exported'
  <2>1. /\ daily' = daily /\ sealer'[r].now = sealer[r].now
        /\ \A q \in Replicas \ {r} : sealer'[q] = sealer[q]
    <3>1. daily' = daily
      BY <1>2 DEF ExportLogs, ExportManifest
    <3>2. sealer'[r].now = sealer[r].now /\ \A q \in Replicas \ {r} : sealer'[q] = sealer[q]
      BY <1>0, <1>2, DailyMove
    <3> QED BY <3>1, <3>2
  <2>2. DaySealed(0)' <=> DaySealed(0)
    BY <2>1 DEF DaySealed
  <2>3. CASE sealer[r].now # FirstSeal
    <3>1. worm'[0] = worm[0]
      BY <1>0, <1>2, <2>3, FirstWorm
    <3>2. \A q \in Replicas : Exporting(q)' <=> Exporting(q)
      BY <2>1, <2>3 DEF Exporting
    <3>3. \A q \in Replicas : Exporting(q) => sealer'[q] = sealer[q]
      BY <2>1, <2>3 DEF Exporting
    <3> QED BY <2>2, <3>1, <3>2, <3>3 DEF Exported
  <2>4. CASE sealer[r].now = FirstSeal
    <3>1. Exporting(r)
      BY <1>0, <1>2, <2>4, DayPlaces DEF Exporting
    <3>2. DaySealed(0) /\ \A q \in Replicas : Exporting(q) => q = r
      BY <3>1 DEF Exported
    <3>3. \A q \in Replicas : Exporting(q)' => q = r
      BY <2>1, <3>2 DEF Exporting
    <3>4. worm[0] = "complete" \/ worm[0] = IF sealer[r].at = "worm" THEN "none" ELSE "logs"
      BY <3>2 DEF Exported
    <3>5. CASE ExportManifest(r)
      <4>1. worm'[0] = "complete"
        BY <1>0, <1>2, <2>4, <3>5, FirstWorm
      <4> QED BY <2>2, <3>2, <3>3, <4>1 DEF Exported
    <3>6. CASE ExportLogs(r) /\ ~ExportManifest(r)
      <4>1. /\ sealer[r].at = "worm"
            /\ sealer'[r].at = "manifest" <=> worm[0] = "none"
            /\ worm'[0] = IF worm[0] = "none" THEN "logs" ELSE worm[0]
        <5>1. SealedDay(sealer[r].now) = 0
          BY <2>4, FirstSealFacts
        <5>2. sealer[r].at = "worm" /\ (sealer'[r].at = "manifest" <=> worm[0] = "none")
          BY <1>0, <3>6, <5>1, DayPlaces
        <5> QED BY <1>0, <1>2, <2>4, <3>6, <5>2, FirstWorm
      <4>2. CASE worm[0] = "none"
        <5>1. Exporting(r)' /\ worm'[0] = "logs" /\ sealer'[r].at = "manifest"
          BY <2>1, <2>4, <4>1, <4>2 DEF Exporting
        <5> QED BY <2>2, <3>2, <3>3, <5>1 DEF Exported
      <4>3. CASE worm[0] # "none"
        <5>1. worm'[0] = "complete"
          BY <3>4, <4>1, <4>3
        <5> QED BY <2>2, <3>2, <3>3, <5>1 DEF Exported
      <4> QED BY <4>2, <4>3
    <3> QED BY <1>2, <3>5, <3>6
  <2> QED BY <2>3, <2>4
<1>3. CASE ~\E r \in Replicas : SaveDaily(r) \/ ExportLogs(r) \/ ExportManifest(r)
  <2>1. daily' = daily /\ worm' = worm
    <3>1. ASSUME NEW q \in Replicas, HourPart(q) \/ DayPart(q) \/ Prune(q) PROVE worm' = worm
      BY <1>0, <1>3, <3>1, HourlyMove, DailyMove, PruneMove DEF HourPart, DayPart
    <3>2. worm' = worm
      BY <1>0, <3>1, Kinds
    <3> QED BY <1>0, <1>3, <3>2, DailyAfter
  <2>2. DaySealed(0)' <=> DaySealed(0)
    BY <2>1 DEF DaySealed
  <2>3. \A r \in Replicas : /\ Exporting(r)' <=> Exporting(r)
                            /\ Exporting(r) => sealer'[r].at = sealer[r].at
    BY <1>0, <1>3, SameExports
  <2> QED BY <2>1, <2>2, <2>3 DEF Exported
<1> QED BY <1>1, <1>2, <1>3

\* Nothing is recorded for the first day once it is over.
LEMMA RecordedBefore ==
  ASSUME TInv, [Next]_vars, First', DayOver, Recorded'
  PROVE  Recorded
<1>0. faults' = 0
  BY DEF First
<1>1. PICK i \in DOMAIN log' : log'[i].ts \in FirstDay
  BY DEF Recorded, FirstDay
<1>2. CASE UNCHANGED <<listener, log>>
  BY <1>1, <1>2 DEF Recorded
<1>3. CASE \E r \in Replicas : Receive(r) \/ Lock(r) \/ ReadPrev(r)
  <2>1. log' = log
    BY <1>3, ListenerMove
  <2> QED BY <1>1, <2>1 DEF Recorded
<1>4. ASSUME NEW r \in Replicas, Insert(r) PROVE Recorded
  <2>1. i \in DOMAIN log \/ i = Len(log) + 1
    BY <1>1, <1>4, Inserted
  <2>2. CASE i \in DOMAIN log
    BY <1>1, <1>4, <2>2, Inserted DEF Recorded
  <2>3. CASE i = Len(log) + 1
    <3>1. listener[r].ts \in FirstDay
      BY <1>1, <1>4, <2>3, Inserted
    <3>2. Hour \in FirstDay
      BY <1>4, <3>1, Inserted DEF First
    <3> QED BY <3>2 DEF FirstDay, DayOver
  <2> QED BY <2>1, <2>2, <2>3
<1> QED BY <1>0, <1>2, <1>3, <1>4, RecordMove

\* A tick that seals the first day takes place after it.
LEMMA SealedAfterwards ==
  ASSUME SInv, First, NEW r \in Replicas, sealer[r].at # "idle", sealer[r].now = FirstSeal
  PROVE  DayOver
<1>1. Past(HoursPerDay - 1)
  BY FirstSealFacts DEF SInv, SealerOK
<1>2. HoursPerDay - 1 \in FirstDay
  BY DEF FirstDay
<1>3. HoursPerDay - 1 < Hour
  BY <1>1, <1>2 DEF Past, First
<1>4. Hour \in Int
  BY HourType DEF SInv, TInv, IInv, ChainType, Hour, Hours
<1> QED BY <1>3, <1>4 DEF DayOver

\* The first day has a checkpoint once all is done for it.
LEMMA RootsFound ==
  ASSUME SInv, First, Recorded, Earlier(HoursPerDay)
  PROVE  FirstRoots # <<>>
<1>1. PICK i \in DOMAIN log : log[i].ts \in FirstDay
  BY DEF Recorded
<1>2. PICK h \in FirstDay : h = log[i].ts
  BY <1>1
<1>3. h < HoursPerDay
  BY DEF FirstDay
<1>4. Done(h) /\ Untouched(h) /\ HasRows(h)
  BY <1>2, <1>3 DEF Earlier, First, Untouched, HasRows
<1>5. PICK j \in DOMAIN hourly : hourly[j].hour = h
  BY <1>4 DEF Done, CheckpointExists
<1> DEFINE Ids == {k \in DOMAIN hourly : hourly[k].hour \in 0..HoursPerDay-1}
           ids == Between(0, HoursPerDay)
<1>6. j \in Ids
  BY <1>5 DEF FirstDay
<1>7. /\ ids \in Bijection(1..Len(ids), Ids) /\ Len(ids) \in Nat
      /\ ids = <<>> <=> Ids = {}
      /\ ids # <<>> => Len(ids) >= 1
  <2>1. DOMAIN hourly = 1..Len(hourly) /\ Len(hourly) \in Nat /\ \A k \in DOMAIN hourly : hourly[k].hour \in Int
    BY DEF SInv, TInv, Tables, ToSet, Hours
  <2> QED BY <2>1, BetweenFacts
<1>8. DOMAIN FirstRoots = DOMAIN ids
  BY DEF FirstRoots, RootsOf
<1>9. 1 \in DOMAIN ids
  <2> HIDE DEF Ids, ids
  <2> QED BY <1>6, <1>7 DEF Bijection, Injection
<1> QED BY <1>8, <1>9

\* A tick in the first hour of the second day ends with the first day sealed.
LEMMA EndsSealed ==
  ASSUME SInv, First, InTurn, Exported, Recorded, [Next]_vars, First', NEW r \in Replicas, DayPart(r),
         sealer'[r].at = "prune", sealer[r].now = FirstSeal
  PROVE  DaySealed(0)'
<1>0. TInv
  BY DEF SInv
<1>1. CASE DayCheck(r)
  BY <1>0, <1>1, DayChecked, FirstSealFacts, SealStays
<1>2. CASE ReadRoots(r)
  <2>1. sealer[r].at \in AfterHour
    BY <1>0, <1>2, DayPlaces DEF AfterHour, SealerPlaces
  <2>2. FirstRoots # <<>>
    BY <2>1, DayDone, RootsFound
  <2>3. RootsOf(HourlyOfDay(SealedDay(Now(r)))) = FirstRoots
    BY FirstSealFacts DEF FirstRoots, HourlyOfDay, Now
  <2>4. PICK roots : roots = FirstRoots
    OBVIOUS
  <2>5. sealer' = [sealer EXCEPT ![r] = [@ EXCEPT !.list = roots, !.at = "latestDaily"]]
    BY <1>2, <2>2, <2>3, <2>4 DEF ReadRoots, UnlessEmpty
  <2>6. Moved(r, "latestDaily")
    BY <1>0, <2>5, ListRead DEF TInv
  <2> QED BY <2>6 DEF Moved
<1>3. CASE ReadLatestDaily(r) \/ SaveDaily(r)
  BY <1>0, <1>3, DayPlaces
<1>4. CASE ExportLogs(r) \/ ExportManifest(r)
  <2>1. Exporting(r)
    BY <1>0, <1>4, DayPlaces DEF Exporting
  <2> QED BY <1>0, <2>1, SealStays DEF Exported
<1> QED BY <1>1, <1>2, <1>3, <1>4 DEF DayPart

\* Before the day is over nobody seals it.
LEMMA NotYet ==
  ASSUME SInv, First, [Next]_vars, First', ~DayOver
  PROVE  SealedInTime'
<1>0. TInv /\ faults' = 0 /\ clock \in Int /\ Hour = HourOf(clock) /\ HoursPerDay \in Int /\ HoursPerDay >= 1
  BY DEF SInv, First, TInv, IInv, ChainType, Clocks, Hour
<1>1. clock' \in Int /\ clock' <= clock + 1
  <2>1. CASE HalfHourPasses
    BY <1>0, <2>1 DEF HalfHourPasses
  <2>2. CASE SetBack
    BY <1>0, <2>2 DEF SetBack
  <2>3. CASE clock' = clock
    BY <1>0, <2>3
  <2>4. \A r \in Replicas : HourPart(r) \/ DayPart(r) \/ Prune(r) => clock' = clock
    BY <1>0, HourlyMove, DailyMove, PruneMove DEF HourPart, DayPart
  <2>5. \A r \in Replicas : Receive(r) \/ Lock(r) \/ ReadPrev(r) \/ Insert(r) => clock' = clock
    BY DEF Receive, Lock, ReadPrev, Insert
  <2> QED BY <1>0, <2>1, <2>2, <2>3, <2>4, <2>5, Kinds, OutsideMove
<1>2. clock < 2 * HoursPerDay
  BY <1>0 DEF DayOver, HourOf
<1>3. clock' # FirstSeal /\ ~(Hour' > HoursPerDay)
  <2>1. clock' <= 2 * HoursPerDay /\ 2 * HoursPerDay \in Int
    BY <1>0, <1>1, <1>2
  <2>2. HourOf(clock') <= HourOf(2 * HoursPerDay)
    BY <1>1, <2>1, HourOrder
  <2>3. HourOf(2 * HoursPerDay) = HoursPerDay /\ HourOf(clock') \in Int
    BY <1>0, <1>1 DEF HourOf
  <2>4. ~(HourOf(clock') > HoursPerDay)
    BY <1>0, <2>2, <2>3
  <2> QED BY <1>0, <1>1, <2>1, <2>4 DEF FirstSeal, Hour
<1>4. ASSUME NEW r \in Replicas, sealer'[r].at = "prune", sealer'[r].now = FirstSeal PROVE FALSE
  <2>1. sealer[r].at # "idle" /\ sealer[r].now = sealer'[r].now
    <3>1. HourPart(r) => sealer'[r].at # "prune"
      BY <1>0, HourlyMove DEF HourPart
    <3>2. DayPart(r) => sealer[r].at # "idle" /\ sealer'[r].now = sealer[r].now
      BY <1>0, DailyMove DEF DayPart, SealingAt
    <3>3. Prune(r) => sealer'[r].at # "prune"
      BY <1>0, PruneMove
    <3>4. \A q \in Replicas \ {r} : HourPart(q) \/ DayPart(q) \/ Prune(q) => sealer'[r] = sealer[r]
      BY <1>0, HourlyMove, DailyMove, PruneMove DEF HourPart, DayPart
    <3>5. sealer'[r] = sealer[r] \/ HourPart(r) \/ DayPart(r) \/ Prune(r)
      BY <1>0, <3>4, Kinds
    <3> QED BY <1>4, <3>1, <3>2, <3>3, <3>5
  <2> QED BY <1>4, <2>1, SealedAfterwards
<1> QED BY <1>3, <1>4 DEF SealedInTime

\* The first day is sealed and exported in time.
LEMMA SealedInTimeStep ==
  ASSUME SInv, First, Running, InTurn, Exported, SealedInTime, [Next]_vars, First'
  PROVE  SealedInTime'
<1>0. TInv /\ faults' = 0 /\ (DaySealed(0) => DaySealed(0)') /\ ticked \subseteq up
  BY SealStays DEF SInv, First, TInv, Processes
<1> SUFFICES ASSUME DayOver, Recorded PROVE SealedInTime'
  BY <1>0, NotYet, RecordedBefore DEF SealedInTime
<1>1. /\ \A r \in Replicas : sealer[r].at = "prune" /\ sealer[r].now = FirstSeal => DaySealed(0)
      /\ clock = FirstSeal /\ ticked # {} => DaySealed(0)
      /\ clock = FirstSeal => \A r \in ticked : ~SealingFirst(r)
      /\ Hour > HoursPerDay => DaySealed(0) /\ worm[0] = "complete"
  BY DEF SealedInTime
<1>2. ASSUME NEW r \in Replicas, HourPart(r) PROVE SealedInTime'
  <2>1. UNCHANGED <<clock, worm, ticked>> /\ \A q \in Replicas \ {r} : sealer'[q] = sealer[q]
    BY <1>0, <1>2, HourlyMove DEF HourPart
  <2>2. sealer'[r].at \notin SealingAt \cup {"prune"}
    BY <1>0, <1>2, HourlyMove DEF HourPart, SealingAt
  <2>3. \A q \in Replicas : SealingFirst(q)' => SealingFirst(q)
    BY <2>1, <2>2 DEF SealingFirst
  <2>4. Hour' = Hour /\ ticked \subseteq Replicas
    BY <1>0, <2>1 DEF Hour, TInv, Processes
  <2> QED BY <1>0, <1>1, <2>1, <2>2, <2>3, <2>4 DEF SealedInTime
<1>3. ASSUME NEW r \in Replicas, DayPart(r) PROVE SealedInTime'
  <2>1. /\ UNCHANGED <<clock, ticked>> /\ \A q \in Replicas \ {r} : sealer'[q] = sealer[q]
        /\ sealer'[r].now = sealer[r].now
    BY <1>0, <1>3, DailyMove DEF DayPart
  <2>2. Hour' = Hour /\ ticked \subseteq Replicas
    BY <1>0, <2>1 DEF Hour, TInv, Processes
  <2>3. ASSUME NEW q \in Replicas, sealer'[q].at = "prune", sealer'[q].now = FirstSeal PROVE DaySealed(0)'
    <3>1. CASE q = r
      BY <1>3, <2>1, <2>3, <3>1, EndsSealed
    <3>2. CASE q # r
      BY <1>0, <1>1, <2>1, <2>3, <3>2
    <3> QED BY <3>1, <3>2
  <2>4. ASSUME clock = FirstSeal, NEW q \in ticked PROVE ~SealingFirst(q)'
    <3>1. CASE q # r
      BY <1>1, <2>1, <2>2, <2>4, <3>1 DEF SealingFirst
    <3>2. CASE q = r /\ DayCheck(r)
      <4>1. DaySealed(0)
        BY <1>1, <2>4
      <4>2. sealer[r].now = FirstSeal => sealer'[r].at = "prune"
        BY <1>0, <3>2, <4>1, DayChecked, FirstSealFacts
      <4> QED BY <2>1, <3>2, <4>2 DEF SealingFirst, SealingAt
    <3>3. CASE q = r /\ ~DayCheck(r)
      <4>1. sealer[r].at \in SealingAt
        BY <1>0, <1>3, <3>3, DayPlaces DEF DayPart, SealingAt
      <4> QED BY <1>1, <2>1, <2>4, <3>3, <4>1 DEF SealingFirst
    <3> QED BY <3>1, <3>2, <3>3
  <2>5. worm[0] = "complete" => worm'[0] = "complete"
    <3>1. CASE ExportLogs(r) \/ ExportManifest(r)
      <4>1. Running
        OBVIOUS
      <4> QED BY <1>0, <3>1, FirstWorm
    <3>2. CASE ~(ExportLogs(r) \/ ExportManifest(r))
      <4>1. worm' = worm
        BY <1>0, <1>3, <3>2, DailyMove DEF DayPart
      <4> QED BY <4>1
    <3> QED BY <3>1, <3>2
  <2> QED BY <1>0, <1>1, <2>1, <2>2, <2>3, <2>4, <2>5 DEF SealedInTime
<1>4. ASSUME NEW r \in Replicas, Prune(r) PROVE SealedInTime'
  <2>1. /\ UNCHANGED <<clock, worm>> /\ \A q \in Replicas \ {r} : sealer'[q] = sealer[q]
        /\ sealer[r].at = "prune" /\ sealer'[r].at = "idle"
        /\ ticked' = IF sealer[r].now = clock THEN ticked \cup {r} ELSE ticked
    BY <1>0, <1>4, PruneMove
  <2>2. Hour' = Hour /\ ticked \subseteq Replicas
    BY <1>0, <2>1 DEF Hour, TInv, Processes
  <2>3. clock = FirstSeal /\ ticked' # {} => DaySealed(0)
    BY <1>1, <2>1
  <2>4. ~SealingFirst(r)' /\ \A q \in Replicas \ {r} : SealingFirst(q)' <=> SealingFirst(q)
    BY <2>1 DEF SealingFirst, SealingAt
  <2>5. clock = FirstSeal => \A q \in ticked' : ~SealingFirst(q)'
    BY <1>1, <2>1, <2>2, <2>4
  <2> QED BY <1>0, <1>1, <2>1, <2>2, <2>3, <2>5 DEF SealedInTime
<1>5. CASE \A r \in Replicas : ~Sealer(r)
  <2>1. UNCHANGED <<sealer, daily, worm>> /\ up \subseteq up'
    BY <1>0, <1>5, OutsideMove
  <2>2. clock \in Int /\ Hour = HourOf(clock) /\ HoursPerDay \in Int /\ HoursPerDay >= 1
    BY <1>0 DEF TInv, IInv, ChainType, Clocks, Hour
  <2>3. CASE HalfHourPasses
    <3>1. clock' = clock + 1 /\ ticked' = {} /\ up \subseteq ticked
      BY <2>3 DEF HalfHourPasses
    <3>2. CASE Hour > HoursPerDay
      BY <1>0, <1>1, <2>1, <3>1, <3>2 DEF SealedInTime
    <3>3. CASE ~(Hour > HoursPerDay) /\ Hour' > HoursPerDay
      <4>1. clock = FirstSeal
        BY <2>2, <3>1, <3>3 DEF DayOver, FirstSeal, Hour, HourOf
      <4>2. ticked # {}
        BY <3>1 DEF SInv, InTime, First
      <4>3. DaySealed(0)
        BY <1>1, <4>1, <4>2
      <4>4. \A r \in Replicas : ~Exporting(r)
        <5> SUFFICES ASSUME NEW r \in Replicas, Exporting(r) PROVE FALSE
          OBVIOUS
        <5>1. r \in up /\ SealingFirst(r)
          BY DEF Exporting, Running, SealingFirst, SealingAt
        <5> QED BY <1>1, <3>1, <4>1, <5>1
      <4>5. worm[0] = "complete"
        BY <4>3, <4>4 DEF Exported
      <4> QED BY <1>0, <2>1, <3>1, <4>3, <4>5 DEF SealedInTime
    <3>4. CASE ~(Hour' > HoursPerDay)
      BY <1>0, <1>1, <2>1, <3>1, <3>4 DEF SealedInTime
    <3> QED BY <3>2, <3>3, <3>4
  <2>4. CASE SetBack
    <3>1. PICK c \in 0..clock-1 : clock' = c
      BY <2>4 DEF SetBack
    <3>2. ticked' = {}
      BY <2>4 DEF SetBack
    <3>3. Hour' = HourOf(c) /\ HourOf(c) \in Int /\ HourOf(clock) \in Int /\ HourOf(c) <= HourOf(clock)
      <4>1. c \in Int /\ c <= clock
        BY <2>2, <3>1
      <4>2. HourOf(c) <= HourOf(clock)
        BY <2>2, <4>1, HourOrder
      <4> QED BY <2>2, <3>1, <4>1, <4>2 DEF Hour, HourOf
    <3>4. Hour' > HoursPerDay => Hour > HoursPerDay
      BY <2>2, <3>3
    <3> QED BY <1>0, <1>1, <2>1, <3>2, <3>4 DEF SealedInTime
  <2>5. CASE UNCHANGED <<clock, ticked>>
    <3>1. Hour' = Hour
      BY <2>5 DEF Hour
    <3>2. \A q \in Replicas : SealingFirst(q)' <=> SealingFirst(q)
      BY <2>1 DEF SealingFirst
    <3>3. ticked \subseteq Replicas
      BY <1>0 DEF TInv, Processes
    <3> QED BY <1>0, <1>1, <2>1, <2>5, <3>1, <3>2, <3>3 DEF SealedInTime
  <2> QED BY <1>0, <1>5, <2>3, <2>4, <2>5, OutsideMove
<1>6. CASE \E r \in Replicas : Sealer(r)
  <2>1. \E r \in Replicas : HourPart(r) \/ DayPart(r) \/ Prune(r)
    BY <1>0, <1>6, SealerMove DEF HourPart, DayPart
  <2> QED BY <1>2, <1>3, <1>4, <2>1
<1> QED BY <1>5, <1>6

\* The inductive invariant of the first day.
FInv == SInv /\ FirstInv

\* At the beginning there is nothing that could be wrong.
LEMMA InitFInv == Init => FInv
<1> SUFFICES ASSUME Init PROVE FInv
  OBVIOUS
<1>1. Hashed /\ FirstRows
  <2>1. log = <<>> /\ \A r \in Replicas : listener[r].at = "idle" /\ listener[r].ts = 0
    BY DEF Init, Listening
  <2>2. 0 \in FirstDay
    BY DEF FirstDay
  <2> QED BY <2>1, <2>2 DEF Hashed, FirstRows
<1>2. /\ \A r \in Replicas : sealer[r].at = "idle"
      /\ ToSet(hourly) = {} /\ ToSet(daily) = {} /\ ~DaySealed(0) /\ log = <<>>
  BY DEF Init, Waiting, ToSet, DaySealed
<1>3. worm[0] = "none"
  <2>1. Day(MaxHour) \in Nat
    BY DayFacts
  <2> QED BY <2>1 DEF Init, Days
<1>4. Running /\ InTurn /\ Linked
  BY <1>2 DEF Running, InTurn, Linked, SealingAt
<1>5. DaySeals /\ Exported
  BY <1>2, <1>3 DEF DaySeals, Exported, Exporting
<1>6. SealedInTime
  BY <1>2 DEF SealedInTime, Recorded
<1> QED BY InitSInv, <1>1, <1>4, <1>5, <1>6 DEF FInv, FirstInv, FirstOK

\* Every step keeps what is known of the first day.
LEMMA NextFInv == ASSUME FInv, [Next]_vars PROVE FInv'
<1>1. SInv /\ SInv' /\ TInv
  BY NextSInv DEF FInv, SInv
<1> SUFFICES ASSUME First' PROVE FirstOK'
  BY <1>1 DEF FInv, FirstInv
<1>2. First /\ FirstOK /\ faults' = 0
  BY <1>1, FirstBefore DEF FInv, FirstInv, First
<1>3. Hashed' /\ FirstRows' /\ Running' /\ InTurn'
  BY <1>1, <1>2, HashedStep, FirstRowsStep, RunningStep, InTurnStep DEF FirstOK
<1>4. Linked' /\ DaySeals'
  BY <1>1, <1>2, LinkedStep, DaySealsStep DEF FirstOK
<1>5. Exported' /\ SealedInTime'
  BY <1>1, <1>2, ExportedStep, SealedInTimeStep DEF FirstOK
<1> QED BY <1>3, <1>4, <1>5 DEF FirstOK

\* The records of the first day are a part of the chain from its beginning.
LEMMA FirstChainHolds ==
  ASSUME SInv, First, Hashed, FirstRows
  PROVE  ChainHolds(BundleLogs(0, HoursPerDay))
<1> DEFINE rows == BundleLogs(0, HoursPerDay)
<1>1. DOMAIN log = 1..Len(log) /\ Len(log) \in Nat /\ ChainLinks /\ pruned = {}
  BY DEF SInv, TInv, IInv, ChainType, First
<1>2. rows = {i \in DOMAIN log : log[i].ts \in FirstDay}
  BY <1>1 DEF BundleLogs, Rows, FirstDay
<1> SUFFICES ASSUME NEW i \in rows
             PROVE  log[i].prev = LastOf({j \in rows : j < i}) /\ ComplianceHash(log[i].prev, log[i].ts) = log[i].hash
  <2> HIDE DEF rows
  <2>1. \A i \in rows : LET e == log[i]
                            prev == LastOf({j \in rows : j < i})
                        IN  e.prev = prev /\ ComplianceHash(prev, e.ts) = e.hash
    OBVIOUS
  <2> QED BY <2>1 DEF ChainHolds, rows
<1> HIDE DEF rows
<1>3. i \in 1..Len(log) /\ log[i].ts \in FirstDay /\ log # <<>>
  BY <1>1, <1>2
<1>4. log[i].hash = ComplianceHash(log[i].prev, log[i].ts)
  BY <1>2 DEF Hashed
<1> DEFINE before == {j \in rows : j < i}
<1>5. CASE i = 1
  <2>1. before = {}
    BY <1>1, <1>2, <1>5
  <2>2. log[i].prev = <<>>
    BY <1>3, <1>5 DEF Hashed
  <2> QED BY <1>4, <2>1, <2>2 DEF LastOf
<1>6. CASE i # 1
  <2>1. i - 1 \in before
    <3>1. i - 1 \in DOMAIN log /\ i \in DOMAIN log /\ i - 1 < i
      BY <1>1, <1>3, <1>6
    <3>2. log[i - 1].ts \in FirstDay
      BY <1>3, <3>1 DEF FirstRows
    <3> QED BY <1>2, <3>1, <3>2
  <2>2. \A j \in before : j \in Int /\ i - 1 >= j
    BY <1>1, <1>2, <1>3
  <2>3. \A x \in before : (\A y \in before : x >= y) => x = i - 1
    BY <2>1, <2>2
  <2> HIDE DEF before
  <2>4. Max(before) = i - 1
    BY <2>1, <2>2, <2>3 DEF Max
  <2>5. LastOf(before) = log[i - 1].hash
    BY <2>1, <2>4 DEF LastOf
  <2>6. log[i - 1 + 1].prev = log[i - 1].hash
    <3>1. i - 1 \in DOMAIN log /\ i - 1 + 1 \in DOMAIN log
      BY <1>1, <1>3, <1>6
    <3> QED BY <1>1, <3>1 DEF ChainLinks
  <2>7. i - 1 + 1 = i
    BY <1>3
  <2> QED BY <1>4, <2>5, <2>6, <2>7 DEF before
<1> QED BY <1>5, <1>6

\* The checkpoints of the first day, in their order.
LEMMA FirstIds ==
  ASSUME SInv, First
  PROVE  LET ids == Between(0, HoursPerDay)
         IN  /\ Len(ids) \in Nat /\ DOMAIN ids = 1..Len(ids)
             /\ \A n \in DOMAIN ids : ids[n] \in DOMAIN hourly /\ hourly[ids[n]].hour \in FirstDay
             /\ \A i \in DOMAIN hourly : hourly[i].hour \in FirstDay => \E n \in DOMAIN ids : ids[n] = i
             /\ \A m, n \in DOMAIN ids : m < n => hourly[ids[m]].hour < hourly[ids[n]].hour
<1> DEFINE ids == Between(0, HoursPerDay)
           Ids == {i \in DOMAIN hourly : hourly[i].hour \in 0..HoursPerDay-1}
<1>1. DOMAIN hourly = 1..Len(hourly) /\ Len(hourly) \in Nat /\ \A i \in DOMAIN hourly : hourly[i].hour \in Int
  BY DEF SInv, TInv, Tables, ToSet, Hours
<1>2. /\ ids \in Bijection(1..Len(ids), Ids) /\ Len(ids) \in Nat
      /\ \A m, n \in DOMAIN ids : m < n => hourly[ids[m]].hour <= hourly[ids[n]].hour
  BY <1>1, BetweenFacts
<1>3. Ids = {i \in DOMAIN hourly : hourly[i].hour \in FirstDay}
  BY DEF FirstDay
<1> HIDE DEF ids, Ids
<1>4. DOMAIN ids = 1..Len(ids) /\ \A n \in DOMAIN ids : ids[n] \in Ids
  BY <1>2 DEF Bijection, Injection
<1>5. \A i \in Ids : \E n \in DOMAIN ids : ids[n] = i
  BY <1>2, <1>4 DEF Bijection, Surjection
<1>6. ASSUME NEW m \in DOMAIN ids, NEW n \in DOMAIN ids, m < n PROVE hourly[ids[m]].hour < hourly[ids[n]].hour
  <2>1. ids[m] # ids[n]
    <3>1. m # n
      BY <1>2, <1>4, <1>6
    <3> QED BY <1>2, <1>4, <3>1 DEF Bijection, Injection, IsInjective
  <2>2. hourly[ids[m]].hour # hourly[ids[n]].hour
    BY <1>3, <1>4, <2>1 DEF First, SealedOnce
  <2>3. hourly[ids[m]].hour <= hourly[ids[n]].hour
    BY <1>2, <1>6
  <2>4. hourly[ids[m]].hour \in Int /\ hourly[ids[n]].hour \in Int
    BY <1>1, <1>3, <1>4
  <2> QED BY <2>2, <2>3, <2>4
<1> QED BY <1>2, <1>3, <1>4, <1>5, <1>6 DEF ids

\* Each of them holds the rows of its hour and is linked to the one before it.
LEMMA FirstCheckpointsHold ==
  ASSUME SInv, First, Linked
  PROVE  CheckpointsHold(BundleLogs(0, HoursPerDay), Between(0, HoursPerDay))
<1> PICK ids : ids = Between(0, HoursPerDay)
  OBVIOUS
<1> PICK rows : rows = BundleLogs(0, HoursPerDay)
  OBVIOUS
<1>1. /\ Len(ids) \in Nat /\ DOMAIN ids = 1..Len(ids)
      /\ \A n \in DOMAIN ids : ids[n] \in DOMAIN hourly /\ hourly[ids[n]].hour \in FirstDay
      /\ \A i \in DOMAIN hourly : hourly[i].hour \in FirstDay => \E n \in DOMAIN ids : ids[n] = i
      /\ \A m, n \in DOMAIN ids : m < n => hourly[ids[m]].hour < hourly[ids[n]].hour
  BY FirstIds
<1> SUFFICES ASSUME NEW n \in DOMAIN ids
             PROVE  /\ HourHolds(rows, hourly[ids[n]])
                    /\ hourly[ids[n]].prev = IF n = 1 THEN <<>> ELSE hourly[ids[n - 1]].root
  BY DEF CheckpointsHold
<1> PICK cp : cp = hourly[ids[n]]
  OBVIOUS
<1>2. cp \in ToSet(hourly) /\ cp.hour \in FirstDay /\ cp.hour \in Int
  BY <1>1 DEF ToSet, FirstDay
<1>3. HourHolds(rows, cp)
  <2>1. Untouched(cp.hour)
    BY <1>2 DEF Untouched, First
  <2>2. HourHolds(Rows, cp)
    BY <1>2, <2>1 DEF SInv, CheckpointsOK
  <2>3. Found(rows, cp.hour) = Found(Rows, cp.hour)
    BY <1>2 DEF Found, BundleLogs, FirstDay
  <2>4. LeavesOf(rows, cp.hour) = LeavesOf(Rows, cp.hour)
    BY <2>3 DEF LeavesOf
  <2> QED BY <2>2, <2>4 DEF HourHolds
<1>4. LinkOK(cp.hour, cp.prev)
  BY <1>2 DEF Linked
\* The earlier checkpoints are those that come before it in the list.
<1>5. ASSUME NEW c \in ToSet(hourly), c.hour < cp.hour
      PROVE  \E m \in DOMAIN ids : m < n /\ c = hourly[ids[m]]
  <2>1. PICK i \in DOMAIN hourly : c = hourly[i]
    BY DEF ToSet
  <2>2. c.hour \in Nat
    BY DEF SInv, TInv, Tables, Hours
  <2>3. c.hour \in FirstDay
    BY <1>2, <1>5, <2>2 DEF FirstDay
  <2>4. PICK m \in DOMAIN ids : ids[m] = i
    BY <1>1, <2>1, <2>3
  <2>5. m < n
    <3> SUFFICES ASSUME n < m \/ n = m PROVE FALSE
      BY <1>1
    <3>1. n < m => cp.hour < c.hour
      BY <1>1, <2>1, <2>4
    <3>2. n = m => cp.hour = c.hour
      BY <2>1, <2>4
    <3> QED BY <1>2, <1>5, <2>2, <3>1, <3>2
  <2> QED BY <2>1, <2>4, <2>5
<1>6. CASE n = 1
  <2>1. \A c \in ToSet(hourly) : ~(c.hour < cp.hour)
    <3> SUFFICES ASSUME NEW c \in ToSet(hourly), c.hour < cp.hour PROVE FALSE
      OBVIOUS
    <3>1. PICK m \in DOMAIN ids : m < n
      BY <1>5
    <3> QED BY <1>1, <1>6, <3>1
  <2>2. cp.prev = <<>>
    BY <1>4, <2>1 DEF LinkOK
  <2> QED BY <1>3, <1>6, <2>2
<1>7. CASE n # 1
  <2> DEFINE last == hourly[ids[n - 1]]
  <2>1. n - 1 \in DOMAIN ids /\ n - 1 < n /\ n \in Int
    BY <1>1, <1>7
  <2>2. last \in ToSet(hourly) /\ last.hour < cp.hour /\ last.hour \in Int
    BY <1>1, <2>1 DEF ToSet, FirstDay
  <2>3. PICK c \in ToSet(hourly) : /\ c.hour < cp.hour /\ cp.prev = c.root
                                   /\ \A d \in ToSet(hourly) : d.hour < cp.hour => d.hour <= c.hour
    <3>1. ~(last.hour >= cp.hour)
      BY <1>2, <2>2
    <3> HIDE DEF last
    <3> QED BY <1>4, <2>2, <3>1 DEF LinkOK
  <2>4. PICK m \in DOMAIN ids : m < n /\ c = hourly[ids[m]]
    BY <1>5, <2>3
  <2>5. m = n - 1
    <3> SUFFICES ASSUME m < n - 1 PROVE FALSE
      BY <1>1, <2>1, <2>4
    <3>1. c.hour < last.hour
      BY <1>1, <2>1, <2>4
    <3>2. last.hour <= c.hour
      BY <2>2, <2>3
    <3>3. c.hour \in Int
      BY DEF SInv, TInv, Tables, Hours
    <3> HIDE DEF last
    <3> QED BY <2>2, <3>1, <3>2, <3>3
  <2> QED BY <1>3, <1>7, <2>3, <2>4, <2>5
<1> QED BY <1>6, <1>7

\* The seal of the first day is the only one that such a bundle has to match.
LEMMA FirstSealHolds ==
  ASSUME SInv, First, DaySeals
  PROVE  SealsHold(Between(0, HoursPerDay), 0, HoursPerDay)
<1> PICK ids : ids = Between(0, HoursPerDay)
  OBVIOUS
<1>1. /\ Len(ids) \in Nat /\ DOMAIN ids = 1..Len(ids)
      /\ \A n \in DOMAIN ids : ids[n] \in DOMAIN hourly /\ hourly[ids[n]].hour \in FirstDay
  BY FirstIds
<1>2. \A h \in FirstDay : Day(h) = 0
  BY DEF FirstDay, Day
<1>3. Len(FirstRoots) = Len(ids) /\ FirstRoots = RootsOf(ids)
  <2>1. FirstRoots = [n \in 1..Len(ids) |-> hourly[ids[n]].root]
    BY <1>1 DEF FirstRoots, RootsOf
  <2>2. Len([n \in 1..Len(ids) |-> hourly[ids[n]].root]) = Len(ids)
    BY <1>1
  <2> QED BY <2>1, <2>2 DEF FirstRoots
<1>4. ASSUME NEW n \in DOMAIN daily, DayStart(daily[n].day) \in 0..HoursPerDay-1
      PROVE  /\ daily[n].root = MerkleRoot(RootsOf(ids))
             /\ daily[n].hours = Cardinality({m \in DOMAIN ids : Day(hourly[ids[m]].hour) = daily[n].day})
  <2> PICK cp : cp = daily[n]
    OBVIOUS
  <2>1. cp \in ToSet(daily) /\ cp.day \in Nat
    BY DEF SInv, TInv, Tables, ToSet, Days
  <2>2. cp.day = 0
    <3> SUFFICES ASSUME cp.day >= 1 PROVE FALSE
      BY <2>1
    <3>1. cp.day * HoursPerDay >= 1 * HoursPerDay
      BY <2>1
    <3> QED BY <1>4, <2>1, <3>1 DEF DayStart
  <2>3. cp.root = MerkleRoot(FirstRoots) /\ cp.hours = Len(FirstRoots)
    BY <2>1, <2>2 DEF DaySeals
  <2>4. {m \in DOMAIN ids : Day(hourly[ids[m]].hour) = cp.day} = 1..Len(ids)
    BY <1>1, <1>2, <2>2
  <2>5. Cardinality(1..Len(ids)) = Len(ids)
    <3>1. PICK k \in Nat : k = Len(ids)
      BY <1>1
    <3>2. Cardinality(1..k) = IF 1 > k THEN 0 ELSE k - 1 + 1
      BY FS_Interval
    <3>3. Cardinality(1..k) = k
      BY <3>2
    <3> QED BY <3>1, <3>3
  <2> QED BY <1>3, <2>3, <2>4, <2>5
<1> QED BY <1>4 DEF SealsHold

\* The evidence of the first day follows.
LEMMA FInvHolds == FInv => FirstDayVerifies
<1> SUFFICES ASSUME FInv, First, Hour > HoursPerDay
             PROVE  /\ VerifyBundle(0, HoursPerDay)
                    /\ Recorded => DaySealed(0) /\ worm[0] = "complete"
  BY DEF FirstDayVerifies, First, Recorded
<1>1. SInv /\ FirstOK
  BY DEF FInv, FirstInv
<1>2. ChainHolds(BundleLogs(0, HoursPerDay))
  BY <1>1, FirstChainHolds DEF FirstOK
<1>3. CheckpointsHold(BundleLogs(0, HoursPerDay), Between(0, HoursPerDay))
  BY <1>1, FirstCheckpointsHold DEF FirstOK
<1>4. SealsHold(Between(0, HoursPerDay), 0, HoursPerDay)
  BY <1>1, FirstSealHolds DEF FirstOK
<1>5. Recorded => DaySealed(0) /\ worm[0] = "complete"
  BY <1>1 DEF FirstOK, SealedInTime
<1> QED BY <1>2, <1>3, <1>4, <1>5 DEF VerifyBundle

\* The evidence of the first day verifies once the day is sealed, and it is sealed
\* and exported within the first hour of the next: its chain is whole, its
\* checkpoints hold their hours and follow each other, and its seal matches them,
\* as long as nothing has failed, been deleted, come late or been sealed twice
\* (sealer.go:155-238, verify.go:101-210).
THEOREM EvidenceVerifies == Spec => []FirstDayVerifies
BY InitFInv, NextFInv, FInvHolds, PTL DEF Spec

=============================================================================
