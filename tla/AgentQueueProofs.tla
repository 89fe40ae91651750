--------------------------- MODULE AgentQueueProofs ---------------------------
(***************************************************************************)
(* Proofs about AgentQueue, for any pool of hubs, any cap and any number   *)
(* of faults: types, the bound and the order of the queue, and that what   *)
(* the agent loses is dropped at the cap and counted, or was in the file   *)
(* while a rewrite of it was cut short.                                    *)
(***************************************************************************)
EXTENDS AgentQueue, SequenceTheorems, FiniteSetTheorems, TLAPS

Active == {"drain", "drained", "post", "queued"}

\* What the loop holds at each place.
Shape ==
  /\ pc \in {"idle", "down"} => todo = <<>> /\ queue = <<>>
  /\ pc = "drain" => todo # <<>>
  /\ pc \in {"drained", "post", "queued"} => todo = <<>>
  /\ pc \in Active => batch = clock /\ clock >= 1
  /\ trunc => Saving /\ disk = <<>>

Bounded ==
  /\ Len(disk) <= MaxQueuedBatches
  /\ Len(queue) + Len(todo) <= MaxQueuedBatches

\* The order of the queue, in its parts.
Sorted ==
  /\ InOrder(disk) /\ InOrder(queue) /\ InOrder(todo)
  /\ \A x \in ToSet(queue), y \in ToSet(todo) : x <= y

\* Everything held or dropped was collected.
Collected == overflowed \cup ToSet(disk) \cup ToSet(queue) \cup ToSet(todo) \subseteq 1..clock

\* While Send runs, whatever is in the file was delivered or dropped, or is in
\* memory: the file may be rewritten.
FileInHand ==
  pc \in Active =>
    ToSet(disk) \subseteq received \cup overflowed \cup ToSet(queue) \cup ToSet(todo)

\* What was saved is on disk, or its rewriting is under way.
SavedOnDisk ==
  ~torn => saved \subseteq received \cup overflowed \cup ToSet(disk)
                             \cup (IF trunc THEN ToSet(queue) ELSE {})

\* As long as nothing has failed: LossIsCounted without the cardinality of what is
\* lost, for which that of what was dropped stands, and the file that Send leaves
\* to the new batch holds the queue.
Accounted ==
  faults = 0 =>
    /\ 1..clock \subseteq received \cup InMemory \cup ToSet(disk) \cup overflowed
    /\ pc = "post" => disk = queue
    /\ Cardinality(overflowed) <= dropped
    /\ \A d \in overflowed, b \in InMemory \cup ToSet(disk) : d <= b

IInv ==
  /\ TypeOK /\ Shape /\ Bounded /\ Sorted /\ Collected
  /\ FileInHand /\ SavedOnDisk /\ Accounted

-----------------------------------------------------------------------------
(* Sequences of batches.                                                   *)

LEMMA BatchIsNat == \A b \in Batch : b \in Nat /\ b \in 0..Horizon
BY QueueAssumption DEF Batch

\* An element has a position.
LEMMA InToSet ==
  ASSUME NEW s \in Seq(Batch), NEW x
  PROVE  x \in ToSet(s) <=> \E i \in 1..Len(s) : s[i] = x
BY DEF ToSet

LEMMA EmptyFacts ==
  /\ <<>> \in Seq(Batch) /\ Len(<<>>) = 0 /\ ToSet(<<>>) = {} /\ InOrder(<<>>)
BY DEF ToSet, InOrder

\* Appending.
LEMMA AppendFacts ==
  ASSUME NEW s \in Seq(Batch), NEW e \in Batch
  PROVE  /\ Append(s, e) \in Seq(Batch) /\ Len(Append(s, e)) = Len(s) + 1
         /\ ToSet(Append(s, e)) = ToSet(s) \cup {e}
         /\ InOrder(s) /\ (\A x \in ToSet(s) : x <= e) => InOrder(Append(s, e))
<1> DEFINE t == Append(s, e)
<1>1. /\ t \in Seq(Batch) /\ Len(t) = Len(s) + 1 /\ Len(s) \in Nat
      /\ \A i \in 1..Len(s) : t[i] = s[i]
      /\ t[Len(s) + 1] = e
  BY AppendProperties
<1> HIDE DEF t
<1>2. ToSet(t) = ToSet(s) \cup {e}
  <2>1. ASSUME NEW x \in ToSet(t) PROVE x \in ToSet(s) \cup {e}
    <3>1. PICK i \in 1..Len(s) + 1 : t[i] = x
      BY <1>1, <2>1, InToSet
    <3>2. CASE i \in 1..Len(s)
      BY <1>1, <3>1, <3>2, InToSet
    <3>3. CASE i = Len(s) + 1
      BY <1>1, <3>1, <3>3
    <3> QED BY <1>1, <3>2, <3>3
  <2>2. ASSUME NEW x \in ToSet(s) PROVE x \in ToSet(t)
    <3>1. PICK i \in 1..Len(s) : s[i] = x
      BY <2>2, InToSet
    <3>2. i \in 1..Len(t) /\ t[i] = x
      BY <1>1, <3>1
    <3> QED BY <1>1, <3>2, InToSet
  <2>3. e \in ToSet(t)
    <3>1. Len(t) \in 1..Len(t) /\ t[Len(t)] = e
      BY <1>1
    <3> QED BY <1>1, <3>1, InToSet
  <2> QED BY <2>1, <2>2, <2>3
<1>3. ASSUME InOrder(s), \A x \in ToSet(s) : x <= e PROVE InOrder(t)
  <2> SUFFICES ASSUME NEW i \in 1..Len(t), NEW j \in 1..Len(t), i < j PROVE t[i] <= t[j]
    BY <1>1 DEF InOrder
  <2>1. CASE j \in 1..Len(s)
    <3>1. i \in 1..Len(s)
      BY <2>1
    <3> QED BY <1>1, <1>3, <2>1, <3>1 DEF InOrder
  <2>2. CASE j = Len(s) + 1
    <3>1. i \in 1..Len(s) /\ s[i] \in ToSet(s)
      BY <1>1, <2>2, InToSet
    <3> QED BY <1>1, <1>3, <2>2, <3>1
  <2> QED BY <1>1, <2>1, <2>2
<1> QED BY <1>1, <1>2, <1>3 DEF t

\* Taking the first.
LEMMA TailFacts ==
  ASSUME NEW s \in Seq(Batch), s # <<>>
  PROVE  /\ Head(s) \in Batch /\ Head(s) \in ToSet(s)
         /\ Tail(s) \in Seq(Batch) /\ Len(Tail(s)) = Len(s) - 1
         /\ ToSet(s) = {Head(s)} \cup ToSet(Tail(s))
         /\ InOrder(s) => InOrder(Tail(s)) /\ \A x \in ToSet(Tail(s)) : Head(s) <= x
<1> DEFINE t == Tail(s)
<1>1. /\ Head(s) \in Batch /\ t \in Seq(Batch) /\ Len(t) = Len(s) - 1 /\ Len(s) \in Nat \ {0}
      /\ \A i \in 1..Len(t) : t[i] = s[i + 1]
      /\ Head(s) = s[1]
  BY HeadTailProperties, EmptySeq
<1> HIDE DEF t
<1>2. ToSet(s) = {Head(s)} \cup ToSet(t)
  <2>1. ASSUME NEW x \in ToSet(s) PROVE x = Head(s) \/ x \in ToSet(t)
    <3>1. PICK i \in 1..Len(s) : s[i] = x
      BY <2>1, InToSet
    <3>2. CASE i = 1
      BY <1>1, <3>1, <3>2
    <3>3. CASE i # 1
      <4>1. i - 1 \in 1..Len(t) /\ t[i - 1] = x
        BY <1>1, <3>1, <3>3
      <4> QED BY <1>1, <4>1, InToSet
    <3> QED BY <3>2, <3>3
  <2>2. ASSUME NEW x \in ToSet(t) PROVE x \in ToSet(s)
    <3>1. PICK i \in 1..Len(t) : t[i] = x
      BY <1>1, <2>2, InToSet
    <3>2. i + 1 \in 1..Len(s) /\ s[i + 1] = x
      BY <1>1, <3>1
    <3> QED BY <3>2, InToSet
  <2>3. Head(s) \in ToSet(s)
    <3>1. 1 \in 1..Len(s)
      BY <1>1
    <3> QED BY <1>1, <3>1, InToSet
  <2> QED BY <2>1, <2>2, <2>3
<1>3. ASSUME InOrder(s) PROVE InOrder(t) /\ \A x \in ToSet(t) : Head(s) <= x
  <2>1. InOrder(t)
    <3> SUFFICES ASSUME NEW i \in 1..Len(t), NEW j \in 1..Len(t), i < j PROVE t[i] <= t[j]
      BY <1>1 DEF InOrder
    <3>1. i + 1 \in 1..Len(s) /\ j + 1 \in 1..Len(s) /\ i + 1 < j + 1
      BY <1>1
    <3>2. s[i + 1] <= s[j + 1]
      BY <1>3, <3>1 DEF InOrder
    <3>3. t[i] = s[i + 1] /\ t[j] = s[j + 1]
      BY <1>1
    <3> QED BY <3>2, <3>3
  <2>2. ASSUME NEW x \in ToSet(t) PROVE Head(s) <= x
    <3>1. PICK i \in 1..Len(t) : t[i] = x
      BY <1>1, <2>2, InToSet
    <3>2. i + 1 \in 1..Len(s) /\ 1 \in 1..Len(s) /\ 1 < i + 1
      BY <1>1
    <3> QED BY <1>1, <1>3, <3>1, <3>2 DEF InOrder
  <2> QED BY <2>1, <2>2
<1> QED BY <1>1, <1>2, <1>3 DEF t

\* A part of a sequence.
LEMMA PartFacts ==
  ASSUME NEW s \in Seq(Batch), NEW m \in 1..Len(s) + 1, NEW n \in m - 1..Len(s)
  PROVE  /\ SubSeq(s, m, n) \in Seq(Batch) /\ Len(SubSeq(s, m, n)) = n - m + 1
         /\ ToSet(SubSeq(s, m, n)) = {s[i] : i \in m..n}
         /\ ToSet(SubSeq(s, m, n)) \subseteq ToSet(s)
         /\ InOrder(s) => InOrder(SubSeq(s, m, n))
<1> DEFINE t == SubSeq(s, m, n)
<1>1. Len(s) \in Nat /\ m \in Int /\ n \in Int /\ \A i \in m..n : i \in 1..Len(s) /\ s[i] \in Batch
  BY ElementOfSeq
<1>2. /\ t \in Seq(Batch) /\ Len(t) = n - m + 1
      /\ \A i \in 1..Len(t) : t[i] = s[m + i - 1]
  BY <1>1, SubSeqProperties
<1> HIDE DEF t
<1>3. ToSet(t) = {s[i] : i \in m..n}
  <2>1. ASSUME NEW x \in ToSet(t) PROVE x \in {s[i] : i \in m..n}
    <3>1. PICK i \in 1..Len(t) : t[i] = x
      BY <1>2, <2>1, InToSet
    <3>2. m + i - 1 \in m..n
      BY <1>1, <1>2, <3>1
    <3> QED BY <1>2, <3>1, <3>2
  <2>2. ASSUME NEW i \in m..n PROVE s[i] \in ToSet(t)
    <3>1. i - m + 1 \in 1..Len(t) /\ m + (i - m + 1) - 1 = i
      BY <1>1, <1>2
    <3>2. t[i - m + 1] = s[i]
      BY <1>2, <3>1
    <3> QED BY <1>2, <3>1, <3>2, InToSet
  <2> QED BY <2>1, <2>2
<1>4. ToSet(t) \subseteq ToSet(s)
  BY <1>1, <1>3, InToSet
<1>5. ASSUME InOrder(s) PROVE InOrder(t)
  <2> SUFFICES ASSUME NEW i \in 1..Len(t), NEW j \in 1..Len(t), i < j PROVE t[i] <= t[j]
    BY <1>2 DEF InOrder
  <2>1. /\ m + i - 1 \in 1..Len(s) /\ m + j - 1 \in 1..Len(s) /\ m + i - 1 < m + j - 1
    BY <1>1, <1>2
  <2>2. DOMAIN s = 1..Len(s)
    BY LenProperties
  <2>3. s[m + i - 1] <= s[m + j - 1]
    BY <1>5, <2>1, <2>2 DEF InOrder
  <2>4. t[i] = s[m + i - 1] /\ t[j] = s[m + j - 1]
    BY <1>2
  <2> QED BY <2>3, <2>4
<1> QED BY <1>2, <1>3, <1>4, <1>5 DEF t

-----------------------------------------------------------------------------
(* What the requests and the cap do.                                       *)

\* One request leaves well-typed state, forgets nothing the hub has, and brings
\* the batch to it unless every URL failed.
LEMMA PostFacts ==
  ASSUME TypeOK, NEW b \in Batch, NEW k \in 0..Pool, NEW applied \in BOOLEAN,
         postBatch(b, k, applied)
  PROVE  /\ hubIdx' \in 0..Pool-1 /\ connLatest' \in 0..Horizon
         /\ received \subseteq received' /\ received' \subseteq received \cup {b}
         /\ received' \subseteq Batch
         /\ k < Pool => b \in received'
<1>1. HubAfter(k) \in 0..Pool-1
  BY QueueAssumption DEF HubAfter, TypeOK
<1>2. received \subseteq Batch /\ hubIdx \in 0..Pool-1 /\ connLatest \in 0..Horizon /\ b \in 0..Horizon
  BY BatchIsNat DEF TypeOK
<1>3. \/ received' = received \cup {b} /\ connLatest' = b
      \/ ~(k < Pool) /\ received' = received /\ connLatest' = connLatest
  BY DEF postBatch, hub
<1>4. hubIdx' \in 0..Pool-1
  BY <1>1, <1>2 DEF postBatch
<1> QED BY <1>2, <1>3, <1>4

\* The cap keeps the newest entries; at most one entry goes, the first.
LEMMA CapFacts ==
  ASSUME NEW q \in Seq(Batch), q # <<>>, Len(q) <= MaxQueuedBatches + 1, InOrder(q)
  PROVE  /\ Capped(q) \in Seq(Batch) /\ Len(Capped(q)) <= MaxQueuedBatches
         /\ InOrder(Capped(q)) /\ ToSet(Capped(q)) \subseteq ToSet(q)
         /\ Overflow(q) \in {0, 1}
         /\ Overflow(q) = 0 => Capped(q) = q
         /\ Overflow(q) = 1 => ToSet(q) \subseteq ToSet(Capped(q)) \cup {Head(q)}
         /\ Head(q) \in Batch /\ \A x \in ToSet(q) : Head(q) <= x
<1>1. Len(q) \in Nat \ {0} /\ MaxQueuedBatches \in Nat \ {0}
  BY EmptySeq, QueueAssumption
<1>2. Overflow(q) \in {0, 1} /\ Len(q) - Overflow(q) <= MaxQueuedBatches
  BY <1>1 DEF Overflow
<1>3. Overflow(q) + 1 \in 1..Len(q) + 1 /\ Len(q) \in Overflow(q)..Len(q)
  BY <1>1, <1>2
<1>4. /\ Capped(q) \in Seq(Batch) /\ Len(Capped(q)) = Len(q) - Overflow(q)
      /\ ToSet(Capped(q)) = {q[i] : i \in Overflow(q) + 1..Len(q)}
      /\ ToSet(Capped(q)) \subseteq ToSet(q)
      /\ InOrder(Capped(q))
  <2>1. Len(q) \in (Overflow(q) + 1) - 1..Len(q)
    BY <1>2, <1>3
  <2>2. /\ Capped(q) \in Seq(Batch) /\ Len(Capped(q)) = Len(q) - (Overflow(q) + 1) + 1
        /\ ToSet(Capped(q)) = {q[i] : i \in Overflow(q) + 1..Len(q)}
        /\ ToSet(Capped(q)) \subseteq ToSet(q)
        /\ InOrder(Capped(q))
    BY <1>3, <2>1, PartFacts DEF Capped
  <2> QED BY <1>1, <1>2, <2>2
<1>5. ASSUME Overflow(q) = 0 PROVE Capped(q) = q
  <2>1. Capped(q) = SubSeq(q, 1, Len(q))
    BY <1>5 DEF Capped
  <2> QED BY <2>1, SubSeqFull
<1>6. Head(q) = q[1] /\ Head(q) \in Batch
  BY HeadTailProperties
<1>7. ASSUME NEW x \in ToSet(q)
      PROVE  Head(q) <= x /\ (Overflow(q) = 1 => x \in ToSet(Capped(q)) \cup {Head(q)})
  <2>1. PICK i \in 1..Len(q) : q[i] = x
    BY <1>7, InToSet
  <2>2. CASE i = 1
    <3>1. x = Head(q)
      BY <1>6, <2>1, <2>2
    <3>2. Head(q) \in Nat
      BY <1>6, BatchIsNat
    <3> QED BY <3>1, <3>2
  <2>3. CASE i # 1
    <3>1. i \in 2..Len(q) /\ 1 < i /\ 1 \in 1..Len(q)
      BY <1>1, <2>3
    <3>2. Head(q) <= x
      BY <1>6, <2>1, <3>1, LenProperties DEF InOrder
    <3> QED BY <1>4, <2>1, <3>1, <3>2
  <2> QED BY <2>2, <2>3
<1> QED BY <1>1, <1>2, <1>4, <1>5, <1>6, <1>7

\* While Send runs its batch is the newest one.
LEMMA BatchFacts ==
  ASSUME TypeOK, Shape, pc \in Active
  PROVE  batch = clock /\ batch \in Batch /\ clock \in 1..clock
BY QueueAssumption DEF TypeOK, Shape, Batch

-----------------------------------------------------------------------------
(* The invariant is inductive: one lemma per action.                       *)

LEMMA InitInv == Init => IInv
<1> SUFFICES ASSUME Init PROVE IInv
  OBVIOUS
<1>1. Cardinality({}) = 0
  BY FS_EmptySet
<1>2. TypeOK
  <2>1. 0 \in 0..Pool-1 /\ 0 \in 0..Horizon /\ 0 \in 0..MaxFaults
    BY QueueAssumption
  <2>2. todo \in Seq(Batch) /\ queue \in Seq(Batch) /\ disk \in Seq(Batch)
    BY EmptyFacts DEF Init
  <2> QED BY <2>1, <2>2 DEF Init, TypeOK
<1>3. /\ pc = "idle" /\ clock = 0 /\ todo = <<>> /\ queue = <<>> /\ disk = <<>> /\ trunc = FALSE
      /\ saved = {} /\ overflowed = {} /\ dropped = 0
  BY DEF Init
<1>4. Shape /\ Bounded /\ Sorted
  BY <1>3, EmptyFacts, QueueAssumption DEF Shape, Bounded, Sorted, Active
<1>5. Collected /\ FileInHand /\ SavedOnDisk
  BY <1>3, EmptyFacts DEF Collected, FileInHand, SavedOnDisk, Active
<1>6. Accounted
  <2>1. 1..clock = {}
    BY <1>3
  <2> QED BY <1>1, <1>3, <2>1 DEF Accounted
<1> QED BY <1>2, <1>4, <1>5, <1>6 DEF IInv

LEMMA CollectInv == IInv /\ Collect => IInv'
<1> SUFFICES ASSUME IInv, Collect PROVE IInv'
  OBVIOUS
<1> USE DEF Collect
<1>1. /\ todo' = disk /\ queue' = <<>> /\ disk' = disk /\ batch' = clock'
      /\ pc' \in {"drain", "post"} /\ (pc' = "post" <=> disk = <<>>) /\ pc = "idle"
      /\ clock' \in 1..Horizon /\ clock' >= clock /\ clock \in 0..Horizon
      /\ 1..clock' \subseteq 1..clock \cup {clock'} /\ 1..clock \subseteq 1..clock'
      /\ UNCHANGED <<trunc, dropped, hubIdx, stable, received, connLatest, faults, saved, overflowed, torn>>
      /\ todo = <<>> /\ queue = <<>> /\ trunc = FALSE
  BY QueueAssumption DEF IInv, TypeOK, Shape, hub, ghosts, Saving
<1>2. TypeOK'
  BY <1>1, EmptyFacts DEF IInv, TypeOK
<1>3. Shape' /\ Bounded' /\ Sorted'
  BY <1>1, EmptyFacts DEF IInv, Shape, Bounded, Sorted, TypeOK, Active
<1>4. Collected' /\ FileInHand' /\ SavedOnDisk'
  BY <1>1, EmptyFacts DEF IInv, Collected, FileInHand, SavedOnDisk
<1>5. Accounted'
  <2>1. InMemory' = ToSet(disk) \cup {clock'} /\ InMemory = {}
    BY <1>1, EmptyFacts DEF InMemory
  <2>2. ASSUME faults = 0, NEW d \in overflowed, NEW b \in ToSet(disk) \cup {clock'} PROVE d <= b
    <3>1. d \in 1..clock
      BY DEF IInv, Collected
    <3>2. CASE b = clock'
      BY <1>1, <3>1, <3>2
    <3>3. CASE b \in ToSet(disk)
      BY <2>2, <3>3 DEF IInv, Accounted
    <3> QED BY <3>2, <3>3
  <2> QED BY <1>1, <2>1, <2>2 DEF IInv, Accounted
<1> QED BY <1>2, <1>3, <1>4, <1>5 DEF IInv

LEMMA DrainInv == IInv /\ Drain => IInv'
<1> SUFFICES ASSUME IInv, Drain PROVE IInv'
  OBVIOUS
<1>1. PICK k \in 0..Pool, applied \in BOOLEAN :
        /\ postBatch(Head(todo), k, applied)
        /\ queue' = Keep(Head(todo), k = Pool)
  BY DEF Drain
<1> DEFINE h == Head(todo)
<1>2. /\ pc = "drain" /\ pc' \in {"drain", "drained"} /\ (pc' = "drained" <=> Tail(todo) = <<>>)
      /\ todo' = Tail(todo) /\ todo # <<>> /\ todo \in Seq(Batch) /\ queue \in Seq(Batch)
      /\ UNCHANGED <<clock, batch, trunc, dropped, disk, stable, faults, saved, overflowed, torn>>
      /\ trunc = FALSE
  BY DEF Drain, IInv, Shape, TypeOK, Saving, ghosts
<1>3. /\ h \in Batch /\ h \in ToSet(todo) /\ todo' \in Seq(Batch) /\ Len(todo') = Len(todo) - 1
      /\ ToSet(todo) = {h} \cup ToSet(todo') /\ InOrder(todo')
      /\ \A x \in ToSet(todo') : h <= x
  BY <1>2, TailFacts DEF IInv, Sorted
<1>4. /\ hubIdx' \in 0..Pool-1 /\ connLatest' \in 0..Horizon
      /\ received \subseteq received' /\ received' \subseteq Batch
      /\ k < Pool => h \in received'
  BY <1>1, <1>3, PostFacts DEF IInv
<1>5. /\ queue' \in Seq(Batch) /\ Len(queue') <= Len(queue) + 1 /\ InOrder(queue')
      /\ ToSet(queue) \subseteq ToSet(queue') /\ ToSet(queue') \subseteq ToSet(queue) \cup {h}
      /\ h \in ToSet(queue') \/ h \in received'
  <2>1. CASE k = Pool
    <3>1. queue' = Append(queue, h)
      BY <1>1, <2>1 DEF Keep
    <3>2. \A x \in ToSet(queue) : x <= h
      BY <1>3 DEF IInv, Sorted
    <3> QED BY <1>2, <1>3, <3>1, <3>2, AppendFacts DEF IInv, Sorted
  <2>2. CASE k # Pool
    <3>1. queue' = queue /\ k < Pool
      BY <1>1, <2>2, QueueAssumption DEF Keep
    <3>2. Len(queue) \in Nat
      BY <1>2, LenProperties
    <3> QED BY <1>2, <1>4, <3>1, <3>2 DEF IInv, Sorted
  <2> QED BY <2>1, <2>2
<1> HIDE DEF h
<1>6. Len(queue) \in Nat /\ Len(todo) \in Nat /\ Len(queue') \in Nat /\ Len(todo') \in Nat
  BY <1>2, <1>3, <1>5, LenProperties
<1>7. TypeOK'
  BY <1>2, <1>3, <1>4, <1>5 DEF IInv, TypeOK
<1>8. Shape'
  BY <1>2 DEF IInv, Shape, Active
<1>9. Bounded' /\ Sorted'
  <2>1. Bounded'
    BY <1>2, <1>3, <1>5, <1>6, QueueAssumption DEF IInv, Bounded
  <2>2. ASSUME NEW x \in ToSet(queue'), NEW y \in ToSet(todo') PROVE x <= y
    BY <1>3, <1>5 DEF IInv, Sorted
  <2> QED BY <1>2, <1>3, <1>5, <2>1, <2>2 DEF IInv, Sorted
<1>10. Collected' /\ FileInHand' /\ SavedOnDisk'
  BY <1>2, <1>3, <1>4, <1>5 DEF IInv, Collected, FileInHand, SavedOnDisk, Active
<1>11. Accounted'
  <2>1. InMemory' \subseteq InMemory /\ InMemory \subseteq InMemory' \cup received'
    BY <1>2, <1>3, <1>5 DEF InMemory
  <2> QED BY <1>2, <1>4, <2>1 DEF IInv, Accounted
<1> QED BY <1>7, <1>8, <1>9, <1>10, <1>11 DEF IInv

LEMMA PostNewInv == IInv /\ PostNew => IInv'
<1> SUFFICES ASSUME IInv, PostNew PROVE IInv'
  OBVIOUS
<1>1. PICK k \in 0..Pool, applied \in BOOLEAN :
        /\ postBatch(batch, k, applied)
        /\ IF k < Pool
             THEN /\ pc' = "idle" /\ queue' = <<>>
                  /\ UNCHANGED <<dropped, overflowed>>
             ELSE LET q == Append(queue, batch) IN
                  /\ queue' = Capped(q)
                  /\ dropped' = CountDropped(Overflow(q))
                  /\ overflowed' = overflowed \cup (ToSet(q) \ ToSet(Capped(q)))
                  /\ pc' = "queued"
  BY DEF PostNew
<1>2. /\ pc = "post" /\ todo = <<>> /\ trunc = FALSE /\ queue \in Seq(Batch) /\ disk \in Seq(Batch)
      /\ UNCHANGED <<clock, batch, todo, trunc, disk, stable, faults, saved, torn>>
  BY DEF PostNew, IInv, Shape, TypeOK, Saving
<1>3. batch = clock /\ batch \in Batch /\ clock \in 1..clock /\ batch \in Nat /\ clock >= 1
  BY <1>2, BatchFacts, BatchIsNat DEF IInv, Active, Shape
<1>4. /\ hubIdx' \in 0..Pool-1 /\ connLatest' \in 0..Horizon
      /\ received \subseteq received' /\ received' \subseteq Batch
      /\ k < Pool => batch \in received'
  BY <1>1, <1>3, PostFacts DEF IInv
<1>5. InMemory = ToSet(queue) \cup {batch}
  BY <1>2, EmptyFacts DEF InMemory
<1>6. CASE k < Pool
  <2>1. pc' = "idle" /\ queue' = <<>> /\ dropped' = dropped /\ overflowed' = overflowed
    BY <1>1, <1>6
  <2>2. InMemory' = {}
    BY <1>2, <2>1, EmptyFacts DEF InMemory
  <2>3. TypeOK'
    BY <1>2, <1>4, <2>1, EmptyFacts DEF IInv, TypeOK
  <2>4. Shape' /\ Bounded' /\ Sorted'
    BY <1>2, <2>1, EmptyFacts, QueueAssumption DEF IInv, Shape, Bounded, Sorted, Active
  <2>5. Collected' /\ FileInHand' /\ SavedOnDisk'
    BY <1>2, <1>4, <2>1, EmptyFacts DEF IInv, Collected, FileInHand, SavedOnDisk, Active
  <2>6. Accounted'
    BY <1>2, <1>4, <1>5, <1>6, <2>1, <2>2 DEF IInv, Accounted
  <2> QED BY <2>3, <2>4, <2>5, <2>6 DEF IInv
<1>7. CASE ~(k < Pool)
  <2> DEFINE q == Append(queue, batch)
             X == ToSet(q) \ ToSet(Capped(q))
  <2>1. /\ queue' = Capped(q) /\ dropped' = CountDropped(Overflow(q))
        /\ overflowed' = overflowed \cup X /\ pc' = "queued"
    BY <1>1, <1>7
  <2>2. \A x \in ToSet(queue) : x <= batch
    BY <1>2, <1>3 DEF IInv, Collected
  <2>3. /\ q \in Seq(Batch) /\ Len(q) <= MaxQueuedBatches + 1 /\ q # <<>> /\ InOrder(q)
        /\ ToSet(q) = ToSet(queue) \cup {batch}
    <3>1. Len(queue) \in Nat /\ Len(queue) <= MaxQueuedBatches
      BY <1>2, EmptyFacts, LenProperties, QueueAssumption DEF IInv, Bounded
    <3>2. InOrder(queue)
      BY DEF IInv, Sorted
    <3>3. Len(q) = Len(queue) + 1 /\ q \in Seq(Batch)
      BY <1>2, <1>3, AppendFacts
    <3>4. q # <<>>
      <4>1. Len(q) # 0
        BY <3>1, <3>3
      <4> QED BY <4>1, EmptyFacts
    <3> QED BY <1>2, <1>3, <2>2, <3>1, <3>2, <3>3, <3>4, AppendFacts, QueueAssumption
  <2> HIDE DEF q
  <2>4. /\ Capped(q) \in Seq(Batch) /\ Len(Capped(q)) <= MaxQueuedBatches
        /\ InOrder(Capped(q)) /\ ToSet(Capped(q)) \subseteq ToSet(q)
        /\ Overflow(q) \in {0, 1}
        /\ Overflow(q) = 0 => Capped(q) = q
        /\ Overflow(q) = 1 => ToSet(q) \subseteq ToSet(Capped(q)) \cup {Head(q)}
        /\ Head(q) \in Batch /\ \A x \in ToSet(q) : Head(q) <= x
    BY <2>3, CapFacts
  <2>5. X \subseteq {Head(q)} /\ X \subseteq ToSet(q) /\ (Overflow(q) = 0 => X = {})
    BY <2>4
  <2>6. InMemory' = ToSet(queue')
    BY <1>2, <2>1, EmptyFacts DEF InMemory
  <2>7. ToSet(queue') \subseteq ToSet(queue) \cup {batch}
        /\ ToSet(queue) \cup {batch} \subseteq ToSet(queue') \cup X
    BY <2>1, <2>3, <2>4
  <2>8. TypeOK'
    <3>1. dropped' \in 0..Horizon
      BY <2>1, <2>4, QueueAssumption DEF IInv, TypeOK, CountDropped
    <3>2. overflowed' \subseteq Batch
      BY <2>1, <2>4, <2>5 DEF IInv, TypeOK
    <3> QED BY <1>2, <1>4, <2>1, <2>4, <3>1, <3>2 DEF IInv, TypeOK
  <2>9. Shape'
    BY <1>2, <1>3, <2>1 DEF IInv, Shape, Active
  <2>10. Bounded' /\ Sorted'
    <3>1. Len(Capped(q)) \in Nat
      BY <2>4, LenProperties
    <3> QED BY <1>2, <2>1, <2>4, <3>1, EmptyFacts DEF IInv, Bounded, Sorted
  <2>11. Collected'
    BY <1>2, <1>3, <2>1, <2>3, <2>5, <2>7 DEF IInv, Collected
  <2>12. FileInHand' /\ SavedOnDisk'
    BY <1>2, <1>4, <2>1, <2>7, EmptyFacts DEF IInv, FileInHand, SavedOnDisk, Active
  <2>13. Accounted'
    <3> SUFFICES ASSUME faults = 0 PROVE Accounted'
      BY <1>2 DEF Accounted
    <3>1. /\ 1..clock \subseteq received \cup InMemory \cup ToSet(disk) \cup overflowed
          /\ disk = queue
          /\ Cardinality(overflowed) <= dropped
          /\ \A d \in overflowed, b \in InMemory \cup ToSet(disk) : d <= b
      BY <1>2 DEF IInv, Accounted
    <3>2. 1..clock' \subseteq received' \cup InMemory' \cup ToSet(disk') \cup overflowed'
      BY <1>2, <1>4, <1>5, <2>1, <2>6, <2>7, <3>1
    <3>3. Cardinality(overflowed') <= dropped'
      <4>1. IsFiniteSet(overflowed) /\ overflowed \subseteq Batch /\ dropped \in 0..Horizon
        <5>1. IsFiniteSet(Batch) /\ overflowed \subseteq Batch /\ dropped \in 0..Horizon
          BY FS_Interval, QueueAssumption DEF Batch, IInv, TypeOK
        <5> QED BY <5>1, FS_Subset
      <4>2. CASE X = {}
        <5>1. overflowed' = overflowed /\ dropped' >= dropped
          BY <2>1, <2>4, <4>1, <4>2, QueueAssumption DEF CountDropped
        <5>2. Cardinality(overflowed) \in Nat
          BY <4>1, FS_CardinalityType
        <5>3. dropped' \in Nat
          BY <2>8 DEF TypeOK
        <5> QED BY <3>1, <4>1, <5>1, <5>2, <5>3
      <4>3. CASE X # {}
        <5>1. overflowed' = overflowed \cup {Head(q)} /\ Overflow(q) = 1
          BY <2>1, <2>4, <2>5, <4>3
        <5>2. /\ Cardinality(overflowed) \in Nat
              /\ Cardinality(overflowed') <= Cardinality(overflowed) + 1
              /\ Cardinality(overflowed') \in Nat
          <6>1. IsFiniteSet(overflowed')
            BY <4>1, <5>1, FS_AddElement
          <6>2. Cardinality(overflowed) \in Nat /\ Cardinality(overflowed') \in Nat
            BY <4>1, <6>1, FS_CardinalityType
          <6>3. Cardinality(overflowed') \in {Cardinality(overflowed), Cardinality(overflowed) + 1}
            BY <4>1, <5>1, FS_AddElement
          <6> QED BY <6>2, <6>3
        <5>3. Cardinality(overflowed') <= Horizon
          <6>1. overflowed' \subseteq 1..Horizon
            BY <2>4, <4>1, <5>1 DEF Batch
          <6>2. IsFiniteSet(1..Horizon) /\ Cardinality(1..Horizon) = Horizon
            BY FS_Interval, QueueAssumption
          <6> QED BY <6>1, <6>2, FS_Subset
        <5>4. dropped' = IF dropped + 1 > Horizon THEN Horizon ELSE dropped + 1
          BY <2>1, <5>1 DEF CountDropped
        <5> QED BY <3>1, <4>1, <5>2, <5>3, <5>4, QueueAssumption
      <4> QED BY <4>2, <4>3
    <3>4. ASSUME NEW d \in overflowed', NEW b \in InMemory' \cup ToSet(disk') PROVE d <= b
      <4>1. b \in ToSet(q) /\ b \in InMemory
        BY <1>2, <1>5, <2>3, <2>6, <2>7, <3>1, <3>4
      <4>2. CASE d \in overflowed
        BY <3>1, <4>1, <4>2
      <4>3. CASE d \in X
        BY <2>4, <2>5, <4>1, <4>3
      <4> QED BY <2>1, <3>4, <4>2, <4>3
    <3> QED BY <2>1, <3>2, <3>3, <3>4 DEF Accounted
  <2> QED BY <2>8, <2>9, <2>10, <2>11, <2>12, <2>13 DEF IInv
<1> QED BY <1>6, <1>7

LEMMA TruncateInv == IInv /\ Truncate => IInv'
<1> SUFFICES ASSUME IInv, Truncate PROVE IInv'
  OBVIOUS
<1>1. /\ pc \in {"drained", "queued"} /\ trunc = FALSE /\ trunc' = TRUE /\ disk' = <<>>
      /\ UNCHANGED <<clock, pc, batch, todo, queue, dropped, hubIdx, stable, received, connLatest,
                     faults, saved, overflowed, torn>>
      /\ todo = <<>> /\ ToSet(todo) = {}
  BY EmptyFacts DEF Truncate, Saving, IInv, Shape, hub, ghosts
<1>2. TypeOK'
  BY <1>1, EmptyFacts DEF IInv, TypeOK
<1>3. Shape' /\ Bounded' /\ Sorted'
  BY <1>1, EmptyFacts, QueueAssumption DEF IInv, Shape, Bounded, Sorted, Active, Saving
<1>4. Collected' /\ FileInHand' /\ SavedOnDisk'
  BY <1>1, EmptyFacts DEF IInv, Collected, FileInHand, SavedOnDisk, Active
<1>5. Accounted'
  <2>1. InMemory' = InMemory /\ ToSet(queue) \subseteq InMemory
    BY <1>1 DEF InMemory
  <2>2. ToSet(disk) \subseteq received \cup overflowed \cup InMemory
    BY <1>1, <2>1 DEF IInv, FileInHand, Active
  <2> QED BY <1>1, <2>1, <2>2, EmptyFacts DEF IInv, Accounted
<1> QED BY <1>2, <1>3, <1>4, <1>5 DEF IInv

LEMMA WriteInv == IInv /\ Write => IInv'
<1> SUFFICES ASSUME IInv, Write PROVE IInv'
  OBVIOUS
<1>1. /\ pc \in {"drained", "queued"} /\ trunc' = FALSE /\ disk' = queue
      /\ disk = <<>> /\ trunc = TRUE
      /\ saved' = saved \cup ToSet(queue)
      /\ pc' = IF pc = "drained" THEN "post" ELSE "idle"
      /\ queue' = IF pc = "drained" THEN queue ELSE <<>>
      /\ UNCHANGED <<clock, batch, todo, dropped, hubIdx, stable, received, connLatest,
                     faults, overflowed, torn>>
      /\ todo = <<>> /\ ToSet(todo) = {}
  BY EmptyFacts DEF Write, Saving, AfterSave, IInv, Shape, hub
<1>2. ToSet(queue) \subseteq Batch
  BY InToSet, ElementOfSeq DEF IInv, TypeOK
<1>3. TypeOK'
  BY <1>1, <1>2, EmptyFacts DEF IInv, TypeOK
<1>4. Shape' /\ Bounded' /\ Sorted'
  <2>1. Len(queue) \in Nat
    BY LenProperties DEF IInv, TypeOK
  <2> QED BY <1>1, <2>1, EmptyFacts, QueueAssumption DEF IInv, Shape, Bounded, Sorted, Active
<1>5. Collected' /\ FileInHand' /\ SavedOnDisk'
  BY <1>1, EmptyFacts DEF IInv, Collected, FileInHand, SavedOnDisk, Active
<1>6. Accounted'
  <2>1. InMemory' \cup ToSet(disk') = InMemory \cup ToSet(disk)
    BY <1>1, EmptyFacts DEF InMemory
  <2>2. pc' = "post" => disk' = queue'
    BY <1>1
  <2> QED BY <1>1, <2>1, <2>2 DEF IInv, Accounted
<1> QED BY <1>3, <1>4, <1>5, <1>6 DEF IInv

\* What a write that was cut short leaves in the file.
LEMMA PrefixFacts ==
  ASSUME IInv, NEW n \in 0..Len(queue)
  PROVE  /\ SubSeq(queue, 1, n) \in Seq(Batch) /\ Len(SubSeq(queue, 1, n)) <= MaxQueuedBatches
         /\ ToSet(SubSeq(queue, 1, n)) \subseteq ToSet(queue)
         /\ InOrder(SubSeq(queue, 1, n))
<1>1. queue \in Seq(Batch) /\ Len(queue) \in Nat /\ Len(todo) \in Nat
  BY LenProperties DEF IInv, TypeOK
<1>2. 1 \in 1..Len(queue) + 1 /\ n \in 1 - 1..Len(queue) /\ n - 1 + 1 = n
  BY <1>1
<1>3. Len(SubSeq(queue, 1, n)) = n
  BY <1>1, <1>2, PartFacts
<1>4. n <= MaxQueuedBatches
  BY <1>1, QueueAssumption DEF IInv, Bounded
<1> QED BY <1>1, <1>2, <1>3, <1>4, PartFacts DEF IInv, Sorted

LEMMA SaveFailsInv == IInv /\ SaveFails => IInv'
<1> SUFFICES ASSUME IInv, SaveFails PROVE IInv'
  OBVIOUS
<1>1. /\ pc \in {"drained", "queued"} /\ trunc' = FALSE /\ torn' = (torn \/ trunc)
      /\ faults' = faults + 1 /\ faults < MaxFaults
      /\ pc' = IF pc = "drained" THEN "post" ELSE "idle"
      /\ queue' = IF pc = "drained" THEN queue ELSE <<>>
      /\ UNCHANGED <<clock, batch, todo, dropped, hubIdx, stable, received, connLatest,
                     saved, overflowed>>
      /\ todo = <<>> /\ ToSet(todo) = {}
  BY EmptyFacts DEF SaveFails, Saving, AfterSave, IInv, Shape, hub
<1>2. /\ disk' \in Seq(Batch) /\ Len(disk') <= MaxQueuedBatches /\ InOrder(disk')
      /\ IF trunc THEN ToSet(disk') \subseteq ToSet(queue) ELSE disk' = disk
  <2>1. CASE trunc
    <3>1. PICK n \in 0..Len(queue) : disk' = SubSeq(queue, 1, n)
      BY <2>1 DEF SaveFails
    <3> QED BY <2>1, <3>1, PrefixFacts
  <2>2. CASE ~trunc
    <3>1. disk' = disk
      BY <2>2 DEF SaveFails
    <3> QED BY <2>2, <3>1 DEF IInv, TypeOK, Bounded, Sorted
  <2> QED BY <2>1, <2>2
<1>3. faults' \in 0..MaxFaults /\ faults' # 0 /\ trunc \in BOOLEAN /\ torn \in BOOLEAN
  BY <1>1, QueueAssumption DEF IInv, TypeOK
<1>4. TypeOK'
  BY <1>1, <1>2, <1>3, EmptyFacts DEF IInv, TypeOK
<1>5. Shape' /\ Bounded' /\ Sorted'
  <2>1. Len(queue) \in Nat /\ Len(queue) <= MaxQueuedBatches
    BY <1>1, LenProperties, EmptyFacts DEF IInv, TypeOK, Bounded
  <2> QED BY <1>1, <1>2, <2>1, EmptyFacts, QueueAssumption DEF IInv, Shape, Bounded, Sorted, Active
<1>6. Collected' /\ FileInHand' /\ SavedOnDisk'
  <2>1. Collected'
    BY <1>1, <1>2, EmptyFacts DEF IInv, Collected
  <2>2. FileInHand'
    BY <1>1, <1>2, EmptyFacts DEF IInv, FileInHand, Active
  <2>3. SavedOnDisk'
    BY <1>1, <1>2, <1>3 DEF IInv, SavedOnDisk
  <2> QED BY <2>1, <2>2, <2>3
<1>7. Accounted'
  BY <1>3 DEF Accounted
<1> QED BY <1>4, <1>5, <1>6, <1>7 DEF IInv

LEMMA CrashInv == IInv /\ Crash => IInv'
<1> SUFFICES ASSUME IInv, Crash PROVE IInv'
  OBVIOUS
<1>1. /\ pc' = "down" /\ batch' = 0 /\ todo' = <<>> /\ queue' = <<>>
      /\ trunc' = FALSE /\ torn' = (torn \/ trunc) /\ dropped' = 0 /\ hubIdx' = 0
      /\ faults' = faults + 1 /\ faults < MaxFaults
      /\ UNCHANGED <<clock, stable, received, connLatest, saved, overflowed>>
  BY DEF Crash, hub
<1>2. /\ disk' \in Seq(Batch) /\ Len(disk') <= MaxQueuedBatches /\ InOrder(disk')
      /\ IF trunc THEN ToSet(disk') \subseteq ToSet(queue) ELSE disk' = disk
  <2>1. CASE trunc
    <3>1. PICK n \in 0..Len(queue) : disk' = SubSeq(queue, 1, n)
      BY <2>1 DEF Crash
    <3> QED BY <2>1, <3>1, PrefixFacts
  <2>2. CASE ~trunc
    <3>1. disk' = disk
      BY <2>2 DEF Crash
    <3> QED BY <2>2, <3>1 DEF IInv, TypeOK, Bounded, Sorted
  <2> QED BY <2>1, <2>2
<1>3. /\ faults' \in 0..MaxFaults /\ faults' # 0 /\ trunc \in BOOLEAN /\ torn \in BOOLEAN
      /\ 0 \in 0..Horizon /\ 0 \in 0..Pool-1
  BY <1>1, QueueAssumption DEF IInv, TypeOK
<1>4. TypeOK'
  BY <1>1, <1>2, <1>3, EmptyFacts DEF IInv, TypeOK
<1>5. Shape' /\ Bounded' /\ Sorted'
  BY <1>1, <1>2, EmptyFacts, QueueAssumption DEF Shape, Bounded, Sorted, Active
<1>6. Collected' /\ FileInHand' /\ SavedOnDisk'
  <2>1. Collected'
    BY <1>1, <1>2, EmptyFacts DEF IInv, Collected
  <2>2. FileInHand'
    BY <1>1 DEF FileInHand, Active
  <2>3. SavedOnDisk'
    BY <1>1, <1>2, <1>3 DEF IInv, SavedOnDisk
  <2> QED BY <2>1, <2>2, <2>3
<1>7. Accounted'
  BY <1>3 DEF Accounted
<1> QED BY <1>4, <1>5, <1>6, <1>7 DEF IInv

\* Restarting, the coming and going of the network, and steps of nothing.
LEMMA QuietInv == IInv /\ (Restart \/ Outage \/ UNCHANGED vars) => IInv'
<1> SUFFICES ASSUME IInv, Restart \/ Outage \/ UNCHANGED vars PROVE IInv'
  OBVIOUS
<1>1. UNCHANGED <<clock, batch, todo, queue, trunc, dropped, hubIdx, disk, received, connLatest,
                  faults, saved, overflowed, torn>>
  BY DEF Restart, Outage, vars, mem, hub, ghosts
<1>2. stable' \in BOOLEAN
  BY DEF Restart, Outage, vars, IInv, TypeOK
<1>3. pc' = pc \/ (pc = "down" /\ pc' = "idle")
  BY DEF Restart, Outage, vars, mem
<1>4. TypeOK' /\ Shape'
  BY <1>1, <1>2, <1>3 DEF IInv, TypeOK, Shape, Active, Saving
<1>5. Bounded' /\ Sorted' /\ Collected' /\ SavedOnDisk'
  BY <1>1 DEF IInv, Bounded, Sorted, Collected, SavedOnDisk
<1>6. FileInHand'
  BY <1>1, <1>3 DEF IInv, FileInHand, Active
<1>7. Accounted'
  <2>1. InMemory' = InMemory
    BY <1>1, <1>3 DEF InMemory
  <2> QED BY <1>1, <1>3, <2>1 DEF IInv, Accounted
<1> QED BY <1>4, <1>5, <1>6, <1>7 DEF IInv

LEMMA NextInv == IInv /\ [Next]_vars => IInv'
BY CollectInv, DrainInv, PostNewInv, TruncateInv, WriteInv, SaveFailsInv, CrashInv, QuietInv
   DEF Next, Loop

LEMMA Invariance == Spec => []IInv
BY InitInv, NextInv, PTL DEF Spec

-----------------------------------------------------------------------------
(* The theorems.                                                           *)

\* The state of the loop, its file and the hubs is well typed, whatever fails.
THEOREM TypeCorrect == Spec => []TypeOK
<1>1. IInv => TypeOK
  BY DEF IInv
<1> QED BY <1>1, Invariance, PTL

\* The queue never grows beyond maxQueuedBatches and stays in the order of
\* collection, for any pool, cap, pattern of failing requests and number of crashes
\* (agent.go:376-395).
THEOREM QueueKept == Spec => []QueueInOrder
<1>1. ASSUME IInv PROVE QueueInOrder
  <2>1. queue \in Seq(Batch) /\ todo \in Seq(Batch)
    BY <1>1 DEF IInv, TypeOK
  <2> DEFINE both == queue \o todo
  <2>2. /\ both \in Seq(Batch) /\ DOMAIN both = 1..Len(queue) + Len(todo)
        /\ Len(queue) \in Nat /\ Len(todo) \in Nat
        /\ \A i \in 1..Len(queue) + Len(todo) :
             both[i] = IF i <= Len(queue) THEN queue[i] ELSE todo[i - Len(queue)]
    BY <2>1, ConcatProperties, LenProperties
  <2> HIDE DEF both
  <2>3. ASSUME NEW i \in DOMAIN both, NEW j \in DOMAIN both, i < j PROVE both[i] <= both[j]
    <3>1. CASE j <= Len(queue)
      <4>1. i \in 1..Len(queue) /\ j \in 1..Len(queue) /\ both[i] = queue[i] /\ both[j] = queue[j]
        BY <2>2, <2>3, <3>1
      <4> QED BY <1>1, <2>1, <2>3, <4>1, LenProperties DEF IInv, Sorted, InOrder
    <3>2. CASE i <= Len(queue) /\ ~(j <= Len(queue))
      <4>1. /\ i \in 1..Len(queue) /\ j - Len(queue) \in 1..Len(todo)
            /\ both[i] = queue[i] /\ both[j] = todo[j - Len(queue)]
        BY <2>2, <2>3, <3>2
      <4>2. both[i] \in ToSet(queue) /\ both[j] \in ToSet(todo)
        BY <2>1, <4>1, InToSet
      <4> QED BY <1>1, <4>2 DEF IInv, Sorted
    <3>3. CASE ~(i <= Len(queue))
      <4>1. /\ i - Len(queue) \in 1..Len(todo) /\ j - Len(queue) \in 1..Len(todo)
            /\ i - Len(queue) < j - Len(queue)
            /\ both[i] = todo[i - Len(queue)] /\ both[j] = todo[j - Len(queue)]
        BY <2>2, <2>3, <3>3
      <4>2. todo[i - Len(queue)] <= todo[j - Len(queue)]
        BY <1>1, <2>1, <4>1, LenProperties DEF IInv, Sorted, InOrder
      <4> QED BY <4>1, <4>2
    <3> QED BY <2>2, <3>1, <3>2, <3>3
  <2> QED BY <1>1, <2>3 DEF IInv, Bounded, Sorted, QueueInOrder, InOrder, both
<1> QED BY <1>1, Invariance, PTL

\* Without a fault every batch is delivered, held, or dropped at the cap and
\* counted; with any number of faults, a batch that reached the file is lost only
\* when a rewrite of the file was cut short (agent.go:374-397, 426-440).
THEOREM LossesCounted == Spec => []LossIsCounted
<1>1. ASSUME IInv PROVE LossIsCounted
  <2>1. ASSUME ~torn PROVE SavedIsKept
    <3>1. CASE trunc
      <4>1. pc \in {"drained", "queued"} /\ ToSet(queue) \subseteq InMemory
        BY <1>1, <3>1 DEF IInv, Shape, Saving, InMemory
      <4> QED BY <1>1, <2>1, <3>1, <4>1 DEF IInv, SavedOnDisk, SavedIsKept
    <3>2. CASE ~trunc
      BY <1>1, <2>1, <3>2 DEF IInv, SavedOnDisk, SavedIsKept
    <3> QED BY <3>1, <3>2
  <2>2. ASSUME faults = 0
        PROVE  LET lost == (1..clock) \ (received \cup InMemory \cup ToSet(disk)) IN
               /\ lost \subseteq overflowed
               /\ Cardinality(lost) <= dropped
               /\ \A d \in overflowed, b \in InMemory \cup ToSet(disk) : d <= b
    <3> DEFINE lost == (1..clock) \ (received \cup InMemory \cup ToSet(disk))
    <3>1. /\ lost \subseteq overflowed /\ Cardinality(overflowed) <= dropped /\ dropped \in Nat
          /\ \A d \in overflowed, b \in InMemory \cup ToSet(disk) : d <= b
      BY <1>1, <2>2 DEF IInv, Accounted, TypeOK
    <3>2. IsFiniteSet(overflowed)
      <4>1. IsFiniteSet(Batch) /\ overflowed \subseteq Batch
        BY <1>1, FS_Interval, QueueAssumption DEF Batch, IInv, TypeOK
      <4> QED BY <4>1, FS_Subset
    <3> HIDE DEF lost
    <3>3. /\ Cardinality(lost) <= Cardinality(overflowed)
          /\ Cardinality(lost) \in Nat /\ Cardinality(overflowed) \in Nat
      BY <3>1, <3>2, FS_Subset, FS_CardinalityType
    <3>4. Cardinality(lost) <= dropped
      BY <3>1, <3>3
    <3> QED BY <3>1, <3>4 DEF lost
  <2> QED BY <2>1, <2>2 DEF LossIsCounted
<1> QED BY <1>1, Invariance, PTL

=============================================================================
