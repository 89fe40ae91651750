-------------------------- MODULE StoreWriterProofs --------------------------
(***************************************************************************)
(* Proofs about StoreWriter, for any number of workers, messages and       *)
(* deliveries: types, and that no message leaves the queue unaccounted.    *)
(***************************************************************************)
EXTENDS StoreWriter, FiniteSetTheorems, TLAPS

Statuses == {"none", "ready", "inflight", "acked", "termed", "exhausted"}

\* A message that may still be delivered has a delivery left.
DeliveryLeft == \A m \in Msgs : status[m] \in {"none", "ready"} => count[m] < MaxDeliver

QueueOK ==
  /\ status \in [Msgs -> Statuses]
  /\ count \in [Msgs -> 0..MaxDeliver] /\ strikes \in [Msgs -> 0..2]
  /\ dlq \subseteq Msgs
  /\ DeliveryLeft

StoreOK == DOMAIN writes = Msgs /\ \A m \in Msgs : writes[m] \in [Parts(m) -> Nat]

FlowDelivery == [m : Flows, n : 1..MaxDeliver]

Holding == [fetched : SUBSET Delivery, cur : Delivery \cup {None}, part : Nat,
            flows : SUBSET FlowDelivery, oks : SUBSET Delivery, errs : SUBSET Delivery]

\* A worker in the middle of a message has written the parts before the present
\* one, between two messages it stands before part 1, and what it is about to
\* ack is in the store.
WorkerOK(w) ==
  /\ work[w].cur = None => work[w].part = 1
  /\ work[w].cur # None =>
       /\ work[w].part \in Parts(work[w].cur.m)
       /\ \A p \in Parts(work[w].cur.m) : p < work[w].part => writes[work[w].cur.m][p] > 0
  /\ \A d \in work[w].oks : Stored(d.m)

WorkOK == work \in [Workers -> Holding] /\ \A w \in Workers : WorkerOK(w)

IInv == QueueOK /\ StoreOK /\ WorkOK /\ AckedIsStored

-----------------------------------------------------------------------------
(* Parts, and what writing does to them.                                   *)

\* Every message has a first part; a part is the last one or followed by the next.
LEMMA PartsFacts ==
  ASSUME NEW m \in Msgs
  PROVE  /\ Parts(m) \subseteq Nat /\ 1 \in Parts(m) /\ \A p \in Parts(m) : p >= 1
         /\ \A p \in Parts(m) : p + 1 \notin Parts(m) => \A q \in Parts(m) : q <= p
         /\ m \in Flows => Parts(m) = {1}
<1>1. CASE m \in Flows
  BY <1>1 DEF Parts
<1>2. CASE m \notin Flows
  <2>1. NParts[m] \in Nat \ {0}
    BY <1>2, StoreWriterAssumption DEF Msgs
  <2> QED BY <1>2, <2>1 DEF Parts
<1> QED BY <1>1, <1>2

\* Writing only adds: what is stored stays so.
Grows == \A m \in Msgs : \A p \in Parts(m) : writes[m][p] > 0 => writes'[m][p] > 0

LEMMA StoredStays ==
  ASSUME Grows, NEW m \in Msgs, Stored(m)
  PROVE  Stored(m)'
BY DEF Grows, Stored

\* A worker that does not move keeps its part of the invariant.
LEMMA Bystander ==
  ASSUME WorkOK, Grows, NEW w \in Workers, work'[w] = work[w]
  PROVE  WorkerOK(w)'
<1>1. work[w] \in Holding /\ WorkerOK(w)
  BY DEF WorkOK
<1>2. \A d \in work[w].oks : d.m \in Msgs
  BY <1>1 DEF Holding, Delivery
<1>3. \A d \in work'[w].oks : Stored(d.m)'
  BY <1>1, <1>2, StoredStays DEF WorkerOK
<1>4. work[w].cur # None => work[w].cur.m \in Msgs
  BY <1>1 DEF Holding, Delivery
<1>5. work'[w].cur # None =>
        \A p \in Parts(work'[w].cur.m) : p < work'[w].part => writes'[work'[w].cur.m][p] > 0
  BY <1>1, <1>4 DEF WorkerOK, Grows
<1> QED BY <1>1, <1>3, <1>5 DEF WorkerOK

\* The acks that have been given stay justified.
LEMMA AckedStays ==
  ASSUME AckedIsStored, Grows, dlq \subseteq dlq',
         \A m \in Msgs : \/ status'[m] = status[m]
                         \/ status'[m] \notin {"acked", "termed"}
                         \/ status'[m] = "acked" /\ Stored(m)
                         \/ status'[m] = "termed" /\ m \in dlq'
  PROVE  AckedIsStored'
BY StoredStays DEF AckedIsStored

\* A step of worker w: all but its own part.
LEMMA WorkerStep ==
  ASSUME WorkOK, Grows, NEW w \in Workers, NEW h \in Holding,
         work' = [work EXCEPT ![w] = h], WorkerOK(w)'
  PROVE  WorkOK'
<1>1. work' \in [Workers -> Holding]
  BY DEF WorkOK
<1>2. \A v \in Workers : v # w => work'[v] = work[v]
  BY DEF WorkOK
<1>3. \A v \in Workers : WorkerOK(v)'
  BY <1>2, Bystander
<1> QED BY <1>1, <1>3 DEF WorkOK

\* A step that writes nothing.
LEMMA Unwritten ==
  ASSUME StoreOK, UNCHANGED writes
  PROVE  StoreOK' /\ Grows
BY DEF StoreOK, Grows

\* ... and moves no worker.
LEMMA Unmoved ==
  ASSUME WorkOK, Grows, UNCHANGED work
  PROVE  WorkOK'
<1>1. \A w \in Workers : WorkerOK(w)'
  BY Bystander
<1> QED BY <1>1 DEF WorkOK

\* A worker that puts down some of what it holds, and writes nothing.
LEMMA PutDown ==
  ASSUME WorkOK, UNCHANGED writes, NEW w \in Workers, NEW h \in Holding,
         work' = [work EXCEPT ![w] = h],
         h.cur = work[w].cur, h.part = work[w].part, h.oks \subseteq work[w].oks
  PROVE  WorkOK'
<1>1. WorkerOK(w) /\ work'[w] = h
  BY DEF WorkOK
<1>2. \A m \in Msgs : Stored(m)' = Stored(m)
  BY DEF Stored
<1>3. \A d \in h.oks : Stored(d.m)'
  BY <1>1, <1>2 DEF WorkerOK, Stored
<1>4. WorkerOK(w)'
  BY <1>1, <1>3 DEF WorkerOK
<1>5. Grows
  BY DEF Grows
<1> QED BY <1>4, <1>5, WorkerStep

-----------------------------------------------------------------------------
(* The consumer.                                                           *)

LEMMA InitIInv == Init => IInv
<1> SUFFICES ASSUME Init PROVE IInv
  OBVIOUS
<1> USE StoreWriterAssumption
<1>1. \A w \in Workers : work[w] = Idle
  BY DEF Init
<1>2. Idle \in Holding /\ Idle.cur = None /\ Idle.part = 1 /\ Idle.oks = {}
  BY DEF Idle, Holding
<1>3. QueueOK /\ AckedIsStored
  BY DEF Init, QueueOK, DeliveryLeft, AckedIsStored, Statuses
<1>4. StoreOK
  BY DEF Init, StoreOK
<1>5. WorkOK
  BY <1>1, <1>2 DEF Init, WorkOK, WorkerOK
<1> QED BY <1>3, <1>4, <1>5 DEF IInv

\* What a requeued message looks like.
LEMMA RequeuedFacts ==
  ASSUME QueueOK, NEW m \in Msgs, UNCHANGED count, status' = Requeued(m)
  PROVE  /\ status' \in [Msgs -> Statuses] /\ DeliveryLeft'
         /\ \A o \in Msgs : status'[o] = status[o] \/ status'[o] \in {"ready", "exhausted"}
<1>1. status' \in [Msgs -> Statuses]
  BY DEF QueueOK, Requeued, Statuses
<1>2. DeliveryLeft'
  BY <1>1 DEF QueueOK, Requeued, DeliveryLeft, Statuses
<1>3. \A o \in Msgs : status'[o] = status[o] \/ status'[o] \in {"ready", "exhausted"}
  BY DEF QueueOK, Requeued
<1> QED BY <1>1, <1>2, <1>3

LEMMA StrikeType == \A k \in 0..2 : Strike(k) \in 0..2
BY DEF Strike

LEMMA PublishIInv == ASSUME IInv, NEW m \in Msgs, Publish(m) PROVE IInv'
<1> USE DEF IInv
<1>1. StoreOK' /\ Grows /\ WorkOK'
  BY Unwritten, Unmoved DEF Publish
<1>2. QueueOK'
  BY DEF Publish, QueueOK, DeliveryLeft, Statuses
<1>3. AckedIsStored'
  <2>1. \A o \in Msgs : status'[o] = status[o] \/ status'[o] \notin {"acked", "termed"}
    BY DEF Publish, QueueOK
  <2> QED BY <1>1, <2>1, AckedStays DEF Publish
<1> QED BY <1>1, <1>2, <1>3

LEMMA AckWaitIInv == ASSUME IInv, NEW m \in Msgs, AckWaitPasses(m) PROVE IInv'
<1> USE DEF IInv
<1>1. StoreOK' /\ Grows /\ WorkOK'
  BY Unwritten, Unmoved DEF AckWaitPasses
<1>2. /\ status' \in [Msgs -> Statuses] /\ DeliveryLeft'
      /\ \A o \in Msgs : status'[o] = status[o] \/ status'[o] \in {"ready", "exhausted"}
  BY RequeuedFacts DEF AckWaitPasses
<1>3. QueueOK'
  BY <1>2, StrikeType DEF AckWaitPasses, QueueOK
<1>4. AckedIsStored'
  BY <1>1, <1>2, AckedStays DEF AckWaitPasses
<1> QED BY <1>1, <1>3, <1>4

-----------------------------------------------------------------------------
(* The workers.                                                            *)

LEMMA FetchIInv == ASSUME IInv, NEW w \in Workers, Fetch(w) PROVE IInv'
<1> USE DEF IInv
<1>1. PICK S \in SUBSET {m \in Msgs : status[m] = "ready"} :
        /\ status' = [m \in Msgs |-> IF m \in S THEN "inflight" ELSE status[m]]
        /\ count' = [m \in Msgs |-> IF m \in S THEN count[m] + 1 ELSE count[m]]
        /\ work' = [work EXCEPT ![w] =
             [Idle EXCEPT !.fetched = {[m |-> m, n |-> count'[m]] : m \in S \cap Telemetry},
                          !.flows = {[m |-> m, n |-> count'[m]] : m \in S \cap Flows}]]
  BY DEF Fetch
<1> DEFINE h == [Idle EXCEPT !.fetched = {[m |-> m, n |-> count'[m]] : m \in S \cap Telemetry},
                             !.flows = {[m |-> m, n |-> count'[m]] : m \in S \cap Flows}]
<1>2. \A m \in S : count'[m] \in 1..MaxDeliver
  BY <1>1, StoreWriterAssumption DEF QueueOK, DeliveryLeft
<1>3. QueueOK'
  <2>1. count' \in [Msgs -> 0..MaxDeliver]
    BY <1>1, <1>2, StoreWriterAssumption DEF QueueOK
  <2>2. status' \in [Msgs -> Statuses]
    BY <1>1 DEF QueueOK, Statuses
  <2>3. DeliveryLeft'
    BY <1>1 DEF QueueOK, DeliveryLeft
  <2> QED BY <2>1, <2>2, <2>3 DEF QueueOK, Fetch
<1>4. StoreOK' /\ Grows
  BY Unwritten DEF Fetch
<1>5. h \in Holding
  <2>1. Idle \in Holding
    BY DEF Idle, Holding
  <2>2. {[m |-> m, n |-> count'[m]] : m \in S \cap Telemetry} \subseteq Delivery
    BY <1>2 DEF Delivery, Msgs
  <2>3. {[m |-> m, n |-> count'[m]] : m \in S \cap Flows} \subseteq FlowDelivery
    BY <1>2 DEF FlowDelivery
  <2> QED BY <2>1, <2>2, <2>3 DEF Holding, Idle
<1>6. h.cur = work[w].cur /\ h.part = work[w].part /\ h.oks = work[w].oks
  BY DEF Fetch, Idle
<1>7. WorkOK'
  <2>1. work' = [work EXCEPT ![w] = h]
    BY <1>1
  <2> HIDE DEF h
  <2> QED BY <2>1, <1>5, <1>6, PutDown DEF Fetch
<1>8. AckedIsStored'
  <2>1. \A o \in Msgs : status'[o] = status[o] \/ status'[o] \notin {"acked", "termed"}
    BY <1>1
  <2> QED BY <1>4, <2>1, AckedStays DEF Fetch
<1> QED BY <1>3, <1>4, <1>7, <1>8

\* Take and Crash touch one worker and nothing else.
LEMMA OnlyWork ==
  ASSUME IInv, UNCHANGED <<jetstream, dlq, writes>>, WorkOK'
  PROVE  IInv'
<1>1. StoreOK' /\ Grows
  BY Unwritten DEF IInv
<1>2. QueueOK'
  BY DEF IInv, QueueOK, jetstream, DeliveryLeft
<1>3. AckedIsStored'
  BY <1>1, AckedStays DEF IInv, jetstream
<1> QED BY <1>1, <1>2, <1>3 DEF IInv

LEMMA TakeIInv == ASSUME IInv, NEW w \in Workers, Take(w) PROVE IInv'
<1>1. PICK d \in work[w].fetched :
        work' = [work EXCEPT ![w] = [work[w] EXCEPT !.fetched = @ \ {d}, !.cur = d]]
  BY DEF Take
<1> DEFINE h == [work[w] EXCEPT !.fetched = @ \ {d}, !.cur = d]
<1>2. work[w] \in Holding /\ WorkerOK(w)
  BY DEF IInv, WorkOK
<1>3. d \in Delivery /\ d.m \in Msgs
  BY <1>2 DEF Holding, Delivery
<1>4. h \in Holding
  BY <1>2, <1>3 DEF Holding
<1>5. h.cur = d /\ h.part = 1 /\ h.oks = work[w].oks
  BY <1>2 DEF Holding, Take, WorkerOK
<1>6. work' = [work EXCEPT ![w] = h] /\ work'[w] = h
  BY <1>1 DEF IInv, WorkOK
<1> HIDE DEF h
<1>7. WorkerOK(w)'
  <2>1. \A q \in work'[w].oks : Stored(q.m)'
    BY <1>2, <1>5, <1>6 DEF WorkerOK, Stored, Take
  <2>2. 1 \in Parts(d.m) /\ \A p \in Parts(d.m) : ~(p < 1)
    BY <1>3, PartsFacts
  <2> QED BY <1>5, <1>6, <2>1, <2>2 DEF WorkerOK
<1>8. Grows
  BY Unwritten DEF Take, IInv
<1>9. WorkOK'
  BY <1>4, <1>6, <1>7, <1>8, WorkerStep DEF IInv
<1> QED BY <1>9, OnlyWork DEF Take

LEMMA CrashIInv == ASSUME IInv, NEW w \in Workers, Crash(w) PROVE IInv'
<1>1. Idle \in Holding /\ Idle.cur = None /\ Idle.part = 1 /\ Idle.oks = {}
  BY DEF Idle, Holding
<1>2. work' = [work EXCEPT ![w] = Idle] /\ work'[w] = Idle
  BY DEF Crash, IInv, WorkOK
<1>3. WorkerOK(w)'
  BY <1>1, <1>2 DEF WorkerOK
<1>4. Grows
  BY Unwritten DEF Crash, IInv
<1>5. WorkOK'
  BY <1>1, <1>2, <1>3, <1>4, WorkerStep DEF IInv
<1> QED BY <1>5, OnlyWork DEF Crash

-----------------------------------------------------------------------------
(* Transactions.                                                           *)

\* A step that writes more and leaves the queue alone.
LEMMA OnlyWrites ==
  ASSUME IInv, UNCHANGED <<jetstream, dlq>>, Grows, StoreOK', WorkOK'
  PROVE  IInv'
<1>1. QueueOK'
  BY DEF IInv, QueueOK, jetstream, DeliveryLeft
<1>2. AckedIsStored'
  BY AckedStays DEF IInv, jetstream
<1> QED BY <1>1, <1>2 DEF IInv

LEMMA WritePartIInv == ASSUME IInv, NEW w \in Workers, WritePart(w) PROVE IInv'
<1> DEFINE d == work[w].cur
           i == work[w].part
<1>1. work[w] \in Holding /\ WorkerOK(w) /\ d # None
  BY DEF IInv, WorkOK, WritePart
<1>2. d \in Delivery /\ d.m \in Msgs /\ i \in Nat /\ i \in Parts(d.m)
  BY <1>1 DEF Holding, Delivery, WorkerOK
<1>3. PICK committed \in BOOLEAN, error \in BOOLEAN :
        /\ committed \/ error
        /\ writes' = IF committed THEN [writes EXCEPT ![d.m][i] = @ + 1] ELSE writes
        /\ work' = [work EXCEPT ![w] = IF error THEN Failed(w) ELSE AfterPart(w)]
  BY DEF WritePart
<1> DEFINE h == IF error THEN Failed(w) ELSE AfterPart(w)
<1>4. work' = [work EXCEPT ![w] = h] /\ work'[w] = h
  BY <1>3 DEF IInv, WorkOK
<1>5. StoreOK' /\ Grows /\ (committed => writes'[d.m][i] > 0)
  <2>1. CASE committed
    <3>1. writes' = [writes EXCEPT ![d.m] = [writes[d.m] EXCEPT ![i] = writes[d.m][i] + 1]]
      BY <1>3, <2>1
    <3>2. writes[d.m] \in [Parts(d.m) -> Nat] /\ DOMAIN writes = Msgs
      BY <1>2 DEF IInv, StoreOK
    <3>3. writes'[d.m] = [writes[d.m] EXCEPT ![i] = writes[d.m][i] + 1]
      BY <1>2, <3>1, <3>2
    <3>4. \A m \in Msgs : m # d.m => writes'[m] = writes[m]
      BY <3>1, <3>2
    <3>5. writes'[d.m] \in [Parts(d.m) -> Nat] /\ writes'[d.m][i] > 0
      BY <1>2, <3>2, <3>3
    <3>6. \A p \in Parts(d.m) : writes[d.m][p] > 0 => writes'[d.m][p] > 0
      BY <1>2, <3>2, <3>3, <3>5
    <3>7. DOMAIN writes' = Msgs
      BY <3>1, <3>2
    <3>8. StoreOK'
      BY <3>4, <3>5, <3>7 DEF IInv, StoreOK
    <3>9. Grows
      BY <3>4, <3>6 DEF Grows
    <3> QED BY <3>5, <3>8, <3>9
  <2>2. CASE ~committed
    BY <1>3, <2>2, Unwritten DEF IInv
  <2> QED BY <2>1, <2>2
<1>6. Grows /\ Parts(d.m) \subseteq Nat /\ 1 \in Parts(d.m)
  BY <1>2, <1>5, PartsFacts
<1>7. \A p \in Parts(d.m) : p < i => writes'[d.m][p] > 0
  BY <1>1, <1>2, <1>6 DEF WorkerOK, Grows
<1>8. h \in Holding /\ WorkerOK(w)'
  <2>1. CASE error
    <3>1. h = [work[w] EXCEPT !.cur = None, !.part = 1, !.errs = {d}]
      BY <2>1 DEF Failed
    <3> HIDE DEF h, d
    <3>2. h \in Holding /\ h.cur = None /\ h.part = 1 /\ h.oks = work[w].oks
      BY <1>1, <1>2, <3>1 DEF Holding
    <3>3. \A o \in h.oks : Stored(o.m)'
      BY <1>1, <1>6, <3>2, StoredStays DEF WorkerOK, Holding, Delivery
    <3> QED BY <1>4, <3>2, <3>3 DEF WorkerOK
  <2>2. CASE ~error /\ i + 1 \in Parts(d.m)
    <3>1. h = [work[w] EXCEPT !.part = i + 1]
      BY <2>2 DEF AfterPart
    <3>2. h \in Holding /\ h.cur = d /\ h.part = i + 1 /\ h.oks = work[w].oks
      BY <1>1, <1>2, <3>1 DEF Holding
    <3>3. \A o \in h.oks : Stored(o.m)'
      BY <1>1, <1>6, <3>2, StoredStays DEF WorkerOK, Holding, Delivery
    <3>4. \A p \in Parts(d.m) : p < i + 1 => writes'[d.m][p] > 0
      BY <1>2, <1>3, <1>5, <1>6, <1>7, <2>2
    <3> HIDE DEF h
    <3> QED BY <1>1, <1>4, <2>2, <3>2, <3>3, <3>4 DEF WorkerOK
  <2>3. CASE ~error /\ i + 1 \notin Parts(d.m)
    <3>1. h = [work[w] EXCEPT !.cur = None, !.part = 1, !.oks = {d}]
      BY <2>3 DEF AfterPart, Handled
    <3> HIDE DEF h, d
    <3>2. h \in Holding /\ h.cur = None /\ h.part = 1 /\ h.oks = {d}
      BY <1>1, <1>2, <3>1 DEF Holding
    <3>3. \A p \in Parts(d.m) : p <= i
      BY <1>2, <2>3, PartsFacts
    <3>4. \A p \in Parts(d.m) : writes'[d.m][p] > 0
      BY <1>2, <1>3, <1>5, <1>6, <1>7, <2>3, <3>3
    <3>5. \A o \in h.oks : Stored(o.m)'
      BY <3>2, <3>4 DEF Stored
    <3> QED BY <1>4, <3>2, <3>5 DEF WorkerOK
  <2> QED BY <2>1, <2>2, <2>3
<1>9. WorkOK'
  <2> HIDE DEF h
  <2> QED BY <1>4, <1>6, <1>8, WorkerStep DEF IInv
<1> QED BY <1>5, <1>9, OnlyWrites DEF WritePart

LEMMA FlushFlowsIInv == ASSUME IInv, NEW w \in Workers, FlushFlows(w) PROVE IInv'
<1> DEFINE F == work[w].flows
<1>1. work[w] \in Holding /\ WorkerOK(w) /\ work[w].cur = None
  BY DEF IInv, WorkOK, FlushFlows
<1>2. F \subseteq Delivery /\ \A d \in F : d.m \in Flows /\ d.m \in Msgs
  BY <1>1 DEF Holding, FlowDelivery, Delivery, Msgs
<1>3. PICK committed \in BOOLEAN, error \in BOOLEAN :
        /\ committed \/ error
        /\ writes' = IF committed
                       THEN [m \in Msgs |-> IF \E d \in F : d.m = m
                               THEN [writes[m] EXCEPT ![1] = @ + 1] ELSE writes[m]]
                       ELSE writes
        /\ work' = [work EXCEPT ![w] = Flushed(w, error)]
  BY DEF FlushFlows
<1>4. work'[w] = Flushed(w, error)
  BY <1>3 DEF IInv, WorkOK
<1>5. StoreOK' /\ Grows /\ (committed => \A d \in F : Stored(d.m)')
  <2>1. CASE committed
    <3>1. DOMAIN writes' = Msgs
      BY <1>3, <2>1
    <3>2. ASSUME NEW m \in Msgs, \E d \in F : d.m = m
          PROVE  /\ writes'[m] \in [Parts(m) -> Nat]
                 /\ \A p \in Parts(m) : writes'[m][p] > 0
      <4>1. Parts(m) = {1} /\ writes[m] \in [Parts(m) -> Nat]
        BY <1>2, <3>2, PartsFacts DEF IInv, StoreOK
      <4>2. writes'[m] = [writes[m] EXCEPT ![1] = writes[m][1] + 1]
        BY <1>3, <2>1, <3>2
      <4> QED BY <4>1, <4>2
    <3>3. \A m \in Msgs : ~(\E d \in F : d.m = m) => writes'[m] = writes[m]
      BY <1>3, <2>1
    <3>4. StoreOK'
      BY <3>1, <3>2, <3>3 DEF IInv, StoreOK
    <3>5. Grows
      BY <3>2, <3>3 DEF Grows
    <3>6. \A d \in F : Stored(d.m)'
      BY <1>2, <3>2 DEF Stored
    <3> QED BY <3>4, <3>5, <3>6
  <2>2. CASE ~committed
    BY <1>3, <2>2, Unwritten DEF IInv
  <2> QED BY <2>1, <2>2
<1>6. Flushed(w, error) \in Holding /\ WorkerOK(w)'
  <2>1. CASE error
    <3>1. Flushed(w, error) = [work[w] EXCEPT !.flows = {}, !.errs = F]
      BY <2>1 DEF Flushed
    <3>2. /\ Flushed(w, error) \in Holding
          /\ work'[w].cur = None /\ work'[w].part = 1 /\ work'[w].oks = work[w].oks
      BY <1>1, <1>2, <1>4, <3>1 DEF Holding, WorkerOK
    <3>3. \A o \in work[w].oks : Stored(o.m)'
      BY <1>1, <1>5, StoredStays DEF WorkerOK, Holding, Delivery
    <3> QED BY <3>2, <3>3 DEF WorkerOK
  <2>2. CASE ~error
    <3>1. Flushed(w, error) = [work[w] EXCEPT !.flows = {}, !.oks = F]
      BY <2>2 DEF Flushed
    <3>2. /\ Flushed(w, error) \in Holding
          /\ work'[w].cur = None /\ work'[w].part = 1 /\ work'[w].oks = F
      BY <1>1, <1>2, <1>4, <3>1 DEF Holding, WorkerOK
    <3> QED BY <1>3, <1>5, <2>2, <3>2 DEF WorkerOK
  <2> QED BY <2>1, <2>2
<1>7. WorkOK'
  BY <1>3, <1>5, <1>6, WorkerStep DEF IInv
<1> QED BY <1>5, <1>7, OnlyWrites DEF FlushFlows

-----------------------------------------------------------------------------
(* Answers.                                                                *)

\* A worker that has answered for d, by whatever verdict.
LEMMA AnswerStep ==
  ASSUME IInv, UNCHANGED writes, NEW w \in Workers, NEW d,
         \/ work' = [work EXCEPT ![w].oks = @ \ {d}]
         \/ work' = [work EXCEPT ![w].errs = @ \ {d}]
  PROVE  WorkOK' /\ StoreOK' /\ Grows
<1>1. work[w] \in Holding
  BY DEF IInv, WorkOK
<1>2. CASE work' = [work EXCEPT ![w].oks = @ \ {d}]
  <2> DEFINE h == [work[w] EXCEPT !.oks = @ \ {d}]
  <2>1. h \in Holding /\ h.cur = work[w].cur /\ h.part = work[w].part /\ h.oks \subseteq work[w].oks
    BY <1>1 DEF Holding
  <2>2. work' = [work EXCEPT ![w] = h]
    BY <1>2
  <2> HIDE DEF h
  <2> QED BY <2>1, <2>2, PutDown, Unwritten DEF IInv
<1>3. CASE work' = [work EXCEPT ![w].errs = @ \ {d}]
  <2> DEFINE h == [work[w] EXCEPT !.errs = @ \ {d}]
  <2>1. h \in Holding /\ h.cur = work[w].cur /\ h.part = work[w].part /\ h.oks = work[w].oks
    BY <1>1 DEF Holding
  <2>2. work' = [work EXCEPT ![w] = h]
    BY <1>3
  <2> HIDE DEF h
  <2> QED BY <2>1, <2>2, PutDown, Unwritten DEF IInv
<1> QED BY <1>2, <1>3

\* A status that is left alone, requeued or closed keeps DeliveryLeft.
LEMMA NakFacts ==
  ASSUME QueueOK, NEW m \in Msgs, UNCHANGED count, status' \in {Nak(m), status}
  PROVE  /\ status' \in [Msgs -> Statuses] /\ DeliveryLeft'
         /\ \A o \in Msgs : status'[o] = status[o] \/ status'[o] \in {"ready", "exhausted"}
<1>1. CASE UNCHANGED status
  BY <1>1 DEF QueueOK, DeliveryLeft
<1>2. CASE status' = Requeued(m)
  BY <1>2, RequeuedFacts
<1> QED BY <1>1, <1>2 DEF Nak

LEMMA AckMsgIInv == ASSUME IInv, NEW w \in Workers, AckMsg(w) PROVE IInv'
<1>1. PICK d \in work[w].oks : /\ status' \in {Ack(d.m), status}
                               /\ work' = [work EXCEPT ![w].oks = @ \ {d}]
  BY DEF AckMsg
<1>2. WorkOK' /\ StoreOK' /\ Grows
  BY <1>1, AnswerStep DEF AckMsg
<1>3. d.m \in Msgs /\ Stored(d.m)
  BY DEF IInv, WorkOK, WorkerOK, Holding, Delivery
<1>4. QueueOK'
  BY <1>1, <1>3 DEF IInv, QueueOK, DeliveryLeft, AckMsg, Ack, Statuses
<1>5. AckedIsStored'
  <2>1. \A o \in Msgs : status'[o] = status[o] \/ (status'[o] = "acked" /\ Stored(o))
    BY <1>1, <1>3 DEF IInv, QueueOK, Ack
  <2> QED BY <1>2, <2>1, AckedStays DEF IInv, AckMsg
<1> QED BY <1>2, <1>4, <1>5 DEF IInv

LEMMA RetryIInv == ASSUME IInv, NEW w \in Workers, Retry(w) PROVE IInv'
<1>1. PICK d \in work[w].errs : /\ status' \in {Nak(d.m), status}
                                /\ work' = [work EXCEPT ![w].errs = @ \ {d}]
  BY DEF Retry
<1>2. WorkOK' /\ StoreOK' /\ Grows
  BY <1>1, AnswerStep DEF Retry
<1>3. d.m \in Msgs
  BY DEF IInv, WorkOK, Holding, Delivery
<1>4. /\ status' \in [Msgs -> Statuses] /\ DeliveryLeft'
      /\ \A o \in Msgs : status'[o] = status[o] \/ status'[o] \in {"ready", "exhausted"}
  BY <1>1, <1>3, NakFacts DEF IInv, Retry
<1>5. QueueOK'
  BY <1>4 DEF IInv, QueueOK, Retry
<1>6. AckedIsStored'
  BY <1>2, <1>4, AckedStays DEF IInv, Retry
<1> QED BY <1>2, <1>5, <1>6 DEF IInv

LEMMA DeadLetterIInv == ASSUME IInv, NEW w \in Workers, DeadLetter(w) PROVE IInv'
<1>1. PICK d \in work[w].errs : /\ dlq' = dlq \cup {d.m}
                                /\ status' \in {Term(d.m), status}
                                /\ work' = [work EXCEPT ![w].errs = @ \ {d}]
  BY DEF DeadLetter
<1>2. WorkOK' /\ StoreOK' /\ Grows
  BY <1>1, AnswerStep DEF DeadLetter
<1>3. d.m \in Msgs
  BY DEF IInv, WorkOK, Holding, Delivery
<1>4. QueueOK'
  BY <1>1, <1>3 DEF IInv, QueueOK, DeliveryLeft, DeadLetter, Term, Statuses
<1>5. AckedIsStored'
  <2>1. \A o \in Msgs : status'[o] = status[o] \/ (status'[o] = "termed" /\ o \in dlq')
    BY <1>1, <1>3 DEF IInv, QueueOK, Term
  <2> QED BY <1>1, <1>2, <2>1, AckedStays DEF IInv
<1> QED BY <1>2, <1>4, <1>5 DEF IInv

LEMMA DeadLetterFailsIInv == ASSUME IInv, NEW w \in Workers, DeadLetterFails(w) PROVE IInv'
<1>1. PICK d \in work[w].errs : /\ dlq' \in {dlq, dlq \cup {d.m}}
                                /\ status' \in {Nak(d.m), status}
                                /\ strikes' = [strikes EXCEPT ![d.m] = Strike(@)]
                                /\ work' = [work EXCEPT ![w].errs = @ \ {d}]
  BY DEF DeadLetterFails
<1>2. WorkOK' /\ StoreOK' /\ Grows
  BY <1>1, AnswerStep DEF DeadLetterFails
<1>3. d.m \in Msgs
  BY DEF IInv, WorkOK, Holding, Delivery
<1>4. /\ status' \in [Msgs -> Statuses] /\ DeliveryLeft'
      /\ \A o \in Msgs : status'[o] = status[o] \/ status'[o] \in {"ready", "exhausted"}
  BY <1>1, <1>3, NakFacts DEF IInv, DeadLetterFails
<1>5. QueueOK'
  BY <1>1, <1>3, <1>4, StrikeType DEF IInv, QueueOK, DeadLetterFails
<1>6. AckedIsStored'
  BY <1>1, <1>2, <1>4, AckedStays DEF IInv
<1> QED BY <1>2, <1>5, <1>6 DEF IInv

-----------------------------------------------------------------------------

\* The invariant is inductive.
LEMMA NextIInv == IInv /\ [Next]_vars => IInv'
<1> SUFFICES ASSUME IInv, [Next]_vars PROVE IInv'
  OBVIOUS
<1>1. CASE UNCHANGED vars
  <2>1. WorkOK'
    BY <1>1, Unwritten, Unmoved DEF vars, IInv
  <2> QED BY <1>1, <2>1, OnlyWork DEF vars
<1>2. ASSUME NEW m \in Msgs, Publish(m) \/ AckWaitPasses(m) PROVE IInv'
  BY <1>2, PublishIInv, AckWaitIInv
<1>3. ASSUME NEW w \in Workers, Worker(w) \/ Crash(w) PROVE IInv'
  BY <1>3, FetchIInv, TakeIInv, WritePartIInv, FlushFlowsIInv, AckMsgIInv, RetryIInv,
     DeadLetterIInv, DeadLetterFailsIInv, CrashIInv DEF Worker
<1> QED BY <1>1, <1>2, <1>3 DEF Next, Runs

\* The invariant holds throughout.
LEMMA Invariant == Spec => []IInv
  BY InitIInv, NextIInv, PTL DEF Spec

\* Type correctness of the queue, the store and the workers.
THEOREM TypeCorrect == Spec => []TypeOK
<1>1. IInv => TypeOK
  <2> SUFFICES ASSUME IInv PROVE TypeOK
    OBVIOUS
  <2>1. ASSUME NEW w \in Workers
        PROVE  /\ Deliveries(w) \subseteq Delivery
               /\ work[w].cur # None => work[w].part \in Parts(work[w].cur.m)
    <3>1. work[w] \in Holding /\ WorkerOK(w)
      BY DEF IInv, WorkOK
    <3>2. FlowDelivery \subseteq Delivery
      BY DEF FlowDelivery, Delivery, Msgs
    <3> QED BY <3>1, <3>2 DEF Holding, Deliveries, WorkerOK
  <2> QED BY <2>1 DEF IInv, QueueOK, StoreOK, TypeOK, Statuses
<1> QED BY <1>1, Invariant, PTL

\* No message leaves the queue unaccounted: acked means that every one of its
\* transactions is in the store, terminated that its copy is in the dead-letter
\* subject, for any number of workers, redeliveries, failures and lost answers.
THEOREM NothingLeavesUnaccounted == Spec => []AckedIsStored
<1>1. IInv => AckedIsStored
  BY DEF IInv
<1> QED BY <1>1, Invariant, PTL

-----------------------------------------------------------------------------
(* Who holds which delivery: every delivery of a message has a number of   *)
(* its own and is held by one worker, in one place.                        *)

TelemetryDelivery == [m : Telemetry, n : 1..MaxDeliver]

\* What a worker holds, k: one delivery of a message, and verdicts only of
\* messages it has put down.
Tidy(k) ==
  /\ k.fetched \subseteq TelemetryDelivery
  /\ \A d, e \in k.fetched : d.m = e.m => d = e
  /\ k.cur # None => /\ k.cur \in TelemetryDelivery
                     /\ k.oks \cup k.errs = {}
                     /\ \A d \in k.fetched : d.m # k.cur.m
  /\ k.errs \cap (k.fetched \cup k.flows \cup k.oks) = {}

Carried(k) == k.fetched \cup k.flows \cup k.oks \cup k.errs \cup ({k.cur} \ {None})

Numbered == \A w \in Workers : \A d \in Carried(work[w]) : d.n <= count[d.m]
OneHolder == \A v, w \in Workers : v # w => Carried(work[v]) \cap Carried(work[w]) = {}
Holders == Numbered /\ OneHolder /\ \A w \in Workers : Tidy(work[w])

\* A step of worker w that takes up nothing.
LEMMA HoldersStep ==
  ASSUME IInv, Holders, NEW w \in Workers, NEW h, work' = [work EXCEPT ![w] = h],
         Tidy(h), Carried(h) \subseteq Carried(work[w]), UNCHANGED count
  PROVE  Holders'
<1>1. work'[w] = h /\ \A v \in Workers : v # w => work'[v] = work[v]
  BY DEF IInv, WorkOK
<1>2. \A v \in Workers : Carried(work'[v]) \subseteq Carried(work[v]) /\ Tidy(work'[v])
  BY <1>1 DEF Holders
<1>3. Numbered'
  BY <1>2 DEF Holders, Numbered
<1>4. OneHolder'
  BY <1>2 DEF Holders, OneHolder
<1> QED BY <1>2, <1>3, <1>4 DEF Holders

\* The next message of the fetch.
LEMMA TakeTidy ==
  ASSUME NEW k \in Holding, Tidy(k), k.cur = None, k.oks \cup k.errs = {}, NEW d \in k.fetched,
         NEW h, h = [k EXCEPT !.fetched = @ \ {d}, !.cur = d]
  PROVE  Tidy(h) /\ Carried(h) \subseteq Carried(k)
<1>1. /\ h.fetched = k.fetched \ {d} /\ h.cur = d /\ h.flows = k.flows
      /\ h.oks = k.oks /\ h.errs = k.errs
  BY DEF Holding
<1>2. Tidy(h)
  BY <1>1 DEF Tidy
<1>3. Carried(h) \subseteq Carried(k)
  BY <1>1 DEF Carried
<1> QED BY <1>2, <1>3

\* A message that is finished, or given up, moves to the verdicts.
LEMMA VerdictTidy ==
  ASSUME NEW k \in Holding, Tidy(k), k.cur # None, NEW h,
         \/ h = [k EXCEPT !.cur = None, !.part = 1, !.errs = {k.cur}]
         \/ h = [k EXCEPT !.cur = None, !.part = 1, !.oks = {k.cur}]
  PROVE  /\ Tidy(h) /\ Carried(h) \subseteq Carried(k)
         /\ h.fetched = k.fetched /\ h.flows = k.flows /\ h.cur = None
<1>1. k.oks = {} /\ k.errs = {} /\ k.cur \in TelemetryDelivery /\ k.cur \notin k.fetched
  BY DEF Tidy
<1>2. k.cur \notin k.flows
  BY <1>1, StoreWriterAssumption DEF Holding, FlowDelivery, TelemetryDelivery
<1>3. /\ h.fetched = k.fetched /\ h.flows = k.flows /\ h.cur = None
      /\ \/ h.errs = {k.cur} /\ h.oks = {}
         \/ h.errs = {} /\ h.oks = {k.cur}
  BY <1>1 DEF Holding
<1>4. Tidy(h)
  BY <1>1, <1>2, <1>3 DEF Tidy
<1>5. Carried(h) \subseteq Carried(k)
  BY <1>1, <1>3 DEF Carried
<1> QED BY <1>3, <1>4, <1>5

\* So do the flow messages of the fetch, together.
LEMMA FlushTidy ==
  ASSUME IInv, NEW w \in Workers, Tidy(work[w]), NEW error \in BOOLEAN,
         work[w].fetched = {}, work[w].cur = None, ~Answering(w)
  PROVE  LET h == Flushed(w, error) IN
         /\ Tidy(h) /\ Carried(h) \subseteq Carried(work[w])
         /\ h.fetched = {} /\ h.flows = {} /\ h.cur = None
<1> DEFINE h == Flushed(w, error)
<1>1. work[w] \in Holding
  BY DEF IInv, WorkOK
<1>2. /\ h.fetched = {} /\ h.flows = {} /\ h.cur = None
      /\ \/ h.errs = work[w].flows /\ h.oks = {}
         \/ h.errs = {} /\ h.oks = work[w].flows
  BY <1>1 DEF Flushed, Holding, Answering
<1> HIDE DEF h
<1>3. Tidy(h)
  BY <1>2 DEF Tidy
<1>4. Carried(h) \subseteq Carried(work[w])
  BY <1>2 DEF Carried
<1> QED BY <1>2, <1>3, <1>4 DEF h

\* An answer puts its delivery down.
LEMMA AnswerTidy ==
  ASSUME NEW k \in Holding, Tidy(k), NEW d, NEW h,
         h = [k EXCEPT !.oks = @ \ {d}] \/ h = [k EXCEPT !.errs = @ \ {d}]
  PROVE  /\ Tidy(h) /\ Carried(h) \subseteq Carried(k)
         /\ h.fetched = k.fetched /\ h.flows = k.flows /\ h.cur = k.cur /\ h.part = k.part
         /\ h = [k EXCEPT !.errs = @ \ {d}] /\ d \in k.errs => d \notin Carried(h)
<1>1. /\ h.fetched = k.fetched /\ h.flows = k.flows /\ h.cur = k.cur /\ h.part = k.part
      /\ h.oks \subseteq k.oks /\ h.errs \subseteq k.errs
  BY DEF Holding
<1>2. Tidy(h)
  BY <1>1 DEF Tidy
<1>3. Carried(h) \subseteq Carried(k)
  BY <1>1 DEF Carried
<1>4. ASSUME h = [k EXCEPT !.errs = @ \ {d}], d \in k.errs PROVE d \notin Carried(h)
  <2>1. h.errs = k.errs \ {d} /\ h.oks = k.oks
    BY <1>4 DEF Holding
  <2>2. k.cur = None
    BY <1>4 DEF Tidy
  <2> QED BY <1>1, <1>4, <2>1, <2>2 DEF Tidy, Carried
<1> QED BY <1>1, <1>2, <1>3, <1>4

\* The workers' steps as the change of one record: what it is, and what it keeps.
LEMMA WorkerMoves ==
  ASSUME IInv, Holders, NEW w \in Workers,
         Take(w) \/ WritePart(w) \/ FlushFlows(w) \/ AckMsg(w) \/ Retry(w)
           \/ DeadLetter(w) \/ DeadLetterFails(w) \/ Crash(w)
  PROVE  \E h : /\ work' = [work EXCEPT ![w] = h]
                /\ Tidy(h) /\ Carried(h) \subseteq Carried(work[w])
<1> DEFINE k == work[w]
<1> SUFFICES \E h : /\ work' = [work EXCEPT ![w] = h]
                   /\ Tidy(h) /\ Carried(h) \subseteq Carried(k)
  OBVIOUS
<1>1. k \in Holding /\ Tidy(k)
  BY DEF IInv, WorkOK, Holders
<1>2. CASE Take(w)
  <2>1. PICK d \in k.fetched : work' = [work EXCEPT ![w] = [k EXCEPT !.fetched = @ \ {d}, !.cur = d]]
    BY <1>2 DEF Take
  <2>2. k.cur = None /\ k.oks \cup k.errs = {}
    BY <1>2 DEF Take, Answering
  <2> HIDE DEF k
  <2> QED BY <1>1, <2>1, <2>2, TakeTidy
<1>3. CASE WritePart(w)
  <2>1. k.cur # None
    BY <1>3 DEF WritePart
  <2>2. PICK error \in BOOLEAN : work' = [work EXCEPT ![w] = IF error THEN Failed(w) ELSE AfterPart(w)]
    BY <1>3 DEF WritePart
  <2>3. CASE error
    <3>1. work' = [work EXCEPT ![w] = [k EXCEPT !.cur = None, !.part = 1, !.errs = {k.cur}]]
      BY <2>2, <2>3 DEF Failed
    <3> HIDE DEF k
    <3> QED BY <1>1, <2>1, <3>1, VerdictTidy
  <2>4. CASE ~error /\ k.part + 1 \in Parts(k.cur.m)
    <3> DEFINE h == [k EXCEPT !.part = @ + 1]
    <3>1. work' = [work EXCEPT ![w] = h]
      BY <2>2, <2>4 DEF AfterPart
    <3> HIDE DEF k
    <3>2. /\ h.fetched = k.fetched /\ h.flows = k.flows /\ h.cur = k.cur
          /\ h.oks = k.oks /\ h.errs = k.errs
      BY <1>1 DEF Holding
    <3> HIDE DEF h
    <3>3. Tidy(h) /\ Carried(h) = Carried(k)
      BY <1>1, <3>2 DEF Tidy, Carried
    <3> QED BY <3>1, <3>3
  <2>5. CASE ~error /\ k.part + 1 \notin Parts(k.cur.m)
    <3>1. work' = [work EXCEPT ![w] = [k EXCEPT !.cur = None, !.part = 1, !.oks = {k.cur}]]
      BY <2>2, <2>5 DEF AfterPart, Handled
    <3> HIDE DEF k
    <3> QED BY <1>1, <2>1, <3>1, VerdictTidy
  <2> QED BY <2>3, <2>4, <2>5
<1>4. CASE FlushFlows(w)
  <2>1. PICK error \in BOOLEAN : work' = [work EXCEPT ![w] = Flushed(w, error)]
    BY <1>4 DEF FlushFlows
  <2>2. work[w].fetched = {} /\ work[w].cur = None /\ ~Answering(w)
    BY <1>4 DEF FlushFlows
  <2> QED BY <1>1, <2>1, <2>2, FlushTidy
<1>5. CASE AckMsg(w)
  <2>1. PICK d \in k.oks : work' = [work EXCEPT ![w] = [k EXCEPT !.oks = @ \ {d}]]
    BY <1>5 DEF AckMsg
  <2> DEFINE h == [k EXCEPT !.oks = @ \ {d}]
  <2> HIDE DEF k
  <2>2. Tidy(h) /\ Carried(h) \subseteq Carried(k)
    BY <1>1, AnswerTidy
  <2> QED BY <2>1, <2>2
<1>6. CASE Retry(w) \/ DeadLetter(w) \/ DeadLetterFails(w)
  <2>1. PICK d \in k.errs : work' = [work EXCEPT ![w] = [k EXCEPT !.errs = @ \ {d}]]
    BY <1>6 DEF Retry, DeadLetter, DeadLetterFails
  <2> DEFINE h == [k EXCEPT !.errs = @ \ {d}]
  <2> HIDE DEF k
  <2>2. Tidy(h) /\ Carried(h) \subseteq Carried(k)
    BY <1>1, AnswerTidy
  <2> QED BY <2>1, <2>2
<1>7. CASE Crash(w)
  <2>1. Tidy(Idle) /\ Carried(Idle) = {}
    BY DEF Tidy, Carried, Idle
  <2> QED BY <1>7, <2>1 DEF Crash
<1> QED BY <1>2, <1>3, <1>4, <1>5, <1>6, <1>7

\* A fetch gives each of its messages a number that nobody holds.
LEMMA FetchHolders == ASSUME IInv, Holders, NEW w \in Workers, Fetch(w) PROVE Holders'
<1>1. PICK S \in SUBSET {m \in Msgs : status[m] = "ready"} :
        /\ status' = [m \in Msgs |-> IF m \in S THEN "inflight" ELSE status[m]]
        /\ count' = [m \in Msgs |-> IF m \in S THEN count[m] + 1 ELSE count[m]]
        /\ work' = [work EXCEPT ![w] =
             [Idle EXCEPT !.fetched = {[m |-> m, n |-> count'[m]] : m \in S \cap Telemetry},
                          !.flows = {[m |-> m, n |-> count'[m]] : m \in S \cap Flows}]]
  BY DEF Fetch
<1> DEFINE h == [Idle EXCEPT !.fetched = {[m |-> m, n |-> count'[m]] : m \in S \cap Telemetry},
                             !.flows = {[m |-> m, n |-> count'[m]] : m \in S \cap Flows}]
<1>2. /\ h.fetched = {[m |-> m, n |-> count'[m]] : m \in S \cap Telemetry}
      /\ h.flows = {[m |-> m, n |-> count'[m]] : m \in S \cap Flows}
      /\ h.cur = None /\ h.oks = {} /\ h.errs = {}
  BY DEF Idle
<1>3. work'[w] = h /\ \A v \in Workers : v # w => work'[v] = work[v]
  BY <1>1 DEF IInv, WorkOK
<1> HIDE DEF h
<1>4. \A m \in Msgs : count[m] \in Nat /\ count'[m] \in Nat /\ count[m] <= count'[m]
                      /\ (m \in S => count'[m] = count[m] + 1 /\ count'[m] \in 1..MaxDeliver)
  <2>1. \A m \in S : status[m] = "ready" /\ count[m] < MaxDeliver /\ MaxDeliver \in Nat
    BY StoreWriterAssumption DEF IInv, QueueOK, DeliveryLeft
  <2>2. \A m \in Msgs : count[m] \in Nat
    BY DEF IInv, QueueOK
  <2> QED BY <1>1, <2>1, <2>2
<1>5. Tidy(h)
  <2>1. h.fetched \subseteq TelemetryDelivery
    BY <1>2, <1>4 DEF TelemetryDelivery, Msgs
  <2>2. \A d, e \in h.fetched : d.m = e.m => d = e
    BY <1>2
  <2> QED BY <1>2, <2>1, <2>2 DEF Tidy
<1>6. \A d \in Carried(h) : d.m \in S /\ d.m \in Msgs /\ d.n = count'[d.m]
  BY <1>2 DEF Carried
<1>7. \A v \in Workers : v # w => \A d \in Carried(work'[v]) : d.m \in Msgs /\ d.n \in Nat /\ d.n <= count[d.m]
  <2>1. \A v \in Workers : work[v] \in Holding
    BY DEF IInv, WorkOK
  <2>2. FlowDelivery \subseteq Delivery
    BY DEF FlowDelivery, Delivery, Msgs
  <2>3. \A v \in Workers : Carried(work[v]) \subseteq Delivery
    BY <2>1, <2>2 DEF Holding, Carried
  <2> QED BY <1>3, <2>3 DEF Holders, Numbered, Delivery
<1>8. Numbered'
  <2>1. \A d \in Carried(work'[w]) : d.n <= count'[d.m]
    BY <1>3, <1>4, <1>6
  <2>2. \A v \in Workers : v # w => \A d \in Carried(work'[v]) : d.n <= count'[d.m]
    BY <1>4, <1>7
  <2> QED BY <2>1, <2>2 DEF Numbered
<1>9. OneHolder'
  <2>1. ASSUME NEW v \in Workers, v # w PROVE Carried(work'[v]) \cap Carried(work'[w]) = {}
    <3> SUFFICES ASSUME NEW d \in Carried(work'[v]), d \in Carried(h) PROVE FALSE
      BY <1>3
    <3>1. d.m \in Msgs /\ d.n \in Nat /\ d.n <= count[d.m]
      BY <1>7, <2>1
    <3>2. d.n = count[d.m] + 1
      BY <1>4, <1>6, <3>1
    <3> QED BY <1>4, <3>1, <3>2
  <2>2. ASSUME NEW u \in Workers, NEW v \in Workers, u # v, u # w, v # w
        PROVE  Carried(work'[u]) \cap Carried(work'[v]) = {}
    BY <1>3, <2>2 DEF Holders, OneHolder
  <2> QED BY <2>1, <2>2 DEF OneHolder
<1>10. \A v \in Workers : Tidy(work'[v])
  BY <1>3, <1>5 DEF Holders
<1> QED BY <1>8, <1>9, <1>10 DEF Holders

LEMMA InitHolders == Init => Holders
<1> SUFFICES ASSUME Init PROVE Holders
  OBVIOUS
<1>1. \A w \in Workers : work[w] = Idle
  BY DEF Init
<1>2. Tidy(Idle) /\ Carried(Idle) = {}
  BY DEF Tidy, Carried, Idle
<1> QED BY <1>1, <1>2 DEF Holders, Numbered, OneHolder

LEMMA NextHolders == IInv /\ Holders /\ [Next]_vars => Holders'
<1> SUFFICES ASSUME IInv, Holders, [Next]_vars PROVE Holders'
  OBVIOUS
<1>1. ASSUME UNCHANGED work, UNCHANGED count PROVE Holders'
  BY <1>1 DEF Holders, Numbered, OneHolder
<1>2. ASSUME NEW m \in Msgs, Publish(m) \/ AckWaitPasses(m) PROVE Holders'
  BY <1>1, <1>2 DEF Publish, AckWaitPasses
<1>3. ASSUME NEW w \in Workers, (Worker(w) /\ ~Fetch(w)) \/ Crash(w) PROVE Holders'
  <2>1. PICK h : /\ work' = [work EXCEPT ![w] = h]
                 /\ Tidy(h) /\ Carried(h) \subseteq Carried(work[w])
    BY <1>3, WorkerMoves DEF Worker
  <2>2. UNCHANGED count
    BY <1>3 DEF Worker, Take, WritePart, FlushFlows, AckMsg, Retry, DeadLetter, DeadLetterFails,
       Crash, jetstream
  <2> QED BY <2>1, <2>2, HoldersStep
<1>4. CASE UNCHANGED vars
  BY <1>1, <1>4 DEF vars, jetstream
<1> QED BY <1>2, <1>3, <1>4, FetchHolders DEF Next, Runs

-----------------------------------------------------------------------------
(* What a delivery may still commit.                                       *)

\* Who holds k has still to commit part p of m.
Owes(k, m, p) == \/ k.cur # None /\ k.cur.m = m /\ k.part = p
                 \/ p = 1 /\ \E d \in k.fetched \cup k.flows : d.m = m
Due(m, p) == {w \in Workers : Owes(work[w], m, p)}

\* The commits of a part, made or still due, are paid for by the part before it,
\* those of the first part by the deliveries.
Before(m, p) == IF p - 1 \in Parts(m) THEN writes[m][p - 1] ELSE count[m]
Paid(m, p) == writes[m][p] + Cardinality(Due(m, p)) <= Before(m, p)
Budget == \A m \in Msgs : \A p \in Parts(m) : Paid(m, p)

LEMMA DueFinite ==
  ASSUME NEW m, NEW p
  PROVE  IsFiniteSet(Due(m, p)) /\ Cardinality(Due(m, p)) \in Nat
<1>1. Due(m, p) \in SUBSET Workers
  BY DEF Due
<1>2. IsFiniteSet(Due(m, p))
  BY <1>1, FS_Subset, StoreWriterAssumption
<1> QED BY <1>2, FS_CardinalityType

LEMMA DueFiniteNext ==
  ASSUME NEW m, NEW p
  PROVE  IsFiniteSet(Due(m, p)') /\ Cardinality(Due(m, p))' \in Nat
<1>1. Due(m, p)' \in SUBSET Workers
  BY DEF Due
<1>2. IsFiniteSet(Due(m, p)')
  BY <1>1, FS_Subset, StoreWriterAssumption
<1>3. Cardinality(Due(m, p)') \in Nat
  BY <1>2, FS_CardinalityType
<1> QED BY <1>2, <1>3

\* A step of worker w changes what is due by at most one.
LEMMA DueChanges ==
  ASSUME NEW w \in Workers, \A v \in Workers : v # w => work'[v] = work[v], NEW m, NEW p
  PROVE  /\ Owes(work'[w], m, p) => Cardinality(Due(m, p))' <= Cardinality(Due(m, p)) + 1
         /\ ~Owes(work'[w], m, p) /\ Owes(work[w], m, p)
              => Cardinality(Due(m, p))' = Cardinality(Due(m, p)) - 1
         /\ (Owes(work'[w], m, p) => Owes(work[w], m, p))
              => Cardinality(Due(m, p))' <= Cardinality(Due(m, p))
<1>1. \A v \in Workers : v # w => (v \in Due(m, p)' <=> v \in Due(m, p))
  BY DEF Due
<1>2. w \in Due(m, p)' <=> Owes(work'[w], m, p)
  BY DEF Due
<1>3. w \in Due(m, p) <=> Owes(work[w], m, p)
  BY DEF Due
<1>4. Due(m, p) \subseteq Workers /\ Due(m, p)' \subseteq Workers
  BY DEF Due
<1>5. ASSUME Owes(work'[w], m, p) PROVE Cardinality(Due(m, p)') <= Cardinality(Due(m, p)) + 1
  <2>1. Due(m, p)' = Due(m, p) \cup {w}
    BY <1>1, <1>2, <1>4, <1>5
  <2>2. Cardinality(Due(m, p) \cup {w})
          = IF w \in Due(m, p) THEN Cardinality(Due(m, p)) ELSE Cardinality(Due(m, p)) + 1
    BY DueFinite, FS_AddElement
  <2>3. Cardinality(Due(m, p)) \in Nat
    BY DueFinite
  <2> QED BY <2>1, <2>2, <2>3
<1>6. ASSUME ~Owes(work'[w], m, p), Owes(work[w], m, p)
      PROVE  Cardinality(Due(m, p)') = Cardinality(Due(m, p)) - 1
  <2>1. Due(m, p)' = Due(m, p) \ {w} /\ w \in Due(m, p)
    BY <1>1, <1>2, <1>3, <1>4, <1>6
  <2> QED BY <2>1, DueFinite, FS_RemoveElement
<1>7. ASSUME Owes(work'[w], m, p) => Owes(work[w], m, p)
      PROVE  Cardinality(Due(m, p)') <= Cardinality(Due(m, p))
  <2>1. Due(m, p)' \in SUBSET Due(m, p)
    BY <1>1, <1>2, <1>3, <1>4, <1>7
  <2> QED BY <2>1, DueFinite, FS_Subset
<1> QED BY <1>5, <1>6, <1>7

LEMMA BudgetTypes ==
  ASSUME IInv, NEW m \in Msgs, NEW p \in Parts(m)
  PROVE  writes[m][p] \in Nat /\ Before(m, p) \in Nat /\ p \in Nat /\ count[m] \in Nat
<1>1. writes[m] \in [Parts(m) -> Nat] /\ count[m] \in Nat
  BY DEF IInv, StoreOK, QueueOK
<1>2. p \in Nat
  BY PartsFacts
<1> QED BY <1>1, <1>2 DEF Before

\* A step that commits nothing and puts nothing more in anybody's hands.
LEMMA BudgetStays ==
  ASSUME IInv, Budget, UNCHANGED <<count, writes>>, NEW w \in Workers,
         \A v \in Workers : v # w => work'[v] = work[v],
         \A m \in Msgs : \A p \in Parts(m) : Owes(work'[w], m, p) => Owes(work[w], m, p)
  PROVE  Budget'
<1> SUFFICES ASSUME NEW m \in Msgs, NEW p \in Parts(m) PROVE Paid(m, p)'
  BY DEF Budget
<1>1. Cardinality(Due(m, p))' <= Cardinality(Due(m, p))
  BY DueChanges
<1>2. Before(m, p)' = Before(m, p) /\ writes'[m][p] = writes[m][p]
  BY DEF Before
<1>3. Cardinality(Due(m, p)) \in Nat /\ Cardinality(Due(m, p))' \in Nat
  BY DueFinite, DueFiniteNext
<1>4. writes[m][p] + Cardinality(Due(m, p)) <= Before(m, p)
  BY DEF Budget, Paid
<1>5. writes'[m][p] + Cardinality(Due(m, p))' <= Before(m, p)'
  BY <1>1, <1>2, <1>3, <1>4, BudgetTypes
<1> QED BY <1>5 DEF Paid

LEMMA InitBudget == Init => Budget
<1> SUFFICES ASSUME Init, NEW m \in Msgs, NEW p \in Parts(m) PROVE Paid(m, p)
  BY DEF Budget
<1>1. \A w \in Workers : ~Owes(work[w], m, p)
  BY DEF Init, Owes, Idle
<1>2. Due(m, p) = {}
  BY <1>1 DEF Due
<1>3. Cardinality(Due(m, p)) = 0
  BY <1>2, FS_EmptySet
<1>4. writes[m][p] = 0 /\ Before(m, p) = 0
  BY DEF Init, Before
<1> QED BY <1>3, <1>4 DEF Paid

\* A delivery begins with its first part.
LEMMA TakeBudget == ASSUME IInv, Budget, NEW w \in Workers, Take(w) PROVE Budget'
<1> DEFINE k == work[w]
<1>1. k \in Holding /\ k.cur = None /\ k.part = 1
  BY DEF IInv, WorkOK, WorkerOK, Take
<1>2. PICK d \in k.fetched : work' = [work EXCEPT ![w] = [k EXCEPT !.fetched = @ \ {d}, !.cur = d]]
  BY DEF Take
<1> DEFINE h == [k EXCEPT !.fetched = @ \ {d}, !.cur = d]
<1>3. /\ h.fetched = k.fetched \ {d} /\ h.cur = d /\ h.flows = k.flows /\ h.part = 1
  BY <1>1 DEF Holding
<1>4. work'[w] = h /\ \A v \in Workers : v # w => work'[v] = work[v]
  BY <1>2 DEF IInv, WorkOK
<1>5. UNCHANGED <<count, writes>>
  BY DEF Take, jetstream
<1> HIDE DEF h
<1>6. \A m \in Msgs : \A p \in Parts(m) : Owes(h, m, p) => Owes(k, m, p)
  BY <1>3 DEF Owes
<1> QED BY <1>4, <1>5, <1>6, BudgetStays

LEMMA CrashBudget == ASSUME IInv, Budget, NEW w \in Workers, Crash(w) PROVE Budget'
<1>1. work'[w] = Idle /\ \A v \in Workers : v # w => work'[v] = work[v]
  BY DEF IInv, WorkOK, Crash
<1>2. \A m \in Msgs : \A p \in Parts(m) : ~Owes(Idle, m, p)
  BY DEF Owes, Idle
<1>3. UNCHANGED <<count, writes>>
  BY DEF Crash, jetstream
<1> QED BY <1>1, <1>2, <1>3, BudgetStays

LEMMA AnswerBudget ==
  ASSUME IInv, Budget, Holders, NEW w \in Workers,
         AckMsg(w) \/ Retry(w) \/ DeadLetter(w) \/ DeadLetterFails(w)
  PROVE  Budget'
<1> DEFINE k == work[w]
<1>1. PICK d : \/ work' = [work EXCEPT ![w] = [k EXCEPT !.oks = @ \ {d}]]
               \/ work' = [work EXCEPT ![w] = [k EXCEPT !.errs = @ \ {d}]]
  BY DEF AckMsg, Retry, DeadLetter, DeadLetterFails
<1>2. /\ work'[w] \in {[k EXCEPT !.oks = @ \ {d}], [k EXCEPT !.errs = @ \ {d}]}
      /\ \A v \in Workers : v # w => work'[v] = work[v]
  BY <1>1 DEF IInv, WorkOK
<1>3. k \in Holding
  BY DEF IInv, WorkOK
<1>4. /\ work'[w].fetched = k.fetched /\ work'[w].flows = k.flows
      /\ work'[w].cur = k.cur /\ work'[w].part = k.part
  BY <1>2, <1>3 DEF Holding
<1>5. \A m \in Msgs : \A p \in Parts(m) : Owes(work'[w], m, p) => Owes(k, m, p)
  BY <1>4 DEF Owes
<1>6. UNCHANGED <<count, writes>>
  BY DEF AckMsg, Retry, DeadLetter, DeadLetterFails
<1> QED BY <1>2, <1>5, <1>6, BudgetStays

\* A delivery more is a commit more that may come.
LEMMA FetchBudget == ASSUME IInv, Budget, NEW w \in Workers, Fetch(w) PROVE Budget'
<1>1. PICK S \in SUBSET {m \in Msgs : status[m] = "ready"} :
        /\ count' = [m \in Msgs |-> IF m \in S THEN count[m] + 1 ELSE count[m]]
        /\ work' = [work EXCEPT ![w] =
             [Idle EXCEPT !.fetched = {[m |-> m, n |-> count'[m]] : m \in S \cap Telemetry},
                          !.flows = {[m |-> m, n |-> count'[m]] : m \in S \cap Flows}]]
  BY DEF Fetch
<1>2. /\ work'[w].fetched = {[m |-> m, n |-> count'[m]] : m \in S \cap Telemetry}
      /\ work'[w].flows = {[m |-> m, n |-> count'[m]] : m \in S \cap Flows}
      /\ work'[w].cur = None
      /\ \A v \in Workers : v # w => work'[v] = work[v]
  BY <1>1 DEF IInv, WorkOK, Idle
<1> SUFFICES ASSUME NEW m \in Msgs, NEW p \in Parts(m) PROVE Paid(m, p)'
  BY DEF Budget
<1>3. Owes(work'[w], m, p) => m \in S /\ p = 1
  BY <1>2 DEF Owes
<1>4. Cardinality(Due(m, p))' <= Cardinality(Due(m, p)) + (IF m \in S /\ p = 1 THEN 1 ELSE 0)
  <2>1. CASE m \in S /\ p = 1
    <3>1. Cardinality(Due(m, p)) \in Nat /\ Cardinality(Due(m, p))' \in Nat
      BY DueFinite, DueFiniteNext
    <3>2. Owes(work'[w], m, p) => Cardinality(Due(m, p))' <= Cardinality(Due(m, p)) + 1
      BY <1>2, DueChanges
    <3>3. ~Owes(work'[w], m, p) => Cardinality(Due(m, p))' <= Cardinality(Due(m, p))
      BY <1>2, DueChanges
    <3> QED BY <2>1, <3>1, <3>2, <3>3
  <2>2. CASE ~(m \in S /\ p = 1)
    <3>1. Cardinality(Due(m, p))' <= Cardinality(Due(m, p))
      BY <1>2, <1>3, <2>2, DueChanges
    <3> QED BY <2>2, <3>1, DueFinite
  <2> QED BY <2>1, <2>2
<1>5. writes' = writes
  BY DEF Fetch
<1>6. Before(m, p)' >= Before(m, p) + (IF m \in S /\ p = 1 THEN 1 ELSE 0) /\ Before(m, p)' \in Nat
  <2>1. Before(m, p) \in Nat /\ count[m] \in Nat /\ count'[m] \in Nat /\ count'[m] >= count[m]
    BY <1>1, BudgetTypes
  <2>2. CASE p - 1 \in Parts(m)
    <3>1. p # 1
      BY <2>2, PartsFacts
    <3> QED BY <1>5, <2>1, <2>2, <3>1 DEF Before
  <2>3. CASE p - 1 \notin Parts(m)
    BY <1>1, <2>1, <2>3 DEF Before
  <2> QED BY <2>2, <2>3
<1>7. writes[m][p] + Cardinality(Due(m, p)) <= Before(m, p)
  BY DEF Budget, Paid
<1>8. Cardinality(Due(m, p)) \in Nat /\ Cardinality(Due(m, p))' \in Nat
  BY DueFinite, DueFiniteNext
<1>9. writes'[m][p] + Cardinality(Due(m, p))' <= Before(m, p)'
  BY <1>4, <1>5, <1>6, <1>7, <1>8, BudgetTypes
<1> QED BY <1>9 DEF Paid

\* A commit is paid for by what its part owed, and pays for the part after it.
LEMMA WritePartBudget == ASSUME IInv, Budget, Holders, NEW w \in Workers, WritePart(w) PROVE Budget'
<1> DEFINE k == work[w]
           d == k.cur
           i == k.part
<1>1. k \in Holding /\ Tidy(k) /\ d # None /\ i \in Parts(d.m) /\ d.m \in Msgs
  BY DEF IInv, WorkOK, WorkerOK, Holders, WritePart, Holding, Delivery
<1>2. PICK committed \in BOOLEAN, error \in BOOLEAN :
        /\ committed \/ error
        /\ writes' = IF committed THEN [writes EXCEPT ![d.m][i] = @ + 1] ELSE writes
        /\ work' = [work EXCEPT ![w] = IF error THEN Failed(w) ELSE AfterPart(w)]
  BY DEF WritePart
<1>3. /\ work'[w] = IF error THEN Failed(w) ELSE AfterPart(w)
      /\ \A v \in Workers : v # w => work'[v] = work[v]
  BY <1>2 DEF IInv, WorkOK
<1>4. /\ work'[w].fetched = k.fetched /\ work'[w].flows = k.flows
      /\ \/ work'[w].cur = None
         \/ ~error /\ work'[w].cur = d /\ work'[w].part = i + 1
  BY <1>1, <1>3 DEF Failed, AfterPart, Handled, Holding
<1>5. i \in Nat /\ i >= 1
  BY <1>1, PartsFacts
<1>6. \A e \in k.fetched \cup k.flows : e.m # d.m
  <2>1. d.m \in Telemetry /\ \A e \in k.fetched : e.m # d.m
    BY <1>1 DEF Tidy, TelemetryDelivery
  <2>2. \A e \in k.flows : e.m \in Flows
    BY <1>1 DEF Holding, FlowDelivery
  <2> QED BY <2>1, <2>2, StoreWriterAssumption
<1> SUFFICES ASSUME NEW m \in Msgs, NEW p \in Parts(m) PROVE Paid(m, p)'
  BY DEF Budget
<1> DEFINE here == m = d.m /\ p = i
           next == m = d.m /\ p = i + 1
           C == Cardinality(Due(m, p))
<1>7. Owes(work'[w], m, p) => ~here /\ (Owes(k, m, p) \/ (next /\ committed))
  <2> HIDE DEF d, i, k
  <2>1. CASE work'[w].cur = None
    BY <1>4, <1>6, <2>1 DEF Owes
  <2>2. CASE ~error /\ work'[w].cur = d /\ work'[w].part = i + 1
    BY <1>2, <1>4, <1>5, <1>6, <2>2 DEF Owes
  <2> QED BY <1>4, <2>1, <2>2
<1>8. here => Owes(k, m, p)
  BY <1>1 DEF Owes
<1>9. C \in Nat /\ C' \in Nat
  BY DueFinite, DueFiniteNext
<1>10. here => C' = C - 1
  BY <1>3, <1>7, <1>8, DueChanges
<1>11. next /\ committed => C' <= C + 1
  <2>1. Owes(work'[w], m, p) => C' <= C + 1
    BY <1>3, DueChanges
  <2>2. ~Owes(work'[w], m, p) => C' <= C
    BY <1>3, DueChanges
  <2> QED BY <1>9, <2>1, <2>2
<1>12. ~(next /\ committed) => C' <= C
  BY <1>3, <1>7, DueChanges
<1>13. /\ writes'[d.m] = IF committed THEN [writes[d.m] EXCEPT ![i] = @ + 1] ELSE writes[d.m]
       /\ m # d.m => writes'[m] = writes[m]
  BY <1>1, <1>2 DEF IInv, StoreOK
<1>14. \A q \in Parts(m) :
         writes'[m][q] = IF committed /\ m = d.m /\ q = i THEN writes[m][q] + 1 ELSE writes[m][q]
  BY <1>1, <1>13 DEF IInv, StoreOK
<1>15. \A q \in Parts(m) : writes[m][q] \in Nat
  BY BudgetTypes
<1>16. p \in Nat /\ Before(m, p) \in Nat /\ count' = count
  BY BudgetTypes DEF WritePart, jetstream
<1>17. Before(m, p)' = IF next /\ committed THEN Before(m, p) + 1 ELSE Before(m, p)
  <2>1. CASE p - 1 \in Parts(m)
    <3>1. p - 1 = i <=> p = i + 1
      BY <1>5, <1>16
    <3>2. Before(m, p)' = writes'[m][p - 1] /\ Before(m, p) = writes[m][p - 1]
      BY <2>1 DEF Before
    <3> QED BY <1>14, <2>1, <3>1, <3>2
  <2>2. CASE p - 1 \notin Parts(m)
    <3>1. ~next
      BY <1>1, <1>5, <2>2
    <3> QED BY <1>16, <2>2, <3>1 DEF Before
  <2> QED BY <2>1, <2>2
<1>18. writes[m][p] + C <= Before(m, p)
  BY DEF Budget, Paid
<1>19. ~(here /\ next)
  BY <1>5
<1>20. writes'[m][p] = IF committed /\ here THEN writes[m][p] + 1 ELSE writes[m][p]
  BY <1>14
<1>21. writes'[m][p] + C' <= Before(m, p)'
  <2> HIDE DEF here, next, C, d, i, k
  <2>1. CASE here
    BY <1>9, <1>10, <1>15, <1>16, <1>17, <1>18, <1>19, <1>20, <2>1
  <2>2. CASE next /\ committed
    BY <1>9, <1>11, <1>15, <1>16, <1>17, <1>18, <1>19, <1>20, <2>2
  <2>3. CASE ~here /\ ~(next /\ committed)
    BY <1>9, <1>12, <1>15, <1>16, <1>17, <1>18, <1>20, <2>3
  <2> QED BY <2>1, <2>2, <2>3
<1> QED BY <1>21 DEF Paid

LEMMA FlushFlowsBudget == ASSUME IInv, Budget, Holders, NEW w \in Workers, FlushFlows(w) PROVE Budget'
<1> DEFINE k == work[w]
<1>1. k \in Holding /\ Tidy(k) /\ k.fetched = {} /\ k.cur = None /\ ~Answering(w)
  BY DEF IInv, WorkOK, Holders, FlushFlows
<1>2. PICK committed \in BOOLEAN, error \in BOOLEAN :
        /\ writes' = IF committed
                       THEN [m \in Msgs |-> IF \E d \in k.flows : d.m = m
                               THEN [writes[m] EXCEPT ![1] = @ + 1] ELSE writes[m]]
                       ELSE writes
        /\ work' = [work EXCEPT ![w] = Flushed(w, error)]
  BY DEF FlushFlows
<1>3. work'[w] = Flushed(w, error) /\ \A v \in Workers : v # w => work'[v] = work[v]
  BY <1>2 DEF IInv, WorkOK
<1>4. work'[w].fetched = {} /\ work'[w].flows = {} /\ work'[w].cur = None
  BY <1>1, <1>3, FlushTidy
<1> SUFFICES ASSUME NEW m \in Msgs, NEW p \in Parts(m) PROVE Paid(m, p)'
  BY DEF Budget
<1> DEFINE due == \E d \in k.flows : d.m = m
           C == Cardinality(Due(m, p))
<1>5. ~Owes(work'[w], m, p)
  BY <1>4 DEF Owes
<1>6. due => m \in Flows /\ p = 1 /\ Parts(m) = {1}
  <2>1. due => m \in Flows
    BY <1>1 DEF Holding, FlowDelivery
  <2> QED BY <2>1, PartsFacts
<1>7. due => Owes(k, m, p)
  BY <1>6 DEF Owes
<1>8. C \in Nat /\ C' \in Nat
  BY DueFinite, DueFiniteNext
<1>9. (due => C' = C - 1) /\ C' <= C
  BY <1>3, <1>5, <1>7, DueChanges
<1>10. writes'[m] = IF committed /\ due THEN [writes[m] EXCEPT ![1] = @ + 1] ELSE writes[m]
  BY <1>2
<1>11. writes[m] \in [Parts(m) -> Nat] /\ Before(m, p) \in Nat /\ writes[m][p] \in Nat
  BY BudgetTypes DEF IInv, StoreOK
<1>12. writes'[m][p] = IF committed /\ due THEN writes[m][p] + 1 ELSE writes[m][p]
  BY <1>6, <1>10, <1>11
<1>13. Before(m, p)' = Before(m, p)
  <2>1. count' = count
    BY DEF FlushFlows, jetstream
  <2>2. CASE due
    <3>1. p - 1 \notin Parts(m)
      BY <1>6, <2>2
    <3> QED BY <2>1, <3>1 DEF Before
  <2>3. CASE ~due
    BY <1>10, <2>1, <2>3 DEF Before
  <2> QED BY <2>2, <2>3
<1>14. writes[m][p] + C <= Before(m, p)
  BY DEF Budget, Paid
<1>15. writes'[m][p] + C' <= Before(m, p)'
  <2> HIDE DEF due, C, k
  <2> QED BY <1>8, <1>9, <1>11, <1>12, <1>13, <1>14
<1> QED BY <1>15 DEF Paid

LEMMA NextBudget == IInv /\ Holders /\ Budget /\ [Next]_vars => Budget'
<1> SUFFICES ASSUME IInv, Holders, Budget, [Next]_vars PROVE Budget'
  OBVIOUS
<1>1. ASSUME UNCHANGED <<work, writes, count>> PROVE Budget'
  BY <1>1 DEF Budget, Paid, Before, Due
<1>2. ASSUME NEW m \in Msgs, Publish(m) \/ AckWaitPasses(m) PROVE Budget'
  BY <1>1, <1>2 DEF Publish, AckWaitPasses
<1>3. ASSUME NEW w \in Workers, Worker(w) \/ Crash(w) PROVE Budget'
  BY <1>3, FetchBudget, TakeBudget, WritePartBudget, FlushFlowsBudget, AnswerBudget,
     CrashBudget DEF Worker
<1>4. CASE UNCHANGED vars
  BY <1>1, <1>4 DEF vars, jetstream
<1> QED BY <1>2, <1>3, <1>4 DEF Next, Runs

LEMMA BudgetInvariant == Spec => [](IInv /\ Holders /\ Budget)
<1>1. Init => IInv /\ Holders /\ Budget
  BY InitIInv, InitHolders, InitBudget
<1>2. IInv /\ Holders /\ Budget /\ [Next]_vars => (IInv /\ Holders /\ Budget)'
  BY NextIInv, NextHolders, NextBudget
<1> QED BY <1>1, <1>2, PTL DEF Spec

\* Redelivery is the only source of duplicates: no part of a batch is committed
\* more often than the batch was delivered, nor than the part before it, whoever
\* fails, stops, or is overtaken between two transactions.
THEOREM CommitsPerDelivery == Spec => []OncePerDelivery
<1>1. IInv /\ Budget => OncePerDelivery
  <2> SUFFICES ASSUME IInv, Budget, NEW m \in Msgs, NEW p \in Parts(m)
               PROVE  writes[m][p] <= Before(m, p)
    BY DEF OncePerDelivery, Before
  <2>1. writes[m][p] + Cardinality(Due(m, p)) <= Before(m, p)
    BY DEF Budget, Paid
  <2> QED BY <2>1, BudgetTypes, DueFinite
<1> QED BY <1>1, BudgetInvariant, PTL

-----------------------------------------------------------------------------
(* What it takes to use up the deliveries of a message.                    *)

\* The deliveries of m before the last two that somebody still holds: only they
\* can send m back without a strike, and each of them once.
HeldEarly(m) == {n \in 1..(MaxDeliver - 2) :
                   \E w \in Workers : \E d \in Carried(work[w]) : d.m = m /\ d.n = n}
Early(m) == IF count[m] < MaxDeliver - 2 THEN count[m] ELSE MaxDeliver - 2

\* How often m has come back to the queue.
Requeues(m) == IF status[m] = "inflight" THEN count[m] - 1 ELSE count[m]

\* Each return is a strike, or was made by an early delivery nobody holds now.
Explained(m) ==
  /\ status[m] = "inflight" => count[m] > 0
  /\ status[m] = "exhausted" => count[m] = MaxDeliver
  /\ status[m] \notin {"acked", "termed"} /\ strikes[m] < 2
       => Requeues(m) + Cardinality(HeldEarly(m)) <= strikes[m] + Early(m)
ReturnsExplained == \A m \in Msgs : Explained(m)

LEMMA HeldFinite ==
  ASSUME NEW m
  PROVE  /\ IsFiniteSet(HeldEarly(m)) /\ Cardinality(HeldEarly(m)) \in Nat
         /\ Cardinality(HeldEarly(m))' \in Nat
<1> DEFINE I == 1..(MaxDeliver - 2)
<1>1. IsFiniteSet(I)
  BY FS_Interval, StoreWriterAssumption
<1> HIDE DEF I
<1>2. HeldEarly(m) \in SUBSET I /\ HeldEarly(m)' \in SUBSET I
  BY DEF HeldEarly, I
<1>3. IsFiniteSet(HeldEarly(m)) /\ IsFiniteSet(HeldEarly(m)')
  BY <1>1, <1>2, FS_Subset
<1>4. Cardinality(HeldEarly(m)) \in Nat /\ Cardinality(HeldEarly(m)') \in Nat
  BY <1>3, FS_CardinalityType
<1> QED BY <1>3, <1>4

LEMMA QueueTypes ==
  ASSUME IInv, NEW m \in Msgs
  PROVE  /\ status[m] \in Statuses /\ count[m] \in Nat /\ strikes[m] \in 0..2
         /\ count[m] <= MaxDeliver /\ MaxDeliver \in Nat /\ MaxDeliver >= 2
         /\ status[m] = "ready" => count[m] < MaxDeliver
         /\ Early(m) \in Nat
<1>1. MaxDeliver \in Nat /\ MaxDeliver >= 2
  BY StoreWriterAssumption
<1>2. /\ status[m] \in Statuses /\ count[m] \in Nat /\ strikes[m] \in 0..2
      /\ count[m] <= MaxDeliver /\ (status[m] = "ready" => count[m] < MaxDeliver)
  BY <1>1 DEF IInv, QueueOK, DeliveryLeft
<1>3. Early(m) \in Nat
  BY <1>1, <1>2 DEF Early
<1> QED BY <1>1, <1>2, <1>3

\* A step that takes up nothing.
LEMMA HeldShrinks ==
  ASSUME \A w \in Workers : Carried(work'[w]) \subseteq Carried(work[w]), NEW m
  PROVE  /\ HeldEarly(m)' \subseteq HeldEarly(m)
         /\ Cardinality(HeldEarly(m))' <= Cardinality(HeldEarly(m))
<1>1. HeldEarly(m)' \in SUBSET HeldEarly(m)
  BY DEF HeldEarly
<1>2. Cardinality(HeldEarly(m)') <= Cardinality(HeldEarly(m))
  BY <1>1, HeldFinite, FS_Subset
<1> QED BY <1>1, <1>2

\* Such a step explains what it leaves as it is, or closes.
LEMMA ExplainedStays ==
  ASSUME IInv, NEW m \in Msgs, Explained(m), count'[m] = count[m], strikes'[m] = strikes[m],
         \A w \in Workers : Carried(work'[w]) \subseteq Carried(work[w]),
         status'[m] = status[m] \/ status'[m] \in {"acked", "termed"}
  PROVE  Explained(m)'
<1>1. Cardinality(HeldEarly(m))' <= Cardinality(HeldEarly(m))
  BY HeldShrinks
<1>2. Cardinality(HeldEarly(m)) \in Nat /\ Cardinality(HeldEarly(m))' \in Nat
  BY HeldFinite
<1>3. CASE status'[m] = status[m]
  <2>1. Requeues(m)' = Requeues(m) /\ Early(m)' = Early(m) /\ Requeues(m) \in Int
    BY <1>3, QueueTypes DEF Requeues, Early
  <2> QED BY <1>1, <1>2, <1>3, <2>1, QueueTypes DEF Explained
<1>4. CASE status'[m] \in {"acked", "termed"}
  BY <1>4 DEF Explained
<1> QED BY <1>3, <1>4

\* A message comes back: its return is a strike, or puts an early delivery down.
LEMMA ReturnExplained ==
  ASSUME IInv, NEW m \in Msgs, Explained(m), status[m] = "inflight", UNCHANGED count,
         status' = Requeued(m),
         \A w \in Workers : Carried(work'[w]) \subseteq Carried(work[w]),
         \/ strikes'[m] = Strike(strikes[m])
         \/ /\ strikes'[m] = strikes[m]
            /\ Cardinality(HeldEarly(m))' <= Cardinality(HeldEarly(m)) - 1
  PROVE  Explained(m)'
<1>1. Cardinality(HeldEarly(m))' <= Cardinality(HeldEarly(m))
  BY HeldShrinks
<1>2. Cardinality(HeldEarly(m)) \in Nat /\ Cardinality(HeldEarly(m))' \in Nat
  BY HeldFinite
<1>3. status'[m] = IF count[m] < MaxDeliver THEN "ready" ELSE "exhausted"
  BY DEF Requeued, IInv, QueueOK
<1>4. count[m] \in Nat /\ count[m] <= MaxDeliver /\ MaxDeliver \in Nat /\ strikes[m] \in 0..2
      /\ Early(m) \in Nat /\ count[m] > 0
  BY QueueTypes DEF Explained
<1>5. Early(m)' = Early(m)
  BY DEF Early
<1>6. Requeues(m) = count[m] - 1 /\ Requeues(m)' = count[m]
  BY <1>3 DEF Requeues
<1>7. status'[m] = "exhausted" => count'[m] = MaxDeliver
  BY <1>3, <1>4
<1>8. strikes[m] < 2 => count[m] - 1 + Cardinality(HeldEarly(m)) <= strikes[m] + Early(m)
  BY <1>6 DEF Explained
<1>9. CASE strikes'[m] = Strike(strikes[m])
  <2>1. strikes'[m] = IF strikes[m] < 2 THEN strikes[m] + 1 ELSE strikes[m]
    BY <1>9 DEF Strike
  <2>2. strikes'[m] < 2 => strikes[m] < 2 /\ strikes'[m] = strikes[m] + 1
    BY <1>4, <2>1
  <2>3. strikes'[m] < 2 => count[m] + Cardinality(HeldEarly(m))' <= strikes'[m] + Early(m)'
    BY <1>1, <1>2, <1>4, <1>5, <1>8, <2>2
  <2> QED BY <1>3, <1>6, <1>7, <2>3 DEF Explained
<1>10. CASE /\ strikes'[m] = strikes[m]
            /\ Cardinality(HeldEarly(m))' <= Cardinality(HeldEarly(m)) - 1
  <2>1. strikes'[m] < 2 => count[m] + Cardinality(HeldEarly(m))' <= strikes'[m] + Early(m)'
    BY <1>2, <1>4, <1>5, <1>8, <1>10
  <2> QED BY <1>3, <1>6, <1>7, <2>1 DEF Explained
<1> QED BY <1>9, <1>10

\* What a worker's step, a fetch apart, keeps of everybody's deliveries.
LEMMA NothingTakenUp ==
  ASSUME IInv, Holders, NEW w \in Workers,
         Take(w) \/ WritePart(w) \/ FlushFlows(w) \/ AckMsg(w) \/ Retry(w)
           \/ DeadLetter(w) \/ DeadLetterFails(w) \/ Crash(w)
  PROVE  /\ \A v \in Workers : Carried(work'[v]) \subseteq Carried(work[v])
         /\ UNCHANGED count
<1>1. PICK h : work' = [work EXCEPT ![w] = h] /\ Carried(h) \subseteq Carried(work[w])
  BY WorkerMoves
<1>2. \A v \in Workers : work'[v] = IF v = w THEN h ELSE work[v]
  BY <1>1 DEF IInv, WorkOK
<1>3. UNCHANGED count
  BY DEF Take, WritePart, FlushFlows, AckMsg, Retry, DeadLetter, DeadLetterFails, Crash, jetstream
<1> QED BY <1>1, <1>2, <1>3

LEMMA PublishExplained ==
  ASSUME IInv, ReturnsExplained, NEW o \in Msgs, Publish(o) PROVE ReturnsExplained'
<1> SUFFICES ASSUME NEW m \in Msgs PROVE Explained(m)'
  BY DEF ReturnsExplained
<1>1. HeldEarly(m)' = HeldEarly(m) /\ Early(m)' = Early(m)
  BY DEF HeldEarly, Early, Publish
<1>2. status'[m] = status[m] \/ (status[m] = "none" /\ status'[m] = "ready")
  BY DEF Publish, IInv, QueueOK
<1>3. UNCHANGED <<count, strikes>>
  BY DEF Publish
<1>4. Requeues(m)' = Requeues(m)
  BY <1>2, <1>3 DEF Requeues
<1> QED BY <1>1, <1>2, <1>3, <1>4 DEF ReturnsExplained, Explained

LEMMA AckWaitExplained ==
  ASSUME IInv, ReturnsExplained, NEW o \in Msgs, AckWaitPasses(o) PROVE ReturnsExplained'
<1> SUFFICES ASSUME NEW m \in Msgs PROVE Explained(m)'
  BY DEF ReturnsExplained
<1>1. \A w \in Workers : Carried(work'[w]) \subseteq Carried(work[w])
  BY DEF AckWaitPasses
<1>2. status[o] = "inflight" /\ UNCHANGED count /\ status' = Requeued(o) /\ Explained(m)
      /\ strikes' = [strikes EXCEPT ![o] = Strike(@)]
  BY DEF AckWaitPasses, Overdue, ReturnsExplained
<1>3. CASE m = o
  <2>1. strikes'[m] = Strike(strikes[m])
    BY <1>2, <1>3 DEF IInv, QueueOK
  <2> QED BY <1>1, <1>2, <1>3, <2>1, ReturnExplained
<1>4. CASE m # o
  <2>1. status'[m] = status[m] /\ strikes'[m] = strikes[m] /\ count'[m] = count[m]
    BY <1>2, <1>4 DEF Requeued, IInv, QueueOK
  <2> QED BY <1>1, <1>2, <2>1, ExplainedStays
<1> QED BY <1>3, <1>4

\* A delivery more, and a return less that it may still make, if it is early.
LEMMA FetchExplained ==
  ASSUME IInv, Holders, ReturnsExplained, NEW w \in Workers, Fetch(w) PROVE ReturnsExplained'
<1>1. PICK S \in SUBSET {m \in Msgs : status[m] = "ready"} :
        /\ status' = [m \in Msgs |-> IF m \in S THEN "inflight" ELSE status[m]]
        /\ count' = [m \in Msgs |-> IF m \in S THEN count[m] + 1 ELSE count[m]]
        /\ work' = [work EXCEPT ![w] =
             [Idle EXCEPT !.fetched = {[m |-> m, n |-> count'[m]] : m \in S \cap Telemetry},
                          !.flows = {[m |-> m, n |-> count'[m]] : m \in S \cap Flows}]]
  BY DEF Fetch
<1>2. /\ work'[w].fetched = {[m |-> m, n |-> count'[m]] : m \in S \cap Telemetry}
      /\ work'[w].flows = {[m |-> m, n |-> count'[m]] : m \in S \cap Flows}
      /\ work'[w].cur = None /\ work'[w].oks = {} /\ work'[w].errs = {}
      /\ \A v \in Workers : v # w => work'[v] = work[v]
  BY <1>1 DEF IInv, WorkOK, Idle
<1>3. \A d \in Carried(work'[w]) : d.m \in S /\ d.n = count'[d.m]
  BY <1>2 DEF Carried
<1>4. strikes' = strikes
  BY DEF Fetch
<1> SUFFICES ASSUME NEW m \in Msgs PROVE Explained(m)'
  BY DEF ReturnsExplained
<1>5. Cardinality(HeldEarly(m)) \in Nat /\ Cardinality(HeldEarly(m))' \in Nat /\ IsFiniteSet(HeldEarly(m))
  BY HeldFinite
<1>6. Explained(m)
  BY DEF ReturnsExplained
<1>7. CASE m \in S
  <2>1. status[m] = "ready" /\ status'[m] = "inflight" /\ count'[m] = count[m] + 1
    BY <1>1, <1>7
  <2>2. count[m] \in Nat /\ count[m] < MaxDeliver /\ MaxDeliver \in Nat /\ Early(m) \in Nat
        /\ strikes[m] \in 0..2
    BY <2>1, QueueTypes
  <2>3. Requeues(m) = count[m] /\ Requeues(m)' = count[m]
    BY <2>1, <2>2 DEF Requeues
  <2>4. HeldEarly(m)' \subseteq HeldEarly(m) \cup {count[m] + 1}
    BY <1>2, <1>3, <2>1 DEF HeldEarly
  <2>5. Cardinality(HeldEarly(m))' - Cardinality(HeldEarly(m)) <= Early(m)' - Early(m)
    <3>1. CASE count[m] < MaxDeliver - 2
      <4>1. Early(m) = count[m] /\ Early(m)' = count[m] + 1
        BY <2>1, <2>2, <3>1 DEF Early
      <4> DEFINE more == HeldEarly(m) \cup {count[m] + 1}
      <4>2. IsFiniteSet(more) /\ Cardinality(more) \in Nat
        BY <1>5, FS_AddElement, FS_CardinalityType
      <4>4. Cardinality(more) = IF count[m] + 1 \in HeldEarly(m) THEN Cardinality(HeldEarly(m))
                                                                ELSE Cardinality(HeldEarly(m)) + 1
        BY <1>5, FS_AddElement
      <4>5. Cardinality(more) <= Cardinality(HeldEarly(m)) + 1
        BY <1>5, <4>4
      <4>3. Cardinality(HeldEarly(m)') <= Cardinality(more)
        BY <2>4, <4>2, FS_Subset
      <4>6. Cardinality(HeldEarly(m))' <= Cardinality(HeldEarly(m)) + 1
        <5> HIDE DEF more
        <5> QED BY <1>5, <4>2, <4>3, <4>5
      <4> QED BY <1>5, <2>2, <4>1, <4>6
    <3>2. CASE ~(count[m] < MaxDeliver - 2)
      <4>1. Early(m) = MaxDeliver - 2 /\ Early(m)' = MaxDeliver - 2
        BY <2>1, <2>2, <3>2 DEF Early
      <4>2. HeldEarly(m)' \in SUBSET HeldEarly(m)
        BY <2>2, <2>4, <3>2 DEF HeldEarly
      <4>3. Cardinality(HeldEarly(m)') <= Cardinality(HeldEarly(m))
        BY <1>5, <4>2, FS_Subset
      <4> QED BY <1>5, <2>2, <4>1, <4>3
    <3> QED BY <3>1, <3>2
  <2>6. Early(m)' \in Nat
    BY <2>1, <2>2 DEF Early
  <2>7. strikes[m] < 2 => count[m] + Cardinality(HeldEarly(m)) <= strikes[m] + Early(m)
    BY <1>6, <2>1, <2>3 DEF Explained
  <2>8. strikes'[m] < 2 => Requeues(m)' + Cardinality(HeldEarly(m))' <= strikes'[m] + Early(m)'
    BY <1>4, <1>5, <2>2, <2>3, <2>5, <2>6, <2>7
  <2> QED BY <2>1, <2>2, <2>8 DEF Explained
<1>8. CASE m \notin S
  <2>1. status'[m] = status[m] /\ count'[m] = count[m]
    BY <1>1, <1>8
  <2>2. HeldEarly(m)' \in SUBSET HeldEarly(m)
    BY <1>2, <1>3, <1>8 DEF HeldEarly
  <2>3. Cardinality(HeldEarly(m)') <= Cardinality(HeldEarly(m))
    BY <1>5, <2>2, FS_Subset
  <2>4. Requeues(m)' = Requeues(m) /\ Early(m)' = Early(m) /\ Requeues(m) \in Int
        /\ Early(m) \in Nat /\ strikes[m] \in 0..2
    BY <2>1, QueueTypes DEF Requeues, Early
  <2> QED BY <1>4, <1>5, <1>6, <2>1, <2>3, <2>4 DEF Explained
<1> QED BY <1>7, <1>8

\* A step that leaves the queue as it is, or closes a message.
LEMMA QuietExplained ==
  ASSUME IInv, Holders, ReturnsExplained, NEW w \in Workers,
         Take(w) \/ WritePart(w) \/ FlushFlows(w) \/ AckMsg(w) \/ DeadLetter(w) \/ Crash(w)
  PROVE  ReturnsExplained'
<1>1. (\A v \in Workers : Carried(work'[v]) \subseteq Carried(work[v])) /\ UNCHANGED count
  BY NothingTakenUp
<1>2. UNCHANGED strikes
  BY DEF Take, WritePart, FlushFlows, AckMsg, DeadLetter, Crash, jetstream
<1>3. \A m \in Msgs : status'[m] = status[m] \/ status'[m] \in {"acked", "termed"}
  <2>1. CASE Take(w) \/ WritePart(w) \/ FlushFlows(w) \/ Crash(w)
    BY <2>1 DEF Take, WritePart, FlushFlows, Crash, jetstream
  <2>2. CASE AckMsg(w)
    BY <2>2 DEF AckMsg, Ack, IInv, QueueOK
  <2>3. CASE DeadLetter(w)
    BY <2>3 DEF DeadLetter, Term, IInv, QueueOK
  <2> QED BY <2>1, <2>2, <2>3
<1>4. ASSUME NEW m \in Msgs PROVE Explained(m)'
  BY <1>1, <1>2, <1>3, ExplainedStays DEF ReturnsExplained
<1> QED BY <1>4 DEF ReturnsExplained

\* A nak: the delivery it answers is put down, and is the only one of its number.
LEMMA NakPutsDown ==
  ASSUME IInv, Holders, NEW w \in Workers, NEW d \in work[w].errs, d.n \in 1..(MaxDeliver - 2),
         work' = [work EXCEPT ![w].errs = @ \ {d}]
  PROVE  Cardinality(HeldEarly(d.m))' <= Cardinality(HeldEarly(d.m)) - 1
<1> DEFINE k == work[w]
           h == [k EXCEPT !.errs = @ \ {d}]
           H == HeldEarly(d.m)
<1>1. k \in Holding /\ Tidy(k) /\ d \in Carried(k)
  BY DEF IInv, WorkOK, Holders, Carried
<1>2. work'[w] = h /\ \A v \in Workers : v # w => work'[v] = work[v]
  BY DEF IInv, WorkOK
<1>3. Carried(h) \subseteq Carried(k) /\ d \notin Carried(h)
  BY <1>1, AnswerTidy
<1> HIDE DEF h
<1>4. \A v \in Workers : Carried(work'[v]) \subseteq Carried(work[v])
  BY <1>2, <1>3
<1>5. \A v \in Workers : \A e \in Carried(work[v]) : e.m = d.m /\ e.n = d.n => e = d
  <2>1. \A v \in Workers : Carried(work[v]) \subseteq Delivery
    <3>1. FlowDelivery \subseteq Delivery
      BY DEF FlowDelivery, Delivery, Msgs
    <3> QED BY <3>1 DEF IInv, WorkOK, Holding, Carried
  <2>2. \A e \in Delivery : e = [m |-> e.m, n |-> e.n]
    BY DEF Delivery
  <2> QED BY <1>1, <2>1, <2>2
<1>6. \A v \in Workers : d \notin Carried(work'[v])
  BY <1>1, <1>2, <1>3 DEF Holders, OneHolder
<1>7. d.n \in H
  BY <1>1 DEF HeldEarly
<1>8. d.n \notin H'
  BY <1>4, <1>5, <1>6 DEF HeldEarly
<1>9. H' \subseteq H
  BY <1>4, HeldShrinks
<1>10. H' \in SUBSET (H \ {d.n})
  BY <1>8, <1>9
<1>11. IsFiniteSet(H) /\ Cardinality(H) \in Nat /\ Cardinality(H') \in Nat
  BY HeldFinite
<1>12. IsFiniteSet(H \ {d.n}) /\ Cardinality(H \ {d.n}) = Cardinality(H) - 1
  BY <1>7, <1>11, FS_RemoveElement
<1>13. Cardinality(H') <= Cardinality(H \ {d.n})
  BY <1>10, <1>12, FS_Subset
<1> QED BY <1>11, <1>12, <1>13

LEMMA NakExplained ==
  ASSUME IInv, Holders, ReturnsExplained, NEW w \in Workers, Retry(w) \/ DeadLetterFails(w)
  PROVE  ReturnsExplained'
<1>1. PICK d \in work[w].errs :
        /\ status' \in {Nak(d.m), status}
        /\ work' = [work EXCEPT ![w].errs = @ \ {d}]
        /\ \/ ~LastDelivery(d.n) /\ strikes' = strikes
           \/ strikes' = [strikes EXCEPT ![d.m] = Strike(@)]
  BY DEF Retry, DeadLetterFails
<1>2. (\A v \in Workers : Carried(work'[v]) \subseteq Carried(work[v])) /\ UNCHANGED count
  BY NothingTakenUp
<1>3. d.m \in Msgs /\ d.n \in 1..MaxDeliver
  BY DEF IInv, WorkOK, Holding, Delivery
<1>4. \A m \in Msgs : m # d.m => status'[m] = status[m] /\ strikes'[m] = strikes[m]
  BY <1>1 DEF Nak, Requeued, IInv, QueueOK
<1>5. CASE status[d.m] = "inflight" /\ status' = Requeued(d.m)
  <2>1. Explained(d.m)
    BY <1>3 DEF ReturnsExplained
  <2>2. ASSUME ~LastDelivery(d.n), strikes' = strikes PROVE Explained(d.m)'
    <3>1. d.n \in 1..(MaxDeliver - 2)
      BY <1>3, <2>2, StoreWriterAssumption DEF LastDelivery
    <3>2. Cardinality(HeldEarly(d.m))' <= Cardinality(HeldEarly(d.m)) - 1
      BY <1>1, <3>1, NakPutsDown
    <3> QED BY <1>2, <1>3, <1>5, <2>1, <2>2, <3>2, ReturnExplained
  <2>3. ASSUME strikes' = [strikes EXCEPT ![d.m] = Strike(@)] PROVE Explained(d.m)'
    <3>1. strikes'[d.m] = Strike(strikes[d.m])
      BY <1>3, <2>3 DEF IInv, QueueOK
    <3> QED BY <1>2, <1>3, <1>5, <2>1, <3>1, ReturnExplained
  <2>4. Explained(d.m)'
    BY <1>1, <2>2, <2>3
  <2>5. ASSUME NEW m \in Msgs, m # d.m PROVE Explained(m)'
    BY <1>2, <1>4, <2>5, ExplainedStays DEF ReturnsExplained
  <2> QED BY <2>4, <2>5 DEF ReturnsExplained
<1>6. CASE UNCHANGED status
  <2>1. \A m \in Msgs : strikes'[m] = strikes[m] \/ strikes'[m] = Strike(strikes[m])
    BY <1>1 DEF IInv, QueueOK
  <2>2. ASSUME NEW m \in Msgs, strikes'[m] = strikes[m] PROVE Explained(m)'
    BY <1>2, <1>6, <2>2, ExplainedStays DEF ReturnsExplained
  <2>3. ASSUME NEW m \in Msgs, strikes'[m] = Strike(strikes[m]) PROVE Explained(m)'
    <3>1. Cardinality(HeldEarly(m))' <= Cardinality(HeldEarly(m))
      BY <1>2, HeldShrinks
    <3>2. Cardinality(HeldEarly(m)) \in Nat /\ Cardinality(HeldEarly(m))' \in Nat
      BY HeldFinite
    <3>3. Requeues(m)' = Requeues(m) /\ Early(m)' = Early(m) /\ Requeues(m) \in Int
          /\ Early(m) \in Nat /\ strikes[m] \in 0..2
      BY <1>2, <1>6, QueueTypes DEF Requeues, Early
    <3>4. strikes'[m] < 2 => strikes[m] < 2 /\ strikes'[m] \in Nat /\ strikes[m] <= strikes'[m]
      BY <2>3, <3>3 DEF Strike
    <3> QED BY <1>2, <1>6, <3>1, <3>2, <3>3, <3>4 DEF ReturnsExplained, Explained
  <2> QED BY <2>1, <2>2, <2>3 DEF ReturnsExplained
<1> QED BY <1>1, <1>5, <1>6 DEF Nak

LEMMA InitExplained == Init => ReturnsExplained
<1> SUFFICES ASSUME Init, NEW m \in Msgs PROVE Explained(m)
  BY DEF ReturnsExplained
<1>1. \A w \in Workers : Carried(work[w]) = {}
  BY DEF Init, Idle, Carried
<1>2. HeldEarly(m) = {}
  BY <1>1 DEF HeldEarly
<1>3. Cardinality(HeldEarly(m)) = 0
  BY <1>2, FS_EmptySet
<1>4. status[m] = "none" /\ count[m] = 0 /\ strikes[m] = 0
  BY DEF Init
<1> QED BY <1>3, <1>4, StoreWriterAssumption DEF Explained, Requeues, Early

LEMMA NextExplained == IInv /\ Holders /\ ReturnsExplained /\ [Next]_vars => ReturnsExplained'
<1> SUFFICES ASSUME IInv, Holders, ReturnsExplained, [Next]_vars PROVE ReturnsExplained'
  OBVIOUS
<1>1. ASSUME NEW m \in Msgs, Publish(m) \/ AckWaitPasses(m) PROVE ReturnsExplained'
  BY <1>1, PublishExplained, AckWaitExplained
<1>2. ASSUME NEW w \in Workers, Worker(w) \/ Crash(w) PROVE ReturnsExplained'
  BY <1>2, FetchExplained, QuietExplained, NakExplained DEF Worker
<1>3. CASE UNCHANGED vars
  BY <1>3 DEF vars, jetstream, ReturnsExplained, Explained, Requeues, Early, HeldEarly
<1> QED BY <1>1, <1>2, <1>3 DEF Next, Runs

LEMMA ReturnsInvariant == Spec => [](IInv /\ Holders /\ ReturnsExplained)
<1>1. Init => IInv /\ Holders /\ ReturnsExplained
  BY InitIInv, InitHolders, InitExplained
<1>2. IInv /\ Holders /\ ReturnsExplained /\ [Next]_vars => (IInv /\ Holders /\ ReturnsExplained)'
  BY NextIInv, NextHolders, NextExplained
<1> QED BY <1>1, <1>2, PTL DEF Spec

\* No message is lost by one lapse: a message that used up its deliveries saw at
\* least two of them time out, or fail to be dead-lettered, whatever naks of
\* earlier deliveries arrived in between.
THEOREM LossesTakeTwoLapses == Spec => []LossTakesTwo
<1>1. IInv /\ ReturnsExplained => LossTakesTwo
  <2> SUFFICES ASSUME IInv, ReturnsExplained, NEW m \in Msgs, status[m] = "exhausted"
               PROVE  strikes[m] >= 2
    BY DEF LossTakesTwo, Lost
  <2>1. Explained(m) /\ count[m] = MaxDeliver /\ Requeues(m) = MaxDeliver
    BY DEF ReturnsExplained, Explained, Requeues
  <2>2. strikes[m] < 2 => MaxDeliver + Cardinality(HeldEarly(m)) <= strikes[m] + Early(m)
    BY <2>1 DEF Explained
  <2>3. Early(m) <= MaxDeliver - 2
    BY <2>1, QueueTypes DEF Early
  <2>4. Cardinality(HeldEarly(m)) \in Nat
    BY HeldFinite
  <2> QED BY <2>2, <2>3, <2>4, QueueTypes
<1> QED BY <1>1, ReturnsInvariant, PTL

=============================================================================
