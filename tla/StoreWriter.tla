----------------------------- MODULE StoreWriter -----------------------------
(***************************************************************************)
(* The ingest queue (internal/queue/queue.go): the durable "store-writer"  *)
(* consumer of the BAZNTMS stream and the workers of all hub replicas that *)
(* fetch from it and write to the store.  Telemetry is written by several  *)
(* transactions, flows of one fetch by a single one at its end; a failed   *)
(* write is retried, and moved to the dead-letter subject near the end of  *)
(* its deliveries.                                                         *)
(*                                                                         *)
(* JetStream is external: explicit acks, redelivery when AckWait passes,   *)
(* at most maxDeliver deliveries.  Any answer of a worker may be lost, any *)
(* worker may stop at any point or be slower than AckWait, so that several *)
(* workers hold deliveries of the same message.                            *)
(***************************************************************************)
EXTENDS Naturals, FiniteSets

CONSTANTS
  Workers,    \* store-writer goroutines of all replicas
  Telemetry,  \* messages of ingest.telemetry and ingest.syslog
  Flows,      \* messages of ingest.flows
  NParts,     \* transactions of each message of Telemetry
  MaxDeliver, \* queue.go: maxDeliver
  FetchSize,  \* messages a Fetch returns at most
  None        \* no delivery

ASSUME StoreWriterAssumption ==
  /\ Telemetry \cap Flows = {}
  /\ NParts \in [Telemetry -> Nat \ {0}]
  /\ MaxDeliver \in Nat \ {0, 1} /\ FetchSize \in Nat \ {0}
  /\ IsFiniteSet(Workers)

Msgs == Telemetry \cup Flows
Parts(m) == 1..(IF m \in Flows THEN 1 ELSE NParts[m])

VARIABLES
  status,  \* of each message at the consumer
  count,   \* NumDelivered of each message
  strikes, \* history: deliveries of a message that timed out, or whose dead-lettering failed
  dlq,     \* messages copied to ingest.dead
  writes,  \* how often each part of each message was committed to the store
  work     \* what each worker holds

jetstream == <<status, count, strikes>>
vars == <<jetstream, dlq, writes, work>>

\* A delivery: the message and its NumDelivered.  A worker holds those it has
\* fetched, the one whose parts it is writing (cur, part), the flow messages set
\* aside for the end of the fetch, and the verdicts it has still to answer.
Delivery == [m : Msgs, n : 1..MaxDeliver]
Idle == [fetched |-> {}, cur |-> None, part |-> 1, flows |-> {}, oks |-> {}, errs |-> {}]

Init ==
  /\ status = [m \in Msgs |-> "none"]
  /\ count = [m \in Msgs |-> 0] /\ strikes = [m \in Msgs |-> 0]
  /\ dlq = {}
  /\ writes = [m \in Msgs |-> [p \in Parts(m) |-> 0]]
  /\ work = [w \in Workers |-> Idle]

-----------------------------------------------------------------------------
(* The consumer.                                                           *)

Publish(m) ==
  /\ status[m] = "none"
  /\ status' = [status EXCEPT ![m] = "ready"]
  /\ UNCHANGED <<count, strikes, dlq, writes, work>>

\* The message goes back, unless it was delivered maxDeliver times.
Requeued(m) == [status EXCEPT ![m] = IF count[m] < MaxDeliver THEN "ready" ELSE "exhausted"]

\* Two are told apart from one, three are not.
Strike(k) == IF k < 2 THEN k + 1 ELSE k

MutOverdue(m) == status[m] = "inflight" /\ count[m] = MaxDeliver
Overdue(m) == status[m] = "inflight"

AckWaitPasses(m) ==
  /\ Overdue(m)
  /\ status' = Requeued(m)
  /\ strikes' = [strikes EXCEPT ![m] = Strike(@)]
  /\ UNCHANGED <<count, dlq, writes, work>>

\* An answer reaches the consumer whatever delivery of the message it is for.
Ack(m)  == IF status[m] \in {"ready", "inflight"} THEN [status EXCEPT ![m] = "acked"] ELSE status
Term(m) == IF status[m] \in {"ready", "inflight"} THEN [status EXCEPT ![m] = "termed"] ELSE status
Nak(m)  == IF status[m] = "inflight" THEN Requeued(m) ELSE status

-----------------------------------------------------------------------------
(* workerLoop.                                                             *)

\* Flow messages are set aside for the end of the fetch.
Fetch(w) ==
  /\ work[w] = Idle
  /\ \E S \in SUBSET {m \in Msgs : status[m] = "ready"} :
       /\ S # {} /\ Cardinality(S) <= FetchSize
       /\ status' = [m \in Msgs |-> IF m \in S THEN "inflight" ELSE status[m]]
       /\ count' = [m \in Msgs |-> IF m \in S THEN count[m] + 1 ELSE count[m]]
       /\ work' = [work EXCEPT ![w] =
            [Idle EXCEPT !.fetched = {[m |-> m, n |-> count'[m]] : m \in S \cap Telemetry},
                         !.flows = {[m |-> m, n |-> count'[m]] : m \in S \cap Flows}]]
  /\ UNCHANGED <<strikes, dlq, writes>>

Answering(w) == work[w].oks \cup work[w].errs # {}

\* The next telemetry or syslog message of the fetch.
Take(w) ==
  /\ work[w].cur = None /\ ~Answering(w)
  /\ \E d \in work[w].fetched :
       work' = [work EXCEPT ![w] = [work[w] EXCEPT !.fetched = @ \ {d}, !.cur = d]]
  /\ UNCHANGED <<jetstream, dlq, writes>>

Handled(w) == [work[w] EXCEPT !.cur = None, !.part = 1, !.oks = {work[w].cur}]

AfterPart(w) ==
  IF work[w].part + 1 \in Parts(work[w].cur.m)
    THEN [work[w] EXCEPT !.part = @ + 1] ELSE Handled(w)

MutNoReturn(w) == AfterPart(w)
Failed(w) == [work[w] EXCEPT !.cur = None, !.part = 1, !.errs = {work[w].cur}]

\* handle: one transaction of the message.  An error ends it with a retry, the
\* parts before it stay; a transaction may be committed although it answers an
\* error.  (TouchAgent and SetAgentAttrInfo, whose errors are only logged, are
\* left out.)
WritePart(w) ==
  LET d == work[w].cur IN
  /\ d # None
  /\ \E committed, error \in BOOLEAN :
       /\ committed \/ error
       /\ writes' = IF committed THEN [writes EXCEPT ![d.m][work[w].part] = @ + 1] ELSE writes
       /\ work' = [work EXCEPT ![w] = IF error THEN Failed(w) ELSE AfterPart(w)]
  /\ UNCHANGED <<jetstream, dlq>>

MutFlushed(w, error) == [work[w] EXCEPT !.flows = {}, !.oks = work[w].flows]
Flushed(w, error) ==
  IF error THEN [work[w] EXCEPT !.flows = {}, !.errs = work[w].flows]
           ELSE [work[w] EXCEPT !.flows = {}, !.oks = work[w].flows]

\* flushFlows: one transaction for all flow messages of the fetch.
FlushFlows(w) ==
  /\ work[w].fetched = {} /\ work[w].cur = None /\ ~Answering(w)
  /\ work[w].flows # {}
  /\ \E committed, error \in BOOLEAN :
       /\ committed \/ error
       /\ writes' = IF committed
                      THEN [m \in Msgs |-> IF \E d \in work[w].flows : d.m = m
                              THEN [writes[m] EXCEPT ![1] = @ + 1] ELSE writes[m]]
                      ELSE writes
       /\ work' = [work EXCEPT ![w] = Flushed(w, error)]
  /\ UNCHANGED <<jetstream, dlq>>

\* ackMsg; a lost ack is logged and left to AckWait.
AckMsg(w) ==
  \E d \in work[w].oks :
    /\ status' \in {Ack(d.m), status}
    /\ work' = [work EXCEPT ![w].oks = @ \ {d}]
    /\ UNCHANGED <<count, strikes, dlq, writes>>

MutLastDelivery(n) == n >= MaxDeliver
LastDelivery(n) == n >= MaxDeliver - 1

\* retry, before the last deliveries: NakWithDelay.
Retry(w) ==
  \E d \in work[w].errs :
    /\ ~LastDelivery(d.n)
    /\ status' \in {Nak(d.m), status}
    /\ work' = [work EXCEPT ![w].errs = @ \ {d}]
    /\ UNCHANGED <<count, strikes, dlq, writes>>

\* deadLetter: the copy is published, then the original is terminated ...
DeadLetter(w) ==
  \E d \in work[w].errs :
    /\ LastDelivery(d.n)
    /\ dlq' = dlq \cup {d.m}
    /\ status' \in {Term(d.m), status}
    /\ work' = [work EXCEPT ![w].errs = @ \ {d}]
    /\ UNCHANGED <<count, strikes, writes>>

\* ... or the publication fails (the copy may be there all the same): Nak.
DeadLetterFails(w) ==
  \E d \in work[w].errs :
    /\ LastDelivery(d.n)
    /\ dlq' \in {dlq, dlq \cup {d.m}}
    /\ status' \in {Nak(d.m), status}
    /\ strikes' = [strikes EXCEPT ![d.m] = Strike(@)]
    /\ work' = [work EXCEPT ![w].errs = @ \ {d}]
    /\ UNCHANGED <<count, writes>>

\* The replica stops: what its worker held is left to AckWait.
Crash(w) ==
  /\ work[w] # Idle
  /\ work' = [work EXCEPT ![w] = Idle]
  /\ UNCHANGED <<jetstream, dlq, writes>>

Worker(w) ==
  \/ Fetch(w) \/ Take(w) \/ WritePart(w) \/ FlushFlows(w)
  \/ AckMsg(w) \/ Retry(w) \/ DeadLetter(w) \/ DeadLetterFails(w)

Runs == (\E m \in Msgs : AckWaitPasses(m)) \/ (\E w \in Workers : Worker(w))

Next ==
  \/ \E m \in Msgs : Publish(m)
  \/ Runs
  \/ \E w \in Workers : Crash(w)

\* JetStream's timers and the workers never stop all together; no single worker
\* is supposed to make progress.
Spec == Init /\ [][Next]_vars /\ WF_vars(Runs)

-----------------------------------------------------------------------------
(* Properties.                                                             *)

Deliveries(w) == work[w].fetched \cup work[w].flows \cup work[w].oks \cup work[w].errs
                   \cup ({work[w].cur} \ {None})

TypeOK ==
  /\ status \in [Msgs -> {"none", "ready", "inflight", "acked", "termed", "exhausted"}]
  /\ count \in [Msgs -> 0..MaxDeliver] /\ strikes \in [Msgs -> 0..2]
  /\ dlq \subseteq Msgs
  /\ \A m \in Msgs : writes[m] \in [Parts(m) -> Nat]
  /\ \A w \in Workers : /\ Deliveries(w) \subseteq Delivery
                        /\ work[w].cur # None => work[w].part \in Parts(work[w].cur.m)

Stored(m) == \A p \in Parts(m) : writes[m][p] > 0
Held(m) == \E w \in Workers : \E d \in Deliveries(w) : d.m = m

\* A message leaves the queue by an ack only when all of it is in the store,
\* whatever deliveries of it failed, crashed or were overtaken, and by a term
\* only when its copy is in the dead-letter subject (queue.go:266-384).
AckedIsStored ==
  \A m \in Msgs : /\ status[m] = "acked" => Stored(m)
                  /\ status[m] = "termed" => m \in dlq

\* Redelivery is the only source of duplicate samples, and a batch is written in
\* the order of handle: a part is committed at most once per delivery, and no
\* more often than the part before it (queue.go:278-318).
OncePerDelivery ==
  \A m \in Msgs : \A p \in Parts(m) :
    writes[m][p] <= IF p - 1 \in Parts(m) THEN writes[m][p - 1] ELSE count[m]

\* A message nobody holds any more is lost (neither stored nor dead-lettered)
\* only after two deliveries of it timed out or failed to be dead-lettered: one
\* slow worker, one crash or one failed publication loses nothing.
Lost(m) == status[m] = "exhausted" /\ ~Stored(m) /\ m \notin dlq /\ ~Held(m)
LossTakesTwo == \A m \in Msgs : Lost(m) => strikes[m] >= 2

\* No message stays in the queue for ever: it is acked, dead-lettered or given
\* up, under any number of failed writes, crashes and timeouts.
Settles == <>[](\A m \in Msgs : status[m] \notin {"ready", "inflight"})

\* "Otherwise JetStream would drop it silently" (queue.go:353-354): a message
\* that used up its deliveries is in the dead-letter subject.
ExhaustedIsInDLQ ==
  \A m \in Msgs : status[m] = "exhausted" /\ ~Stored(m) /\ ~Held(m) => m \in dlq

\* "Called when a message is moved to the DLQ after MaxDeliver attempts"
\* (queue.go:61-62).
DLQAfterMaxDeliver == \A m \in dlq : count[m] = MaxDeliver

=============================================================================
