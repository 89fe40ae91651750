--------------------------- MODULE EbpfAttribution ---------------------------
(***************************************************************************)
(* Traffic and DNS attribution of the agent on Linux: the eBPF programs of *)
(* internal/agent/bpf/attr.c, which count the bytes of every send and      *)
(* receive call in a shared LRU map and copy DNS answers into a ring, and  *)
(* ebpfAttrSource (internal/agent/ebpfattr.go, bpf/loader.go), which       *)
(* empties both, keeps what it took until the telemetry loop asks for the  *)
(* deltas, and is loaded and stopped as the policy of the hub changes.     *)
(*                                                                         *)
(* The calls into the programs are the actors: any number of CPUs run them *)
(* at the same time.  A counter is the set of the calls whose bytes it     *)
(* adds up, so that a byte that is counted twice, under a wrong flow or    *)
(* not at all can be seen.  The kernel's map is external: an element that  *)
(* is removed goes to the free list at once, and may hold another flow     *)
(* while a program still has a pointer to its value.                       *)
(***************************************************************************)
EXTENDS Naturals, FiniteSets

CONSTANTS
  MaxCalls,    \* bound: calls in a behaviour
  Contexts,    \* what a call may be: program, process, socket, size, DNS name
  Mixes,       \* bound: which contexts each call of a behaviour may have
  Slots,       \* elements of the flows map (max_entries)
  RingSize,    \* DNS events that fit into dns_ring
  MaxKeys,     \* entries of pending and of dns at most; 4000 in the code
  MaxSamples,  \* samples that a delta returns at most; 500 in the code
  MaxFaults,   \* bound: failed system calls and killed processes
  None

Programs == {"tcp_sendmsg", "tcp_cleanup_rbuf", "udp_sendmsg", "skb_consume_udp"}
Families == {"inet", "inet6"}

ASSUME EbpfAssumption ==
  /\ MaxCalls \in Nat /\ RingSize \in Nat /\ MaxKeys \in Nat /\ MaxSamples \in Nat /\ MaxFaults \in Nat
  /\ IsFiniteSet(Slots) /\ None \notin Slots
  /\ IsFiniteSet(Contexts)
  /\ Mixes \subseteq [1..MaxCalls -> SUBSET Contexts]
  /\ \A x \in Contexts : x.prog \in Programs /\ x.pid \in Nat /\ x.bytes \in BOOLEAN

Calls == 1..MaxCalls

-----------------------------------------------------------------------------
(* attr.c, the parts that look only at the call.                           *)

Proto(x) == IF x.prog \in {"tcp_sendmsg", "tcp_cleanup_rbuf"} THEN "tcp" ELSE "udp"
Receives(x) == x.prog \in {"tcp_cleanup_rbuf", "skb_consume_udp"}
Loopback(x) == x.family = "inet" /\ x.addr = "loopback"

\* What account counts.  A send of no bytes makes an entry, a receive of none
\* does not get that far.
Counts(x) == x.family \in Families /\ x.pid # 0 /\ ~Loopback(x) /\ (Receives(x) => x.bytes)

KeyOf(x) == [pid |-> x.pid, proto |-> Proto(x), family |-> x.family, addr |-> x.addr, port |-> x.port]
Keys == {KeyOf(x) : x \in Contexts}

ASSUME KeysAssumption == None \notin Keys

dns_socket(x) == x.port = 53 \/ Loopback(x)

\* A datagram of less than a DNS header is not copied.
Captures(x) == x.prog = "skb_consume_udp" /\ dns_socket(x) /\ x.domain # "short"
NameOf(x) == [pid |-> x.pid, domain |-> x.domain]
Names == {NameOf(x) : x \in Contexts}

-----------------------------------------------------------------------------
VARIABLES
  phase,     \* of the source: "off", "running", or "stopping" once stopCh is closed
  reading,   \* dnsLoop runs
  mix,       \* the contexts of the calls of this behaviour
  call,      \* what each call is
  pc,        \* where each call is in its program
  ptr,       \* st: the element that its look-up found
  slots,     \* the flows map: key and counter of each element
  drainer,   \* drainLoop: "wait", "take", "last" (a turn begun after the stop), or "exited"
  todo,      \* keys that Flows has still to take
  taken,     \* what Flows has taken from the map
  pending,   \* ebpfAttrSource.pending: a counter for each key
  reported,  \* what Deltas has returned so far
  ring,      \* dns_ring
  dns,       \* ebpfAttrSource.dns: a counter for each name
  dnsSent,   \* ebpfAttrSource.dnsSent
  answered,  \* what DNSDeltas has returned so far
  faults,
  disturbed, \* history: calls between whose look-up and whose write their entry came or went
  dropped    \* history: calls whose bytes were given up at a limit, by a failure or by a stop

source == <<phase, reading>>
calls  == <<mix, call, pc, ptr>>
drain  == <<drainer, todo, taken>>
flows  == <<pending, reported>>
names  == <<ring, dns, dnsSent, answered>>
ghosts == <<disturbed, dropped>>
vars   == <<source, calls, slots, drain, flows, names, faults, ghosts>>

Free == [key |-> None, sum |-> {}]
Nothing == [k \in Keys |-> {}]
NoNames == [n \in Names |-> {}]

Init ==
  /\ phase = "off" /\ reading = FALSE
  /\ mix \in Mixes /\ call = [c \in Calls |-> None] /\ pc = [c \in Calls |-> "idle"] /\ ptr = [c \in Calls |-> None]
  /\ slots = [s \in Slots |-> Free]
  /\ drainer = "exited" /\ todo = {} /\ taken = Nothing
  /\ pending = Nothing /\ reported = Nothing
  /\ ring = {} /\ dns = NoNames /\ dnsSent = NoNames /\ answered = NoNames
  /\ faults = 0
  /\ disturbed = {} /\ dropped = {}

Fault == faults < MaxFaults /\ faults' = faults + 1

\* The calls other than c that are between look-up and write for a key of ks.
Window(c, ks) ==
  {d \in Calls \ {c} : pc[d] \in {"miss", "hit"} /\ KeyOf(call[d]) \in ks}

-----------------------------------------------------------------------------
(* attr.c: one call, on some CPU.                                          *)

MutFound(k) == {}
Found(k) == {s \in Slots : slots[s].key = k}

\* skb_consume_udp goes on with capture_dns.
AfterAccount(x) == IF Captures(x) THEN "capture" ELSE "done"

\* The program is entered and looks its entry up.  (One that could not be attached
\* is not entered.)  Calls are numbered in the order in which they are made.
Enter(c) ==
  /\ phase # "off"
  /\ pc[c] = "idle" /\ \A d \in Calls : d < c => pc[d] # "idle"
  /\ \E x \in mix[c] :
       /\ call' = [call EXCEPT ![c] = x]
       /\ \/ /\ ~Counts(x)
             /\ pc' = [pc EXCEPT ![c] = AfterAccount(x)] /\ UNCHANGED ptr
          \/ /\ Counts(x) /\ Found(KeyOf(x)) = {}
             /\ pc' = [pc EXCEPT ![c] = "miss"] /\ UNCHANGED ptr
          \/ /\ Counts(x)
             /\ \E s \in Found(KeyOf(x)) : ptr' = [ptr EXCEPT ![c] = s]
             /\ pc' = [pc EXCEPT ![c] = "hit"]
  /\ UNCHANGED <<source, mix, slots, drain, flows, names, faults, ghosts>>

\* __sync_fetch_and_add: to whatever the element is by now.
Add(c) ==
  /\ pc[c] = "hit"
  /\ slots' = IF call[c].bytes /\ slots[ptr[c]].key # None
                THEN [slots EXCEPT ![ptr[c]].sum = @ \cup {c}] ELSE slots
  /\ pc' = [pc EXCEPT ![c] = AfterAccount(call[c])] /\ ptr' = [ptr EXCEPT ![c] = None]
  /\ UNCHANGED <<source, mix, call, drain, flows, names, faults, ghosts>>

\* An element for a new entry; of a full map any one is evicted.
Room == IF Found(None) # {} THEN Found(None) ELSE Slots

\* The map after the entry of call c was written to element s: BPF_ANY replaces
\* an entry with the same key.
Written(c, s) ==
  [t \in Slots |->
     IF t = s THEN [key |-> KeyOf(call[c]), sum |-> IF call[c].bytes THEN {c} ELSE {}]
     ELSE IF slots[t].key = KeyOf(call[c]) THEN Free ELSE slots[t]]

\* bpf_map_update_elem after a look-up that found nothing.
Update(c) ==
  /\ pc[c] = "miss"
  /\ \E s \in Room :
       /\ slots' = Written(c, s)
       /\ disturbed' = disturbed \cup Window(c, {KeyOf(call[c]), slots[s].key})
       /\ dropped' = IF slots[s].key = KeyOf(call[c]) THEN dropped ELSE dropped \cup slots[s].sum
  /\ pc' = [pc EXCEPT ![c] = AfterAccount(call[c])]
  /\ UNCHANGED <<source, mix, call, ptr, drain, flows, names, faults>>

\* It finds no element to evict; its result is not looked at.
UpdateFails(c) ==
  /\ pc[c] = "miss"
  /\ Fault
  /\ dropped' = dropped \cup {c}
  /\ pc' = [pc EXCEPT ![c] = AfterAccount(call[c])]
  /\ UNCHANGED <<source, mix, call, ptr, slots, drain, flows, names, disturbed>>

\* capture_dns: nothing is copied when the ring is full or the payload unreadable.
Capture(c) ==
  /\ pc[c] = "capture"
  /\ \/ Cardinality(ring) < RingSize /\ ring' = ring \cup {c} /\ UNCHANGED faults
     \/ Cardinality(ring) >= RingSize /\ UNCHANGED <<ring, faults>>
     \/ Fault /\ UNCHANGED ring
  /\ pc' = [pc EXCEPT ![c] = "done"]
  /\ UNCHANGED <<source, mix, call, ptr, slots, drain, flows, dns, dnsSent, answered, ghosts>>

Runs(c) == Enter(c) \/ Add(c) \/ Update(c) \/ UpdateFails(c) \/ Capture(c)
Finishes(c) == Add(c) \/ Update(c) \/ Capture(c)

-----------------------------------------------------------------------------
(* drainLoop: a tick, or stopCh, which ends the loop after a last turn.    *)

\* A turn that had begun before the stop is followed by one more.
AfterTurn ==
  IF drainer = "last" \/ (drainer = "wait" /\ phase = "stopping") THEN "exited" ELSE "wait"

\* Flows, first pass: the keys.
Iterate ==
  /\ drainer = "wait"
  /\ todo' = {slots[s].key : s \in Slots} \ {None}
  /\ drainer' = IF phase = "stopping" THEN "last" ELSE "take"
  /\ UNCHANGED <<source, calls, slots, taken, flows, names, faults, ghosts>>

MutRemoved(k) == slots
Removed(k) == [s \in Slots |-> IF slots[s].key = k THEN Free ELSE slots[s]]
SumOf(k) == UNION {slots[s].sum : s \in Found(k)}

\* Second pass: LookupAndDelete of one key; it may be gone.
Take ==
  /\ drainer \in {"take", "last"}
  /\ \E k \in todo :
       /\ todo' = todo \ {k}
       /\ taken' = [taken EXCEPT ![k] = SumOf(k)]
       /\ slots' = Removed(k)
       /\ disturbed' = disturbed \cup Window(0, {k})
  /\ UNCHANGED <<source, calls, drainer, flows, names, faults, dropped>>

\* Either pass fails: Flows returns nothing of what it has taken already.
DrainFails ==
  /\ drainer \in {"wait", "take", "last"}
  /\ Fault
  /\ dropped' = dropped \cup UNION {taken[k] : k \in Keys}
  /\ todo' = {} /\ taken' = Nothing
  /\ drainer' = AfterTurn
  /\ UNCHANGED <<source, calls, slots, flows, names, disturbed>>

\* At most n of S.
Some(S, n) == {T \in SUBSET S : Cardinality(T) = (IF Cardinality(S) < n THEN Cardinality(S) ELSE n)}

Present(f) == {k \in DOMAIN f : f[k] # {}}
MutVacant(f) == MaxKeys
Vacant(f) == MaxKeys - Cardinality(Present(f))

\* drainOnce: a full pending takes no new keys.
Merge ==
  /\ drainer \in {"take", "last"} /\ todo = {}
  /\ \E new \in Some(Present(taken) \ Present(pending), Vacant(pending)) :
       LET fits == new \cup Present(pending) IN
       /\ pending' = [k \in Keys |-> IF k \in fits THEN pending[k] \cup taken[k] ELSE {}]
       /\ dropped' = dropped \cup UNION {taken[k] : k \in Keys \ fits}
  /\ taken' = Nothing
  /\ drainer' = AfterTurn
  /\ UNCHANGED <<source, calls, slots, todo, reported, names, faults, disturbed>>

DrainLoop == Iterate \/ Take \/ Merge

-----------------------------------------------------------------------------
(* dnsLoop.                                                                *)

\* A name is counted, unless the table is full: it is never emptied.
ReadDNS ==
  /\ reading
  /\ \E c \in ring :
       LET n == NameOf(call[c]) IN
       /\ ring' = ring \ {c}
       /\ dns' = IF call[c].domain # "nameless" /\ (dns[n] # {} \/ Vacant(dns) > 0)
                   THEN [dns EXCEPT ![n] = @ \cup {c}] ELSE dns
  /\ UNCHANGED <<source, calls, slots, drain, flows, dnsSent, answered, faults, ghosts>>

\* The loop ends at the first error.
ReadDNSFails ==
  /\ reading
  /\ Fault
  /\ reading' = FALSE
  /\ UNCHANGED <<phase, calls, slots, drain, flows, names, ghosts>>

-----------------------------------------------------------------------------
(* The telemetry loop.                                                     *)

\* Deltas: pending is emptied, and at most MaxSamples of it returned.
Deltas ==
  /\ phase = "running"
  /\ \E S \in Some(Present(pending), MaxSamples) :
       /\ reported' = [k \in Keys |-> IF k \in S THEN reported[k] \cup pending[k] ELSE reported[k]]
       /\ dropped' = dropped \cup UNION {pending[k] : k \in Keys \ S}
  /\ pending' = Nothing
  /\ UNCHANGED <<source, calls, slots, drain, names, faults, disturbed>>

Unsent(n) == dns[n] \ dnsSent[n]

MutSentNow(S) == dnsSent
\* All names are marked as sent, those cut off too.
SentNow(S) == dns

DNSDeltas ==
  /\ phase = "running"
  /\ \E S \in Some({n \in Names : Unsent(n) # {}}, MaxSamples) :
       /\ answered' = [n \in Names |-> IF n \in S THEN answered[n] \cup Unsent(n) ELSE answered[n]]
       /\ dnsSent' = SentNow(S)
  /\ UNCHANGED <<source, calls, slots, drain, flows, ring, dns, faults, ghosts>>

\* syncAttr with the policy open.  (A ring whose reader cannot be opened is one
\* whose reader ends at once.)
Load ==
  /\ phase = "off"
  /\ phase' = "running"
  /\ reading' = TRUE
  /\ drainer' = "wait"
  /\ UNCHANGED <<calls, slots, todo, taken, flows, names, faults, ghosts>>

\* The policy closes or the agent is told to exit: Stop closes stopCh ...
Stop ==
  /\ phase = "running"
  /\ phase' = "stopping"
  /\ UNCHANGED <<reading, calls, slots, drain, flows, names, faults, ghosts>>

\* The source and its maps are gone, with all that they held.
Gone ==
  /\ phase' = "off" /\ reading' = FALSE
  /\ pc' = [c \in Calls |-> IF pc[c] = "idle" THEN "idle" ELSE "done"]
  /\ ptr' = [c \in Calls |-> None]
  /\ slots' = [s \in Slots |-> Free]
  /\ drainer' = "exited" /\ todo' = {} /\ taken' = Nothing /\ pending' = Nothing
  /\ ring' = {} /\ dns' = NoNames /\ dnsSent' = NoNames
  /\ dropped' = dropped \cup {c \in Calls : pc[c] \in {"miss", "hit"}}
       \cup (UNION {slots[s].sum : s \in Slots}) \cup (UNION {taken[k] \cup pending[k] : k \in Keys})
  /\ UNCHANGED <<mix, call, reported, answered, disturbed>>

\* ... and waits for drainLoop before it closes the engine.
Close ==
  /\ phase = "stopping" /\ drainer = "exited"
  /\ Gone
  /\ UNCHANGED faults

\* The agent is killed.
Crash ==
  /\ phase # "off"
  /\ Fault
  /\ Gone

Next ==
  \/ \E c \in Calls : Runs(c)
  \/ DrainLoop \/ DrainFails
  \/ ReadDNS \/ ReadDNSFails
  \/ Deltas \/ DNSDeltas
  \/ Load \/ Stop \/ Close \/ Crash

\* A program runs to its end, the ticker and the telemetry timer fire for ever,
\* ReadDNS wakes up when there is an event, and Stop waits for what will end.
Fairness ==
  /\ \A c \in Calls : WF_vars(Finishes(c))
  /\ WF_vars(DrainLoop) /\ WF_vars(ReadDNS)
  /\ WF_vars(Deltas) /\ WF_vars(DNSDeltas) /\ WF_vars(Close)

Spec == Init /\ [][Next]_vars /\ Fairness

-----------------------------------------------------------------------------
(* Where the bytes of a call are, and under which flow.                    *)

Places(c) ==
  {<<"map", slots[s].key, s>> : s \in {s \in Slots : c \in slots[s].sum}}
    \cup {<<"taken", k, None>> : k \in {k \in Keys : c \in taken[k]}}
    \cup {<<"pending", k, None>> : k \in {k \in Keys : c \in pending[k]}}
    \cup {<<"reported", k, None>> : k \in {k \in Keys : c \in reported[k]}}

\* And where the DNS answer is that it brought.
AnswerPlaces(c) ==
  {<<"ring", NameOf(call[c])>> : q \in {q \in {c} : q \in ring /\ reading}}
    \cup {<<"table", n>> : n \in {n \in Names : c \in Unsent(n)}}
    \cup {<<"reported", n>> : n \in {n \in Names : c \in answered[n]}}

\* The stage of an item that is in places P: "twice" is none of the ledger's.
StageIn(P, over) ==
  IF P = {} THEN IF over THEN "lost" ELSE "new"
  ELSE IF \A p, q \in P : p = q
         THEN IF \E p \in P : p[1] = "reported" THEN "reported" ELSE "held"
         ELSE "twice"
LabelIn(P) == IF P = {} THEN None ELSE (CHOOSE p \in P : TRUE)[2]

\* Bytes that were to be counted, and a name that was to be seen.
Over(c) == pc[c] \in {"capture", "done"} /\ call[c].bytes /\ Counts(call[c])
AnswerOver(c) == pc[c] = "done" /\ Captures(call[c])

Bytes == INSTANCE Ledger WITH
  Items <- Calls, Labels <- Keys, Nowhere <- None,
  stage <- [c \in Calls |-> StageIn(Places(c), Over(c))],
  label <- [c \in Calls |-> LabelIn(Places(c))]

Answers == INSTANCE Ledger WITH
  Items <- Calls, Labels <- Names, Nowhere <- None,
  stage <- [c \in Calls |-> StageIn(AnswerPlaces(c), AnswerOver(c))],
  label <- [c \in Calls |-> LabelIn(AnswerPlaces(c))]

-----------------------------------------------------------------------------
(* Properties.                                                             *)

TypeOK ==
  /\ mix \in Mixes /\ phase \in {"off", "running", "stopping"} /\ reading \in BOOLEAN
  /\ \A c \in Calls : /\ pc[c] \in {"idle", "miss", "hit", "capture", "done"}
                      /\ call[c] \in Contexts \cup {None} /\ ptr[c] \in Slots \cup {None}
                      /\ pc[c] # "idle" => call[c] \in Contexts
                      /\ pc[c] = "hit" => ptr[c] \in Slots
  /\ slots \in [Slots -> [key : Keys \cup {None}, sum : SUBSET Calls]]
  /\ drainer \in {"wait", "take", "last", "exited"} /\ todo \subseteq Keys
  /\ taken \in [Keys -> SUBSET Calls] /\ reported \in [Keys -> SUBSET Calls]
  /\ pending \in [Keys -> SUBSET Calls] /\ Cardinality(Present(pending)) <= MaxKeys
  /\ ring \subseteq Calls /\ answered \in [Names -> SUBSET Calls]
  /\ dns \in [Names -> SUBSET Calls] /\ dnsSent \in [Names -> SUBSET Calls]
  /\ faults \in 0..MaxFaults /\ disturbed \subseteq Calls /\ dropped \subseteq Calls

\* The flow of a call, in the words of the programs' table (attr.c:1-6).
IsFlowOf(k, x) ==
  /\ k.pid = x.pid /\ k.family = x.family /\ k.addr = x.addr /\ k.port = x.port
  /\ k.proto = "tcp" <=> x.prog \in {"tcp_sendmsg", "tcp_cleanup_rbuf"}

\* Counting is exact but for races that are named: bytes that no limit, failure
\* or stop gave up disappear only when a call to the same flow had its entry
\* come or go between its look-up and its write, and are found under another
\* flow only when that happened to their own call; nothing else is ever counted
\* (attr.c:68-110, loader.go:131-172).
ExactButForRaces ==
  \A c \in Calls :
    /\ Over(c) /\ Places(c) = {} /\ c \notin dropped =>
         \E d \in disturbed : KeyOf(call[d]) = KeyOf(call[c])
    /\ \A p \in Places(c) : /\ Over(c)
                            /\ IsFlowOf(p[2], call[c]) \/ c \in disturbed

\* The bytes of a call are a ledger's item: counted once, under a flow that does
\* not change on the way, reported at most once, and neither the map nor pending
\* keeps them for ever (attrsource.go:20-22).
BytesLedger == Bytes!Spec

\* So is the DNS answer that it brought (attrsource.go:28-29).
AnswersLedger == Answers!Spec

\* "Byte counts are taken at the socket: independent of offload, exact"
\* (docs/decisions/0007:47-48): what no limit, failure or stop gave up is counted.
CountsAreExact == \A c \in Calls : Over(c) /\ Places(c) = {} => c \in dropped

\* Each call "adds bytes for the process of the moment", by process and remote end
\* (attr.c:4-5): they are found under that flow.
UnderTheirFlow == \A c \in Calls : \A p \in Places(c) : IsFlowOf(p[2], call[c])

\* "Domain visibility is complete" (ebpfattr.go:201): while the source runs, a name
\* that was read from the ring is in the table.
DomainsComplete ==
  [][\A c \in ring \ ring' : phase' # "off" => dns'[NameOf(call[c])] # {}]_vars

=============================================================================
