------------------------ MODULE EbpfAttributionProofs ------------------------
(***************************************************************************)
(* Proofs about EbpfAttribution, for any number of calls, flows, elements  *)
(* of the map, limits and faults: the bytes of calls move as Ledger says,  *)
(* and races and limits are the only reasons to miscount them.             *)
(***************************************************************************)
EXTENDS EbpfAttribution, FiniteSetTheorems, TLAPS

-----------------------------------------------------------------------------
(* The invariant.                                                          *)

CallTypes ==
  /\ pc \in [Calls -> {"idle", "miss", "hit", "capture", "done"}]
  /\ call \in [Calls -> Contexts \cup {None}] /\ ptr \in [Calls -> Slots \cup {None}]
  /\ \A c \in Calls : /\ pc[c] # "idle" => call[c] \in Contexts
                      /\ pc[c] \in {"miss", "hit"} => Counts(call[c])
                      /\ pc[c] = "hit" => ptr[c] \in Slots

FlowTypes ==
  /\ slots \in [Slots -> [key : Keys \cup {None}, sum : SUBSET Calls]]
  /\ todo \subseteq Keys
  /\ taken \in [Keys -> SUBSET Calls] /\ pending \in [Keys -> SUBSET Calls]
  /\ reported \in [Keys -> SUBSET Calls]

GhostTypes ==
  /\ disturbed \subseteq Calls /\ dropped \subseteq Calls
  /\ \A c \in disturbed : pc[c] # "idle"

Types == mix \in Mixes /\ CallTypes /\ FlowTypes /\ GhostTypes

\* An element that is free holds no bytes, and a flow has one element at most.
MapOK ==
  /\ \A s \in Slots : slots[s].key = None => slots[s].sum = {}
  /\ \A s, t \in Slots : slots[s].key = slots[t].key /\ slots[s].key # None => s = t

\* What a drain has taken it does not take again.
TakenOK ==
  /\ \A k \in Keys : taken[k] # {} => drainer \in {"take", "last"} /\ k \notin todo
  /\ phase = "off" => drainer = "exited"

\* The bytes of a call are in one place, and not before its program has written them.
Single == \A c \in Calls : \A p, q \in Places(c) : p = q
CountedOver == \A c \in Calls : Places(c) # {} => Over(c)

\* A program whose look-up is no longer true has been entered as disturbed.
Races ==
  \A c \in Calls :
    /\ pc[c] = "hit" => slots[ptr[c]].key = KeyOf(call[c]) \/ c \in disturbed
    /\ pc[c] = "miss" => Found(KeyOf(call[c])) = {} \/ c \in disturbed

ExactAt(c) ==
  /\ Over(c) /\ Places(c) = {} /\ c \notin dropped =>
       \E d \in disturbed : KeyOf(call[d]) = KeyOf(call[c])
  /\ \A p \in Places(c) : p[2] = KeyOf(call[c]) \/ c \in disturbed
Exact == \A c \in Calls : ExactAt(c)

IInv == Types /\ MapOK /\ TakenOK /\ Single /\ CountedOver /\ Races /\ Exact

-----------------------------------------------------------------------------
(* How the bytes of a call may move.                                       *)

Stays(c) == Places(c)' = Places(c)
Comes(c) == /\ Places(c) = {} /\ pc[c] \in {"miss", "hit"} /\ Over(c)'
            /\ \E k \in Keys, s \in Slots : Places(c)' = {<<"map", k, s>>}
Passes(c) == \E p \in Places(c), w \in {"taken", "pending", "reported"} :
               p[1] # "reported" /\ Places(c)' = {<<w, p[2], None>>}
Goes(c) == Places(c)' = {} /\ \A p \in Places(c) : p[1] # "reported"
MovesOf(c) == Stays(c) \/ Comes(c) \/ Passes(c) \/ Goes(c)

\* The call itself goes on, or stays where it is.
OnOf(c) ==
  /\ pc[c] # "idle" => call'[c] = call[c] /\ pc'[c] # "idle"
  /\ pc[c] \in {"capture", "done"} => pc'[c] \in {"capture", "done"}

\* A call that is over stays over.
LEMMA OverStays == ASSUME NEW c \in Calls, OnOf(c), Over(c) PROVE Over(c)'
  BY DEF OnOf, Over

\* Whichever way the bytes move, they stay in one place.
LEMMA MovesSingle ==
  ASSUME Single, CountedOver, \A c \in Calls : MovesOf(c) /\ OnOf(c)
  PROVE  Single' /\ CountedOver'
<1>1. ASSUME NEW c \in Calls PROVE \A p, q \in Places(c)' : p = q
  BY DEF Single, MovesOf, Stays, Comes, Passes, Goes
<1>2. ASSUME NEW c \in Calls, Places(c)' # {} PROVE Over(c)'
  BY <1>2, OverStays DEF CountedOver, MovesOf, Stays, Comes, Passes, Goes
<1> QED BY <1>1, <1>2 DEF Single, CountedOver

\* The label of bytes in one place.
LEMMA LabelOf == ASSUME NEW p PROVE LabelIn({p}) = p[2]
<1>1. (CHOOSE q \in {p} : TRUE) = p
  OBVIOUS
<1> QED BY <1>1 DEF LabelIn

\* And their stage.
LEMMA StageOfOne ==
  ASSUME NEW p, NEW over
  PROVE  StageIn({p}, over) = IF p[1] = "reported" THEN "reported" ELSE "held"
  BY DEF StageIn

StageOf(c) == StageIn(Places(c), Over(c))
LabelledAs(c) == LabelIn(Places(c))

\* So does what the ledger sees of them.
LEMMA MovesLedger ==
  ASSUME Single, CountedOver, Types, NEW c \in Calls, MovesOf(c), OnOf(c)
  PROVE  Bytes!Moves(StageOf(c), LabelledAs(c), StageOf(c)', LabelledAs(c)')
<1> USE DEF StageOf, LabelledAs, Bytes!Moves, Bytes!Counted, Bytes!Reported, Bytes!Lost, Bytes!Kept
<1>1. ASSUME Places(c) = {}, Places(c)' = {}
      PROVE  Bytes!Moves(StageOf(c), LabelledAs(c), StageOf(c)', LabelledAs(c)')
  BY <1>1, OverStays DEF StageIn, LabelIn
<1>2. CASE Stays(c)
  <2>1. CASE Places(c) = {}
    BY <1>1, <1>2, <2>1 DEF Stays
  <2>2. CASE Places(c) # {}
    BY <1>2, <2>2 DEF Stays, StageIn, LabelIn
  <2> QED BY <2>1, <2>2
<1>3. CASE Comes(c)
  <2>1. PICK k \in Keys, s \in Slots : Places(c)' = {<<"map", k, s>>}
    BY <1>3 DEF Comes
  <2>2. StageOf(c)' = "held" /\ LabelledAs(c)' = k
    <3> DEFINE q == <<"map", k, s>>
    <3>1. q[1] # "reported" /\ q[2] = k
      OBVIOUS
    <3> HIDE DEF q
    <3>2. Places(c)' = {q}
      BY <2>1 DEF q
    <3> QED BY <3>1, <3>2, StageOfOne, LabelOf
  <2>3. StageOf(c) = "new"
    BY <1>3 DEF Comes, StageIn, Over
  <2> QED BY <2>2, <2>3
<1>4. CASE Passes(c)
  <2>1. PICK p \in Places(c), w \in {"taken", "pending", "reported"} :
          p[1] # "reported" /\ Places(c)' = {<<w, p[2], None>>}
    BY <1>4 DEF Passes
  <2>2. Places(c) = {p}
    BY <2>1 DEF Single
  <2>3. StageOf(c) = "held" /\ LabelledAs(c) = p[2]
    BY <2>1, <2>2, StageOfOne, LabelOf
  <2>4. StageOf(c)' = (IF w = "reported" THEN "reported" ELSE "held") /\ LabelledAs(c)' = p[2]
    <3> DEFINE q == <<w, p[2], None>>
    <3>1. q[1] = w /\ q[2] = p[2]
      OBVIOUS
    <3> HIDE DEF q
    <3>2. Places(c)' = {q}
      BY <2>1 DEF q
    <3> QED BY <3>1, <3>2, StageOfOne, LabelOf
  <2> QED BY <2>3, <2>4
<1>5. CASE Goes(c)
  <2>1. CASE Places(c) = {}
    BY <1>1, <1>5, <2>1 DEF Goes
  <2>2. CASE Places(c) # {}
    <3>1. Over(c)'
      BY <2>2, OverStays DEF CountedOver
    <3>2. StageOf(c)' = "lost" /\ LabelledAs(c)' = None
      BY <1>5, <3>1 DEF Goes, StageIn, LabelIn
    <3>3. StageOf(c) = "held"
      BY <1>5, <2>2 DEF Single, Goes, StageIn
    <3> QED BY <3>2, <3>3
  <2> QED BY <2>1, <2>2
<1> QED BY <1>2, <1>3, <1>4, <1>5 DEF MovesOf

-----------------------------------------------------------------------------
(* What a step must keep.                                                  *)

Excused(c) == c \in dropped' \/ \E d \in disturbed' : KeyOf(call'[d]) = KeyOf(call'[c])

\* Bytes that are over and in no place any more are excused.
LossExcused(c) ==
  Places(c)' = {} /\ Over(c)' /\ (Places(c) # {} \/ ~Over(c)) => Excused(c)

\* Bytes come under their own flow, unless their call was disturbed.
ComesRight(c) == Comes(c) => \A p \in Places(c)' : p[2] = KeyOf(call'[c]) \/ c \in disturbed'

\* Then the counting stays exact but for races.
LEMMA ExactStep ==
  ASSUME IInv, disturbed \subseteq disturbed', dropped \subseteq dropped',
         \A d \in Calls : OnOf(d),
         NEW c \in Calls, MovesOf(c), LossExcused(c), ComesRight(c)
  PROVE  ExactAt(c)'
<1>1. ASSUME Over(c)', Places(c)' = {}, c \notin dropped'
      PROVE  \E d \in disturbed' : KeyOf(call'[d]) = KeyOf(call'[c])
  <2>1. CASE Places(c) # {} \/ ~Over(c)
    BY <1>1, <2>1 DEF LossExcused, Excused
  <2>2. CASE Places(c) = {} /\ Over(c)
    <3>1. PICK d \in disturbed : KeyOf(call[d]) = KeyOf(call[c])
      BY <1>1, <2>2 DEF IInv, Exact, ExactAt
    <3>2. d \in Calls /\ pc[d] # "idle" /\ pc[c] # "idle"
      BY <2>2 DEF IInv, Types, GhostTypes, Over
    <3>3. call'[d] = call[d] /\ call'[c] = call[c]
      BY <3>2 DEF OnOf
    <3> QED BY <3>1, <3>3
  <2> QED BY <2>1, <2>2
<1>2. ASSUME NEW p \in Places(c)' PROVE p[2] = KeyOf(call'[c]) \/ c \in disturbed'
  <2>1. CASE Comes(c)
    BY <2>1 DEF ComesRight
  <2>2. CASE Places(c) # {}
    <3>1. pc[c] # "idle"
      BY <2>2 DEF IInv, CountedOver, Over
    <3>2. call'[c] = call[c]
      BY <3>1 DEF OnOf
    <3>3. \A q \in Places(c) : q[2] = KeyOf(call[c]) \/ c \in disturbed
      BY DEF IInv, Exact, ExactAt
    <3>4. CASE Stays(c)
      BY <3>2, <3>3, <3>4 DEF Stays
    <3>5. CASE Passes(c)
      <4>1. PICK q \in Places(c), w \in {"taken", "pending", "reported"} :
              Places(c)' = {<<w, q[2], None>>}
        BY <3>5 DEF Passes
      <4>2. p[2] = q[2]
        BY <4>1
      <4> QED BY <3>2, <3>3, <4>2
    <3>6. CASE Goes(c)
      BY <3>6 DEF Goes
    <3> QED BY <2>2, <3>4, <3>5, <3>6 DEF MovesOf, Comes
  <2>3. CASE Places(c) = {} /\ ~Comes(c)
    BY <2>3 DEF MovesOf, Stays, Passes, Goes
  <2> QED BY <2>1, <2>2, <2>3
<1> QED BY <1>1, <1>2 DEF ExactAt

\* A step is in order if it keeps the invariant and moves bytes as the ledger says.
StepOK == IInv' /\ \A c \in Calls : MovesOf(c) /\ OnOf(c)

\* What is left to show of a step.
LEMMA StepRule ==
  ASSUME IInv, Types', MapOK', TakenOK', Races',
         disturbed \subseteq disturbed', dropped \subseteq dropped',
         \A c \in Calls : MovesOf(c) /\ OnOf(c) /\ LossExcused(c) /\ ComesRight(c)
  PROVE  StepOK
<1>1. Single' /\ CountedOver'
  BY MovesSingle DEF IInv
<1>2. Exact'
  BY ExactStep DEF Exact
<1> QED BY <1>1, <1>2 DEF IInv, StepOK

\* Steps that leave the flows alone leave all bytes in their places.
LEMMA SamePlaces ==
  ASSUME UNCHANGED <<slots, taken, pending, reported>>, NEW c PROVE Places(c)' = Places(c)
  BY DEF Places

\* And if they also leave the calls alone, little is left to show.
LEMMA AsideStep ==
  ASSUME IInv, UNCHANGED <<mix, calls, slots, taken, flows, ghosts>>, TakenOK', todo' \subseteq Keys
  PROVE  StepOK
<1>1. Types' /\ MapOK' /\ Races'
  BY DEF IInv, Types, CallTypes, FlowTypes, GhostTypes, MapOK, Races, Found, calls, flows, ghosts
<1>2. ASSUME NEW c \in Calls PROVE MovesOf(c) /\ OnOf(c) /\ LossExcused(c) /\ ComesRight(c)
  <2>1. Places(c)' = Places(c)
    BY SamePlaces DEF flows
  <2>2. Over(c)' <=> Over(c)
    BY DEF Over, calls
  <2>3. OnOf(c)
    BY DEF OnOf, calls
  <2> QED BY <2>1, <2>2, <2>3 DEF MovesOf, Stays, LossExcused, ComesRight, Comes
<1> QED BY <1>1, <1>2, StepRule DEF ghosts

-----------------------------------------------------------------------------
(* The programs.                                                           *)

\* What the programs take for the key of a call is one.
LEMMA KeyOfType == \A x \in Contexts : KeyOf(x) \in Keys /\ KeyOf(x) # None
  BY KeysAssumption DEF KeysAssumption, Keys

\* The bytes of one call at least are in one element, if they are in the map.
LEMMA InMap ==
  ASSUME IInv, NEW c \in Calls, NEW s \in Slots, c \in slots[s].sum
  PROVE  /\ Places(c) = {<<"map", slots[s].key, s>>} /\ slots[s].key \in Keys
         /\ \A t \in Slots : c \in slots[t].sum => t = s
         /\ \A k \in Keys : c \notin taken[k] /\ c \notin pending[k] /\ c \notin reported[k]
<1>1. <<"map", slots[s].key, s>> \in Places(c)
  BY DEF Places
<1>2. Places(c) = {<<"map", slots[s].key, s>>}
  BY <1>1 DEF IInv, Single
<1>3. slots[s].key \in Keys
  BY DEF IInv, MapOK, Types, FlowTypes
<1>4. ASSUME NEW t \in Slots, c \in slots[t].sum PROVE t = s
  <2>1. <<"map", slots[t].key, t>> \in Places(c)
    BY <1>4 DEF Places
  <2> QED BY <1>2, <2>1
<1>5. ASSUME NEW k \in Keys PROVE c \notin taken[k] /\ c \notin pending[k] /\ c \notin reported[k]
  <2>1. /\ c \in taken[k] => <<"taken", k, None>> \in Places(c)
        /\ c \in pending[k] => <<"pending", k, None>> \in Places(c)
        /\ c \in reported[k] => <<"reported", k, None>> \in Places(c)
    BY DEF Places
  <2> QED BY <1>2, <2>1
<1> QED BY <1>2, <1>3, <1>4, <1>5

\* Bytes that are in no place are nowhere.
LEMMA Nowhere ==
  ASSUME NEW c, Places(c) = {}
  PROVE  /\ \A s \in Slots : c \notin slots[s].sum
         /\ \A k \in Keys : c \notin taken[k] /\ c \notin pending[k] /\ c \notin reported[k]
  BY DEF Places

\* A program that has not written yet has no bytes anywhere.
LEMMA NotYet ==
  ASSUME IInv, NEW c \in Calls, pc[c] \in {"idle", "miss", "hit"}
  PROVE  Places(c) = {} /\ ~Over(c)
  BY DEF IInv, CountedOver, Over

\* What follows account.
LEMMA AfterAccountType == \A x : AfterAccount(x) \in {"capture", "done"}
  BY DEF AfterAccount

\* A program is entered: what its look-up says is true then.
LEMMA EnterOK == ASSUME IInv, NEW c \in Calls, Enter(c) PROVE StepOK
<1>1. pc[c] = "idle" /\ UNCHANGED <<mix, slots, taken, pending, reported, drainer, todo, phase, ghosts>>
  BY DEF Enter, source, drain, flows
<1>2. PICK x \in mix[c] :
        /\ call' = [call EXCEPT ![c] = x]
        /\ \/ /\ ~Counts(x)
              /\ pc' = [pc EXCEPT ![c] = AfterAccount(x)] /\ UNCHANGED ptr
           \/ /\ Counts(x) /\ Found(KeyOf(x)) = {}
              /\ pc' = [pc EXCEPT ![c] = "miss"] /\ UNCHANGED ptr
           \/ /\ Counts(x)
              /\ \E s \in Found(KeyOf(x)) : ptr' = [ptr EXCEPT ![c] = s]
              /\ pc' = [pc EXCEPT ![c] = "hit"]
  BY DEF Enter
<1>3. x \in Contexts
  BY EbpfAssumption DEF EbpfAssumption, IInv, Types, Calls
<1>4. Types /\ CallTypes /\ FlowTypes /\ GhostTypes
  BY DEF IInv, Types
<1>5. /\ \A d \in Calls \ {c} : call'[d] = call[d] /\ pc'[d] = pc[d] /\ ptr'[d] = ptr[d]
      /\ call'[c] = x /\ pc'[c] \in {"miss", "hit", "capture", "done"}
      /\ pc'[c] \in {"miss", "hit"} <=> Counts(x)
      /\ pc'[c] = "hit" => ptr'[c] \in Found(KeyOf(x))
      /\ pc'[c] = "miss" => Found(KeyOf(x)) = {}
  BY <1>2, <1>4, AfterAccountType DEF CallTypes
<1>6. CallTypes'
  <2>1. call' \in [Calls -> Contexts \cup {None}]
    BY <1>2, <1>3, <1>4 DEF CallTypes
  <2>2. pc' \in [Calls -> {"idle", "miss", "hit", "capture", "done"}]
    BY <1>2, <1>4, AfterAccountType DEF CallTypes
  <2>3. ptr' \in [Calls -> Slots \cup {None}]
    BY <1>2, <1>4 DEF CallTypes, Found
  <2> QED BY <1>3, <1>4, <1>5, <2>1, <2>2, <2>3 DEF CallTypes, Found
<1>7. Types'
  BY <1>1, <1>4, <1>5, <1>6 DEF Types, FlowTypes, GhostTypes, ghosts
<1>8. MapOK' /\ TakenOK'
  BY <1>1 DEF IInv, MapOK, TakenOK
<1>9. Races'
  BY <1>1, <1>5 DEF IInv, Races, Found, ghosts
<1>10. ASSUME NEW d \in Calls PROVE MovesOf(d) /\ OnOf(d) /\ LossExcused(d) /\ ComesRight(d)
  <2>1. Places(d)' = Places(d)
    BY <1>1, SamePlaces
  <2>2. OnOf(d)
    BY <1>1, <1>5 DEF OnOf
  <2>3. Over(d)' => Over(d)
    BY <1>1, <1>5 DEF Over
  <2> QED BY <2>1, <2>2, <2>3 DEF MovesOf, Stays, LossExcused, ComesRight, Comes
<1> QED BY <1>1, <1>7, <1>8, <1>9, <1>10, StepRule DEF ghosts

\* What a program leaves alone when it is done with account.
LEMMA Leaves ==
  ASSUME IInv, NEW c \in Calls, pc[c] \in {"miss", "hit"}, call' = call, UNCHANGED <<mix, flows, drain, phase>>,
         pc' = [pc EXCEPT ![c] = AfterAccount(call[c])], ptr' \in {ptr, [ptr EXCEPT ![c] = None]}
  PROVE  /\ CallTypes' /\ mix' \in Mixes /\ TakenOK'
         /\ pc'[c] \in {"capture", "done"} /\ (Over(c)' <=> call[c].bytes = TRUE)
         /\ \A d \in Calls : OnOf(d)
         /\ \A d \in Calls \ {c} : /\ call'[d] = call[d] /\ pc'[d] = pc[d] /\ ptr'[d] = ptr[d]
                                   /\ Over(d)' <=> Over(d)
<1>1. CallTypes /\ mix \in Mixes /\ call[c] \in Contexts /\ Counts(call[c])
  BY DEF IInv, Types, CallTypes
<1>2. call[c].bytes \in BOOLEAN
  BY <1>1, EbpfAssumption DEF EbpfAssumption
<1>3. pc'[c] \in {"capture", "done"} /\ \A d \in Calls \ {c} : pc'[d] = pc[d] /\ ptr'[d] = ptr[d]
  BY <1>1, AfterAccountType DEF CallTypes
<1>4. pc' \in [Calls -> {"idle", "miss", "hit", "capture", "done"}]
  BY <1>1, AfterAccountType DEF CallTypes
<1>5. ptr' \in [Calls -> Slots \cup {None}]
  BY <1>1 DEF CallTypes
<1>6. CallTypes'
  BY <1>1, <1>3, <1>4, <1>5 DEF CallTypes
<1>7. TakenOK'
  BY DEF IInv, TakenOK, flows, drain
<1>8. \A d \in Calls : OnOf(d)
  BY <1>3 DEF OnOf
<1>9. Over(c)' <=> call[c].bytes = TRUE
  BY <1>1, <1>2, <1>3 DEF Over
<1>10. \A d \in Calls \ {c} : Over(d)' <=> Over(d)
  BY <1>3 DEF Over
<1> QED BY <1>1, <1>3, <1>6, <1>7, <1>8, <1>9, <1>10

\* An addition comes under the flow of the call, unless the call was disturbed.
LEMMA AddOK == ASSUME IInv, NEW c \in Calls, Add(c) PROVE StepOK
<1> DEFINE s == ptr[c]
<1>1. /\ pc[c] = "hit" /\ call' = call /\ UNCHANGED <<mix, flows, drain, phase, ghosts>>
      /\ pc' = [pc EXCEPT ![c] = AfterAccount(call[c])] /\ ptr' = [ptr EXCEPT ![c] = None]
  BY DEF Add, source
<1>2. Types /\ FlowTypes /\ GhostTypes /\ MapOK /\ s \in Slots
  BY <1>1 DEF IInv, Types, CallTypes
<1>3. /\ CallTypes' /\ mix' \in Mixes /\ TakenOK' /\ pc'[c] \in {"capture", "done"}
      /\ (Over(c)' <=> call[c].bytes = TRUE) /\ \A d \in Calls : OnOf(d)
      /\ \A d \in Calls \ {c} : /\ call'[d] = call[d] /\ pc'[d] = pc[d] /\ ptr'[d] = ptr[d]
                                /\ Over(d)' <=> Over(d)
  BY <1>1, Leaves
<1>4. Places(c) = {} /\ ~Over(c)
  BY <1>1, NotYet
<1>5. c \in disturbed \/ slots[s].key = KeyOf(call[c])
  BY <1>1 DEF IInv, Races
<1> DEFINE writes == call[c].bytes = TRUE /\ slots[s].key # None
<1>6. slots' = IF writes THEN [slots EXCEPT ![s].sum = slots[s].sum \cup {c}] ELSE slots
  <2>1. call[c].bytes \in BOOLEAN
    BY <1>1, EbpfAssumption DEF EbpfAssumption, IInv, Types, CallTypes
  <2> QED BY <2>1 DEF Add
<1>7. /\ slots' \in [Slots -> [key : Keys \cup {None}, sum : SUBSET Calls]]
      /\ \A t \in Slots : slots'[t].key = slots[t].key
      /\ \A t \in Slots : slots'[t].sum = IF writes /\ t = s THEN slots[t].sum \cup {c} ELSE slots[t].sum
  <2> HIDE DEF s
  <2>1. CASE writes
    BY <1>2, <1>6, <2>1 DEF FlowTypes
  <2>2. CASE ~writes
    BY <1>2, <1>6, <2>2 DEF FlowTypes
  <2> QED BY <2>1, <2>2
<1> HIDE DEF writes
<1>8. Types'
  BY <1>1, <1>2, <1>3, <1>7 DEF Types, FlowTypes, GhostTypes, flows, drain, ghosts
<1>9. MapOK'
  <2>1. ASSUME NEW t \in Slots, slots[t].key = None PROVE slots'[t].sum = {}
    <3>1. ~(writes /\ t = s)
      BY <2>1 DEF writes
    <3>2. slots'[t].sum = slots[t].sum
      BY <1>7, <3>1
    <3> QED BY <1>2, <2>1, <3>2 DEF MapOK
  <2> QED BY <1>2, <1>7, <2>1 DEF MapOK
<1>10. Races'
  <2>1. ASSUME NEW d \in Calls
        PROVE  /\ pc'[d] = "hit" => slots'[ptr'[d]].key = KeyOf(call'[d]) \/ d \in disturbed'
               /\ pc'[d] = "miss" => Found(KeyOf(call[d]))' = {} \/ d \in disturbed'
    <3>1. pc'[d] \in {"miss", "hit"} => d # c
      BY <1>3
    <3>2. Found(KeyOf(call[d]))' = Found(KeyOf(call[d]))
      BY <1>1, <1>7 DEF Found
    <3>3. pc[d] = "hit" => ptr[d] \in Slots
      BY DEF IInv, Types, CallTypes
    <3> QED BY <1>1, <1>3, <1>7, <3>1, <3>2, <3>3 DEF IInv, Races, ghosts
  <2> QED BY <2>1 DEF Races
<1>11. ASSUME NEW d \in Calls \ {c} PROVE MovesOf(d) /\ OnOf(d) /\ LossExcused(d) /\ ComesRight(d)
  <2>1. \A t \in Slots : d \in slots'[t].sum <=> d \in slots[t].sum
    BY <1>7
  <2>2. Places(d)' = Places(d)
    BY <1>1, <1>7, <2>1 DEF Places, flows, drain
  <2> QED BY <1>3, <2>2 DEF MovesOf, Stays, LossExcused, ComesRight, Comes
<1>12. CASE writes
  <2>1. \A t \in Slots : c \in slots'[t].sum <=> t = s
    BY <1>4, <1>7, <1>12, Nowhere
  <2>2. \A k \in Keys : c \notin taken'[k] /\ c \notin pending'[k] /\ c \notin reported'[k]
    BY <1>1, <1>4, Nowhere DEF flows, drain
  <2>3. PICK t \in Slots : t = s
    BY <1>2
  <2>4. Places(c)' = {<<"map", slots[s].key, s>>}
    <3>1. Places(c)' = {<<"map", slots'[u].key, u>> : u \in {u \in Slots : c \in slots'[u].sum}}
      BY <2>2 DEF Places
    <3> QED BY <1>7, <2>1, <2>3, <3>1
  <2>5. slots[s].key \in Keys
    BY <1>2, <1>12 DEF writes, FlowTypes
  <2>6. Comes(c)
    BY <1>1, <1>2, <1>3, <1>4, <1>12, <2>4, <2>5 DEF Comes, writes
  <2>7. \A p \in Places(c)' : p[2] = slots[s].key
    BY <2>4
  <2>8. ComesRight(c)
    BY <1>1, <1>5, <2>7 DEF ComesRight, ghosts
  <2>9. LossExcused(c)
    BY <2>4 DEF LossExcused
  <2> QED BY <1>1, <1>3, <1>8, <1>9, <1>10, <1>11, <2>6, <2>8, <2>9, StepRule DEF MovesOf, ghosts
<1>13. CASE ~writes
  <2>1. Places(c)' = {}
    <3>1. slots' = slots
      BY <1>6, <1>13 DEF writes
    <3> QED BY <1>1, <1>4, <3>1, SamePlaces DEF flows, drain
  <2>2. MovesOf(c) /\ ComesRight(c)
    BY <1>4, <2>1 DEF MovesOf, Stays, ComesRight
  <2>3. LossExcused(c)
    <3>1. ASSUME Over(c)' PROVE c \in disturbed
      <4>1. slots[s].key = None
        BY <1>3, <1>13, <3>1 DEF writes
      <4>2. KeyOf(call[c]) # None
        BY <1>1, KeyOfType DEF IInv, Types, CallTypes
      <4> QED BY <1>5, <4>1, <4>2
    <3> QED BY <1>1, <3>1 DEF LossExcused, Excused, ghosts
  <2> QED BY <1>1, <1>3, <1>8, <1>9, <1>10, <1>11, <2>2, <2>3, StepRule DEF ghosts
<1> QED BY <1>12, <1>13

\* The bytes of a call that is in the map lie under its own flow, unless it was
\* disturbed.
LEMMA UnderOwn ==
  ASSUME IInv, NEW c \in Calls, NEW s \in Slots, c \in slots[s].sum
  PROVE  slots[s].key = KeyOf(call[c]) \/ c \in disturbed
<1>1. <<"map", slots[s].key, s>> \in Places(c)
  BY InMap
<1> QED BY <1>1 DEF IInv, Exact, ExactAt

\* A new entry replaces one of the same flow, or evicts another flow.
LEMMA UpdateOK == ASSUME IInv, NEW c \in Calls, Update(c) PROVE StepOK
<1> DEFINE k == KeyOf(call[c])
           new == [key |-> k, sum |-> IF call[c].bytes THEN {c} ELSE {}]
<1>1. /\ pc[c] = "miss" /\ call' = call /\ UNCHANGED <<mix, ptr, flows, drain, phase>>
      /\ pc' = [pc EXCEPT ![c] = AfterAccount(call[c])]
  BY DEF Update, source
<1>2. PICK s \in Slots :
        /\ slots' = Written(c, s)
        /\ disturbed' = disturbed \cup Window(c, {k, slots[s].key})
        /\ dropped' = IF slots[s].key = k THEN dropped ELSE dropped \cup slots[s].sum
  BY DEF Update, Room, Found
<1>3. Types /\ FlowTypes /\ GhostTypes /\ MapOK /\ CallTypes
  BY DEF IInv, Types
<1>4. k \in Keys /\ k # None /\ call[c].bytes \in BOOLEAN
  BY <1>1, <1>3, KeyOfType, EbpfAssumption DEF EbpfAssumption, CallTypes
<1>5. /\ CallTypes' /\ mix' \in Mixes /\ TakenOK' /\ pc'[c] \in {"capture", "done"}
      /\ (Over(c)' <=> call[c].bytes = TRUE) /\ \A d \in Calls : OnOf(d)
      /\ \A d \in Calls \ {c} : /\ call'[d] = call[d] /\ pc'[d] = pc[d] /\ ptr'[d] = ptr[d]
                                /\ Over(d)' <=> Over(d)
  BY <1>1, Leaves
<1>6. Places(c) = {} /\ ~Over(c)
  BY <1>1, NotYet
<1>7. /\ slots'[s].key = k /\ slots'[s].sum = IF call[c].bytes THEN {c} ELSE {}
      /\ \A t \in Slots \ {s} : slots'[t] = IF slots[t].key = k THEN Free ELSE slots[t]
      /\ slots' \in [Slots -> [key : Keys \cup {None}, sum : SUBSET Calls]]
  <2>1. new \in [key : Keys \cup {None}, sum : SUBSET Calls]
    BY <1>4
  <2>2. Free \in [key : Keys \cup {None}, sum : SUBSET Calls]
    BY DEF Free
  <2>3. slots' = [t \in Slots |-> IF t = s THEN new ELSE IF slots[t].key = k THEN Free ELSE slots[t]]
    BY <1>2 DEF Written
  <2> QED BY <1>3, <2>1, <2>2, <2>3 DEF FlowTypes
<1>8. Free.key = None /\ Free.sum = {}
  BY DEF Free
<1> HIDE DEF new, k
<1>9. GhostTypes' /\ disturbed \subseteq disturbed' /\ dropped \subseteq dropped'
  BY <1>1, <1>2, <1>3, <1>5 DEF GhostTypes, Window, FlowTypes
<1>10. Types'
  BY <1>1, <1>3, <1>5, <1>7, <1>9 DEF Types, FlowTypes, flows, drain
<1>11. MapOK'
  BY <1>3, <1>4, <1>7, <1>8 DEF MapOK
<1>12. Races'
  <2>1. ASSUME NEW d \in Calls
        PROVE  /\ pc'[d] = "hit" => slots'[ptr'[d]].key = KeyOf(call'[d]) \/ d \in disturbed'
               /\ pc'[d] = "miss" => Found(KeyOf(call[d]))' = {} \/ d \in disturbed'
    <3>1. CASE d = c
      BY <1>5, <3>1
    <3>2. CASE d # c
      <4> DEFINE l == KeyOf(call[d])
      <4>1. pc'[d] = pc[d] /\ ptr'[d] = ptr[d] /\ call'[d] = call[d]
        BY <1>5, <3>2
      <4>2. pc[d] \in {"miss", "hit"} /\ l \in {k, slots[s].key} => d \in disturbed'
        BY <1>2, <3>2 DEF Window
      <4>3. ASSUME pc[d] = "hit" PROVE slots'[ptr[d]].key = l \/ d \in disturbed'
        <5>1. ptr[d] \in Slots /\ (slots[ptr[d]].key = l \/ d \in disturbed')
          BY <1>3, <1>9, <4>3 DEF CallTypes, IInv, Races
        <5> QED BY <1>7, <4>2, <4>3, <5>1
      <4>4. ASSUME pc[d] = "miss", d \notin disturbed' PROVE Found(l)' = {}
        <5>1. l # k /\ \A t \in Slots : slots[t].key # l
          BY <1>9, <4>2, <4>4 DEF IInv, Races, Found
        <5>2. l # None
          BY <1>3, <4>4, KeyOfType DEF CallTypes
        <5>3. \A t \in Slots : slots'[t].key # l
          BY <1>7, <1>8, <5>1, <5>2
        <5> QED BY <1>1, <4>1, <5>3 DEF Found
      <4> QED BY <1>1, <4>1, <4>3, <4>4
    <3> QED BY <3>1, <3>2
  <2> QED BY <2>1 DEF Races
<1>13. ASSUME NEW d \in Calls \ {c} PROVE MovesOf(d) /\ LossExcused(d) /\ ComesRight(d)
  <2>1. \A t \in Slots : d \in slots'[t].sum <=> t # s /\ slots[t].key # k /\ d \in slots[t].sum
    BY <1>7, <1>8
  <2>2. CASE \A t \in Slots : d \notin slots[t].sum
    <3>1. Places(d)' = Places(d)
      BY <1>1, <2>1, <2>2 DEF Places, flows, drain
    <3> QED BY <1>5, <3>1 DEF MovesOf, Stays, LossExcused, ComesRight, Comes
  <2>3. CASE \E t \in Slots : d \in slots[t].sum
    <3>1. PICK t \in Slots : d \in slots[t].sum
      BY <2>3
    <3>2. /\ Places(d) = {<<"map", slots[t].key, t>>} /\ slots[t].key \in Keys
          /\ \A u \in Slots : d \in slots[u].sum => u = t
          /\ \A l \in Keys : d \notin taken'[l] /\ d \notin pending'[l] /\ d \notin reported'[l]
      BY <1>1, <3>1, InMap DEF flows, drain
    <3>3. Places(d)' = {<<"map", slots'[u].key, u>> : u \in {u \in Slots : d \in slots'[u].sum}}
      BY <3>2 DEF Places
    <3>4. CASE t # s /\ slots[t].key # k
      <4>1. {u \in Slots : d \in slots'[u].sum} = {t} /\ slots'[t].key = slots[t].key
        BY <1>7, <2>1, <3>1, <3>2, <3>4
      <4>2. Places(d)' = Places(d)
        BY <3>2, <3>3, <4>1
      <4> QED BY <1>5, <4>2 DEF MovesOf, Stays, LossExcused, ComesRight, Comes
    <3>5. CASE t = s \/ slots[t].key = k
      <4>1. {u \in Slots : d \in slots'[u].sum} = {}
        BY <2>1, <3>2, <3>5
      <4>2. Places(d)' = {}
        BY <3>3, <4>1
      <4>3. MovesOf(d) /\ ComesRight(d)
        BY <3>2, <4>2 DEF MovesOf, Goes, ComesRight
      <4>4. CASE slots[t].key # k
        BY <1>2, <3>1, <3>5, <4>3, <4>4 DEF LossExcused, Excused
      <4>5. CASE slots[t].key = k
        <5>1. c \in disturbed
          BY <1>1, <4>5 DEF IInv, Races, Found, k
        <5>2. KeyOf(call[d]) = k \/ d \in disturbed
          BY <3>1, <4>5, UnderOwn
        <5>3. \E e \in disturbed' : KeyOf(call'[e]) = KeyOf(call'[d])
          <6>1. c \in disturbed' /\ KeyOf(call'[c]) = k /\ call'[d] = call[d]
            BY <1>1, <1>9, <5>1 DEF k
          <6>2. CASE KeyOf(call[d]) = k
            BY <6>1, <6>2
          <6>3. CASE d \in disturbed
            BY <1>9, <6>3
          <6> QED BY <5>2, <6>2, <6>3
        <5> QED BY <4>3, <5>3 DEF LossExcused, Excused
      <4> QED BY <4>4, <4>5
    <3> QED BY <3>4, <3>5
  <2> QED BY <2>2, <2>3
<1>14. MovesOf(c) /\ LossExcused(c) /\ ComesRight(c)
  <2>1. \A t \in Slots : c \in slots'[t].sum <=> t = s /\ call[c].bytes = TRUE
    BY <1>4, <1>6, <1>7, <1>8, Nowhere
  <2>2. \A l \in Keys : c \notin taken'[l] /\ c \notin pending'[l] /\ c \notin reported'[l]
    BY <1>1, <1>6, Nowhere DEF flows, drain
  <2>3. Places(c)' = {<<"map", slots'[u].key, u>> : u \in {u \in Slots : c \in slots'[u].sum}}
    BY <2>2 DEF Places
  <2>4. CASE call[c].bytes = TRUE
    <3>1. Places(c)' = {<<"map", k, s>>}
      BY <1>7, <2>1, <2>3, <2>4
    <3>2. Comes(c) /\ LossExcused(c)
      BY <1>1, <1>4, <1>5, <1>6, <2>4, <3>1 DEF Comes, LossExcused
    <3>3. \A p \in Places(c)' : p[2] = k
      BY <3>1
    <3> QED BY <1>1, <3>2, <3>3 DEF MovesOf, ComesRight, k
  <2>5. CASE call[c].bytes # TRUE
    <3>1. {u \in Slots : c \in slots'[u].sum} = {}
      BY <2>1, <2>5
    <3>2. Places(c)' = {}
      BY <2>3, <3>1
    <3> QED BY <1>5, <1>6, <2>5, <3>2 DEF MovesOf, Stays, LossExcused, ComesRight
  <2> QED BY <2>4, <2>5
<1> QED BY <1>5, <1>9, <1>10, <1>11, <1>12, <1>13, <1>14, StepRule

\* A failed update is given up.
LEMMA UpdateFailsOK == ASSUME IInv, NEW c \in Calls, UpdateFails(c) PROVE StepOK
<1>1. /\ pc[c] = "miss" /\ call' = call /\ UNCHANGED <<mix, ptr, flows, drain, phase, slots, disturbed>>
      /\ pc' = [pc EXCEPT ![c] = AfterAccount(call[c])] /\ dropped' = dropped \cup {c}
  BY DEF UpdateFails, source
<1>2. /\ CallTypes' /\ mix' \in Mixes /\ TakenOK' /\ pc'[c] \in {"capture", "done"}
      /\ \A d \in Calls : OnOf(d)
      /\ \A d \in Calls \ {c} : /\ call'[d] = call[d] /\ pc'[d] = pc[d] /\ ptr'[d] = ptr[d]
                                /\ Over(d)' <=> Over(d)
  BY <1>1, Leaves
<1>3. Types' /\ MapOK'
  BY <1>1, <1>2 DEF IInv, Types, FlowTypes, GhostTypes, MapOK, flows, drain
<1>4. Races'
  BY <1>1, <1>2 DEF IInv, Races, Found
<1>5. ASSUME NEW d \in Calls PROVE MovesOf(d) /\ LossExcused(d) /\ ComesRight(d)
  <2>1. Places(d)' = Places(d)
    BY <1>1, SamePlaces DEF flows, drain
  <2>2. d = c => d \in dropped'
    BY <1>1
  <2> QED BY <1>2, <2>1, <2>2 DEF MovesOf, Stays, LossExcused, Excused, ComesRight, Comes
<1> QED BY <1>1, <1>2, <1>3, <1>4, <1>5, StepRule

\* capture_dns does not look at the flows.
LEMMA CaptureOK == ASSUME IInv, NEW c \in Calls, Capture(c) PROVE StepOK
<1>1. /\ pc[c] = "capture" /\ pc' = [pc EXCEPT ![c] = "done"]
      /\ UNCHANGED <<mix, call, ptr, phase, drain, flows, slots, ghosts>>
  BY DEF Capture, source
<1>2. /\ \A d \in Calls \ {c} : pc'[d] = pc[d]
      /\ pc'[c] = "done" /\ pc' \in [Calls -> {"idle", "miss", "hit", "capture", "done"}]
  BY <1>1 DEF IInv, Types, CallTypes
<1>3. Types'
  BY <1>1, <1>2 DEF IInv, Types, CallTypes, FlowTypes, GhostTypes, drain, flows, ghosts
<1>4. MapOK' /\ TakenOK'
  BY <1>1 DEF IInv, MapOK, TakenOK, drain
<1>5. Races'
  BY <1>1, <1>2 DEF IInv, Races, Found, ghosts
<1>6. ASSUME NEW d \in Calls PROVE MovesOf(d) /\ OnOf(d) /\ LossExcused(d) /\ ComesRight(d)
  <2>1. Places(d)' = Places(d)
    BY <1>1, SamePlaces DEF flows, drain
  <2>2. OnOf(d) /\ (Over(d)' <=> Over(d))
    BY <1>1, <1>2 DEF OnOf, Over
  <2> QED BY <2>1, <2>2 DEF MovesOf, Stays, LossExcused, ComesRight, Comes
<1> QED BY <1>1, <1>3, <1>4, <1>5, <1>6, StepRule DEF ghosts

-----------------------------------------------------------------------------
(* The agent.                                                              *)

\* Bytes that a drain has taken are nowhere else.
LEMMA InTaken ==
  ASSUME IInv, NEW c \in Calls, NEW k \in Keys, c \in taken[k]
  PROVE  /\ Places(c) = {<<"taken", k, None>>}
         /\ \A s \in Slots : c \notin slots[s].sum
         /\ \A l \in Keys : (c \in taken[l] => l = k) /\ c \notin pending[l] /\ c \notin reported[l]
<1>1. <<"taken", k, None>> \in Places(c)
  BY DEF Places
<1>2. Places(c) = {<<"taken", k, None>>}
  BY <1>1 DEF IInv, Single
<1>3. ASSUME NEW s \in Slots PROVE c \notin slots[s].sum
  <2>1. c \in slots[s].sum => <<"map", slots[s].key, s>> \in Places(c)
    BY DEF Places
  <2> QED BY <1>2, <2>1
<1>4. ASSUME NEW l \in Keys
      PROVE  (c \in taken[l] => l = k) /\ c \notin pending[l] /\ c \notin reported[l]
  <2>1. /\ c \in taken[l] => <<"taken", l, None>> \in Places(c)
        /\ c \in pending[l] => <<"pending", l, None>> \in Places(c)
        /\ c \in reported[l] => <<"reported", l, None>> \in Places(c)
    BY DEF Places
  <2> QED BY <1>2, <2>1
<1> QED BY <1>2, <1>3, <1>4

\* So are those that wait for the telemetry loop.
LEMMA InPending ==
  ASSUME IInv, NEW c \in Calls, NEW k \in Keys, c \in pending[k]
  PROVE  /\ Places(c) = {<<"pending", k, None>>}
         /\ \A s \in Slots : c \notin slots[s].sum
         /\ \A l \in Keys : (c \in pending[l] => l = k) /\ c \notin taken[l] /\ c \notin reported[l]
<1>1. <<"pending", k, None>> \in Places(c)
  BY DEF Places
<1>2. Places(c) = {<<"pending", k, None>>}
  BY <1>1 DEF IInv, Single
<1>3. ASSUME NEW s \in Slots PROVE c \notin slots[s].sum
  <2>1. c \in slots[s].sum => <<"map", slots[s].key, s>> \in Places(c)
    BY DEF Places
  <2> QED BY <1>2, <2>1
<1>4. ASSUME NEW l \in Keys
      PROVE  (c \in pending[l] => l = k) /\ c \notin taken[l] /\ c \notin reported[l]
  <2>1. /\ c \in pending[l] => <<"pending", l, None>> \in Places(c)
        /\ c \in taken[l] => <<"taken", l, None>> \in Places(c)
        /\ c \in reported[l] => <<"reported", l, None>> \in Places(c)
    BY DEF Places
  <2> QED BY <1>2, <2>1
<1> QED BY <1>2, <1>3, <1>4

\* And those that were reported.
LEMMA InReported ==
  ASSUME IInv, NEW c \in Calls, NEW k \in Keys, c \in reported[k]
  PROVE  /\ Places(c) = {<<"reported", k, None>>}
         /\ \A s \in Slots : c \notin slots[s].sum
         /\ \A l \in Keys : (c \in reported[l] => l = k) /\ c \notin taken[l] /\ c \notin pending[l]
<1>1. <<"reported", k, None>> \in Places(c)
  BY DEF Places
<1>2. Places(c) = {<<"reported", k, None>>}
  BY <1>1 DEF IInv, Single
<1>3. ASSUME NEW s \in Slots PROVE c \notin slots[s].sum
  <2>1. c \in slots[s].sum => <<"map", slots[s].key, s>> \in Places(c)
    BY DEF Places
  <2> QED BY <1>2, <2>1
<1>4. ASSUME NEW l \in Keys
      PROVE  (c \in reported[l] => l = k) /\ c \notin taken[l] /\ c \notin pending[l]
  <2>1. /\ c \in reported[l] => <<"reported", l, None>> \in Places(c)
        /\ c \in taken[l] => <<"taken", l, None>> \in Places(c)
        /\ c \in pending[l] => <<"pending", l, None>> \in Places(c)
    BY DEF Places
  <2> QED BY <1>2, <2>1
<1> QED BY <1>2, <1>3, <1>4

\* Steps that leave calls and ghosts alone.
LEMMA CallsAlone ==
  ASSUME IInv, UNCHANGED <<mix, calls>>
  PROVE  /\ CallTypes' /\ mix' \in Mixes
         /\ \A c \in Calls : OnOf(c) /\ ~Comes(c) /\ (Over(c)' <=> Over(c))
<1>1. CallTypes' /\ mix' \in Mixes
  BY DEF IInv, Types, CallTypes, calls
<1>2. ASSUME NEW c \in Calls PROVE OnOf(c) /\ (Over(c)' <=> Over(c))
  BY DEF OnOf, Over, calls
<1>3. ASSUME NEW c \in Calls PROVE ~Comes(c)
  BY <1>2, NotYet DEF Comes
<1> QED BY <1>1, <1>2, <1>3

\* A second pass takes the bytes of one flow from the map.
LEMMA TakeOK == ASSUME IInv, Take PROVE StepOK
<1>1. UNCHANGED <<mix, calls, drainer, pending, reported, phase, dropped>> /\ drainer \in {"take", "last"}
  BY DEF Take, source, calls, flows
<1>2. PICK k \in todo : /\ todo' = todo \ {k} /\ taken' = [taken EXCEPT ![k] = SumOf(k)]
                        /\ slots' = Removed(k)
                        /\ disturbed' = disturbed \cup Window(0, {k})
  BY DEF Take
<1>3. Types /\ CallTypes /\ FlowTypes /\ GhostTypes /\ MapOK /\ k \in Keys /\ k # None /\ taken[k] = {}
  BY KeysAssumption DEF KeysAssumption, IInv, Types, FlowTypes, TakenOK
<1>4. CallTypes' /\ mix' \in Mixes /\ \A c \in Calls : OnOf(c) /\ ~Comes(c) /\ (Over(c)' <=> Over(c))
  BY <1>1, CallsAlone
<1>5. Free.key = None /\ Free.sum = {} /\ Free \in [key : Keys \cup {None}, sum : SUBSET Calls]
  BY DEF Free
<1>6. /\ \A t \in Slots : slots'[t] = IF slots[t].key = k THEN Free ELSE slots[t]
      /\ slots' \in [Slots -> [key : Keys \cup {None}, sum : SUBSET Calls]]
  BY <1>2, <1>3, <1>5 DEF Removed, FlowTypes
<1>7. SumOf(k) \in SUBSET Calls /\ \A d : d \in SumOf(k) <=> \E t \in Slots : slots[t].key = k /\ d \in slots[t].sum
  BY <1>3 DEF SumOf, Found, FlowTypes
<1>8. /\ taken' \in [Keys -> SUBSET Calls] /\ taken'[k] = SumOf(k)
      /\ \A l \in Keys \ {k} : taken'[l] = taken[l]
  BY <1>2, <1>3, <1>7 DEF FlowTypes
<1>9. GhostTypes' /\ disturbed \subseteq disturbed'
  BY <1>1, <1>2, <1>3 DEF GhostTypes, Window, calls
<1>10. Types'
  BY <1>1, <1>2, <1>3, <1>4, <1>6, <1>8, <1>9 DEF Types, FlowTypes
<1>11. MapOK'
  BY <1>3, <1>5, <1>6 DEF MapOK
<1>12. TakenOK'
  BY <1>1, <1>2, <1>8 DEF IInv, TakenOK
<1>13. Races'
  <2>1. ASSUME NEW d \in Calls
        PROVE  /\ pc'[d] = "hit" => slots'[ptr'[d]].key = KeyOf(call'[d]) \/ d \in disturbed'
               /\ pc'[d] = "miss" => Found(KeyOf(call[d]))' = {} \/ d \in disturbed'
    <3> DEFINE l == KeyOf(call[d])
    <3>1. pc[d] \in {"miss", "hit"} /\ l = k => d \in disturbed'
      BY <1>2 DEF Window, Calls
    <3>2. ASSUME pc[d] = "hit" PROVE slots'[ptr[d]].key = l \/ d \in disturbed'
      <4>1. ptr[d] \in Slots /\ (slots[ptr[d]].key = l \/ d \in disturbed')
        BY <1>3, <1>9, <3>2 DEF CallTypes, IInv, Races
      <4> QED BY <1>6, <3>1, <3>2, <4>1
    <3>3. ASSUME pc[d] = "miss", d \notin disturbed' PROVE Found(l)' = {}
      <4>1. \A t \in Slots : slots[t].key # l
        BY <1>9, <3>3 DEF IInv, Races, Found
      <4>2. l # None
        BY <1>3, <3>3, KeyOfType DEF CallTypes
      <4>3. \A t \in Slots : slots'[t].key # l
        BY <1>5, <1>6, <4>1, <4>2
      <4> QED BY <1>1, <4>3 DEF Found, calls
    <3> QED BY <1>1, <3>2, <3>3 DEF calls
  <2> QED BY <2>1 DEF Races
<1>14. ASSUME NEW d \in Calls PROVE MovesOf(d) /\ LossExcused(d)
  <2>1. \A t \in Slots : d \in slots'[t].sum <=> slots[t].key # k /\ d \in slots[t].sum
    BY <1>5, <1>6
  <2>2. \A l \in Keys : d \in taken'[l] <=> d \in taken[l] \/ (l = k /\ d \in SumOf(k))
    BY <1>3, <1>8
  <2>3. CASE d \notin SumOf(k)
    <3>1. \A t \in Slots : (d \in slots'[t].sum <=> d \in slots[t].sum)
                           /\ (d \in slots[t].sum => slots'[t].key = slots[t].key)
      BY <1>6, <1>7, <2>1, <2>3
    <3>2. \A l \in Keys : d \in taken'[l] <=> d \in taken[l]
      BY <2>2, <2>3
    <3>3. Places(d)' = Places(d)
      BY <1>1, <3>1, <3>2 DEF Places
    <3> QED BY <1>4, <3>3 DEF MovesOf, Stays, LossExcused
  <2>4. CASE d \in SumOf(k)
    <3>1. PICK t \in Slots : slots[t].key = k /\ d \in slots[t].sum
      BY <1>7, <2>4
    <3>2. /\ Places(d) = {<<"map", k, t>>} /\ \A u \in Slots : d \in slots[u].sum => u = t
          /\ \A l \in Keys : d \notin taken[l] /\ d \notin pending[l] /\ d \notin reported[l]
      BY <3>1, InMap
    <3>3. /\ \A u \in Slots : d \notin slots'[u].sum
          /\ \A l \in Keys : (d \in taken'[l] <=> l = k) /\ d \notin pending'[l] /\ d \notin reported'[l]
      BY <1>1, <2>1, <2>2, <2>4, <3>1, <3>2
    <3>4. Places(d)' = {<<"taken", k, None>>}
      BY <1>3, <3>3 DEF Places
    <3>5. Passes(d)
      <4> DEFINE p == <<"map", k, t>>
      <4>1. p \in Places(d) /\ p[1] # "reported" /\ p[2] = k
        BY <3>2
      <4> QED BY <3>4, <4>1 DEF Passes
    <3> QED BY <3>4, <3>5 DEF MovesOf, LossExcused
  <2> QED BY <2>3, <2>4
<1>15. ASSUME NEW d \in Calls PROVE ComesRight(d)
  BY <1>4 DEF ComesRight
<1> QED BY <1>1, <1>4, <1>9, <1>10, <1>11, <1>12, <1>13, <1>14, <1>15, StepRule

\* A failure gives up what was taken.
LEMMA DrainFailsOK == ASSUME IInv, DrainFails PROVE StepOK
<1>1. /\ UNCHANGED <<mix, calls, slots, pending, reported, phase, disturbed>>
      /\ todo' = {} /\ taken' = Nothing /\ drainer' \in {"exited", "wait"} /\ drainer # "exited"
      /\ dropped' = dropped \cup UNION {taken[k] : k \in Keys}
  BY DEF DrainFails, source, calls, flows, AfterTurn
<1>2. CallTypes' /\ mix' \in Mixes /\ \A c \in Calls : OnOf(c) /\ ~Comes(c) /\ (Over(c)' <=> Over(c))
  BY <1>1, CallsAlone
<1>3. taken' \in [Keys -> SUBSET Calls] /\ \A k \in Keys : taken'[k] = {}
  BY <1>1 DEF Nothing
<1>4. dropped' \subseteq Calls
  BY <1>1 DEF IInv, Types, FlowTypes, GhostTypes
<1>5. Types' /\ MapOK' /\ TakenOK' /\ Races'
  <2>1. Types'
    BY <1>1, <1>2, <1>3, <1>4 DEF IInv, Types, FlowTypes, GhostTypes, calls
  <2>2. MapOK' /\ TakenOK'
    BY <1>1, <1>3 DEF IInv, MapOK, TakenOK
  <2>3. Races'
    BY <1>1 DEF IInv, Races, Found, calls
  <2> QED BY <2>1, <2>2, <2>3
<1>6. ASSUME NEW d \in Calls PROVE MovesOf(d) /\ LossExcused(d) /\ ComesRight(d)
  <2>1. CASE \A k \in Keys : d \notin taken[k]
    <3>1. Places(d)' = Places(d)
      BY <1>1, <1>3, <2>1 DEF Places
    <3> QED BY <1>2, <3>1 DEF MovesOf, Stays, LossExcused, ComesRight
  <2>2. CASE \E k \in Keys : d \in taken[k]
    <3>1. PICK k \in Keys : d \in taken[k]
      BY <2>2
    <3>2. Places(d)' = {}
      BY <1>1, <1>3, <3>1, InTaken DEF Places
    <3>3. \A p \in Places(d) : p[1] # "reported"
      BY <3>1, InTaken
    <3> QED BY <1>1, <1>2, <3>1, <3>2, <3>3 DEF MovesOf, Goes, LossExcused, Excused, ComesRight
  <2> QED BY <2>1, <2>2
<1> QED BY <1>1, <1>2, <1>5, <1>6, StepRule

\* What was taken becomes pending, or is given up.
LEMMA MergeOK == ASSUME IInv, Merge PROVE StepOK
<1>1. UNCHANGED <<mix, calls, slots, todo, reported, phase, disturbed>>
      /\ taken' = Nothing /\ drainer' \in {"exited", "wait"} /\ drainer \in {"take", "last"}
  BY DEF Merge, source, calls, AfterTurn
<1>2. PICK fits :
        /\ Present(pending) \subseteq fits
        /\ pending' = [k \in Keys |-> IF k \in fits THEN pending[k] \cup taken[k] ELSE {}]
        /\ dropped' = dropped \cup UNION {taken[k] : k \in Keys \ fits}
  BY DEF Merge
<1>3. CallTypes' /\ mix' \in Mixes /\ \A c \in Calls : OnOf(c) /\ ~Comes(c) /\ (Over(c)' <=> Over(c))
  BY <1>1, CallsAlone
<1>4. /\ taken' \in [Keys -> SUBSET Calls] /\ \A k \in Keys : taken'[k] = {}
      /\ pending' \in [Keys -> SUBSET Calls]
      /\ \A k \in Keys : pending'[k] = IF k \in fits THEN pending[k] \cup taken[k] ELSE {}
  BY <1>1, <1>2 DEF Nothing, IInv, Types, FlowTypes
<1>5. \A k \in Keys : pending[k] # {} => k \in fits
  BY <1>2 DEF Present, IInv, Types, FlowTypes
<1>6. dropped' \subseteq Calls
  BY <1>2 DEF IInv, Types, FlowTypes, GhostTypes
<1>7. Types' /\ MapOK' /\ TakenOK' /\ Races'
  <2>1. Types'
    BY <1>1, <1>3, <1>4, <1>6 DEF IInv, Types, FlowTypes, GhostTypes, calls
  <2>2. MapOK' /\ TakenOK'
    BY <1>1, <1>4 DEF IInv, MapOK, TakenOK
  <2>3. Races'
    BY <1>1 DEF IInv, Races, Found, calls
  <2> QED BY <2>1, <2>2, <2>3
<1>8. ASSUME NEW d \in Calls PROVE MovesOf(d) /\ LossExcused(d) /\ ComesRight(d)
  <2>1. CASE \A k \in Keys : d \notin taken[k]
    <3>1. \A k \in Keys : d \in pending'[k] <=> d \in pending[k]
      BY <1>4, <1>5, <2>1
    <3>2. Places(d)' = Places(d)
      BY <1>1, <1>4, <2>1, <3>1 DEF Places
    <3> QED BY <1>3, <3>2 DEF MovesOf, Stays, LossExcused, ComesRight
  <2>2. CASE \E k \in Keys : d \in taken[k]
    <3>1. PICK k \in Keys : d \in taken[k]
      BY <2>2
    <3>2. /\ Places(d) = {<<"taken", k, None>>} /\ \A s \in Slots : d \notin slots[s].sum
          /\ \A l \in Keys : (d \in taken[l] => l = k) /\ d \notin pending[l] /\ d \notin reported[l]
      BY <3>1, InTaken
    <3>3. \A p \in Places(d) : p[1] # "reported" /\ p[2] = k
      BY <3>2
    <3>4. CASE k \in fits
      <4>1. \A l \in Keys : d \in pending'[l] <=> l = k
        BY <1>4, <3>1, <3>2, <3>4
      <4>2. Places(d)' = {<<"pending", k, None>>}
        BY <1>1, <1>4, <3>2, <4>1 DEF Places
      <4>3. Passes(d)
        BY <3>2, <3>3, <4>2 DEF Passes
      <4> QED BY <1>3, <4>2, <4>3 DEF MovesOf, LossExcused, ComesRight
    <3>5. CASE k \notin fits
      <4>1. \A l \in Keys : d \notin pending'[l]
        BY <1>4, <3>2, <3>5
      <4>2. Places(d)' = {}
        BY <1>1, <1>4, <3>2, <4>1 DEF Places
      <4> QED BY <1>2, <1>3, <3>1, <3>3, <3>5, <4>2 DEF MovesOf, Goes, LossExcused, Excused, ComesRight
    <3> QED BY <3>4, <3>5
  <2> QED BY <2>1, <2>2
<1> QED BY <1>1, <1>2, <1>3, <1>7, <1>8, StepRule

\* What was pending is reported, or given up.
LEMMA DeltasOK == ASSUME IInv, Deltas PROVE StepOK
<1>1. UNCHANGED <<mix, calls, slots, todo, taken, drainer, phase, disturbed>> /\ pending' = Nothing
  BY DEF Deltas, source, calls, drain
<1>2. PICK S :
        /\ reported' = [k \in Keys |-> IF k \in S THEN reported[k] \cup pending[k] ELSE reported[k]]
        /\ dropped' = dropped \cup UNION {pending[k] : k \in Keys \ S}
  BY DEF Deltas
<1>3. CallTypes' /\ mix' \in Mixes /\ \A c \in Calls : OnOf(c) /\ ~Comes(c) /\ (Over(c)' <=> Over(c))
  BY <1>1, CallsAlone
<1>4. /\ pending' \in [Keys -> SUBSET Calls] /\ \A k \in Keys : pending'[k] = {}
      /\ reported' \in [Keys -> SUBSET Calls]
      /\ \A k \in Keys : reported'[k] = IF k \in S THEN reported[k] \cup pending[k] ELSE reported[k]
  BY <1>1, <1>2 DEF Nothing, IInv, Types, FlowTypes
<1>5. dropped' \subseteq Calls
  BY <1>2 DEF IInv, Types, FlowTypes, GhostTypes
<1>6. Types' /\ MapOK' /\ TakenOK' /\ Races'
  <2>1. Types'
    BY <1>1, <1>3, <1>4, <1>5 DEF IInv, Types, FlowTypes, GhostTypes, calls
  <2>2. MapOK' /\ TakenOK'
    BY <1>1 DEF IInv, MapOK, TakenOK
  <2>3. Races'
    BY <1>1 DEF IInv, Races, Found, calls
  <2> QED BY <2>1, <2>2, <2>3
<1>7. ASSUME NEW d \in Calls PROVE MovesOf(d) /\ LossExcused(d) /\ ComesRight(d)
  <2>1. CASE \A k \in Keys : d \notin pending[k]
    <3>1. \A k \in Keys : d \in reported'[k] <=> d \in reported[k]
      BY <1>4, <2>1
    <3>2. Places(d)' = Places(d)
      BY <1>1, <1>4, <2>1, <3>1 DEF Places
    <3> QED BY <1>3, <3>2 DEF MovesOf, Stays, LossExcused, ComesRight
  <2>2. CASE \E k \in Keys : d \in pending[k]
    <3>1. PICK k \in Keys : d \in pending[k]
      BY <2>2
    <3>2. /\ Places(d) = {<<"pending", k, None>>} /\ \A s \in Slots : d \notin slots[s].sum
          /\ \A l \in Keys : (d \in pending[l] => l = k) /\ d \notin taken[l] /\ d \notin reported[l]
      BY <3>1, InPending
    <3>3. \A p \in Places(d) : p[1] # "reported" /\ p[2] = k
      BY <3>2
    <3>4. CASE k \in S
      <4>1. \A l \in Keys : d \in reported'[l] <=> l = k
        BY <1>4, <3>1, <3>2, <3>4
      <4>2. Places(d)' = {<<"reported", k, None>>}
        BY <1>1, <1>4, <3>2, <4>1 DEF Places
      <4>3. Passes(d)
        BY <3>2, <3>3, <4>2 DEF Passes
      <4> QED BY <1>3, <4>2, <4>3 DEF MovesOf, LossExcused, ComesRight
    <3>5. CASE k \notin S
      <4>1. \A l \in Keys : d \notin reported'[l]
        BY <1>4, <3>2, <3>5
      <4>2. Places(d)' = {}
        BY <1>1, <1>4, <3>2, <4>1 DEF Places
      <4> QED BY <1>2, <1>3, <3>1, <3>3, <3>5, <4>2 DEF MovesOf, Goes, LossExcused, Excused, ComesRight
    <3> QED BY <3>4, <3>5
  <2> QED BY <2>1, <2>2
<1> QED BY <1>1, <1>2, <1>3, <1>6, <1>7, StepRule

\* When the source goes, all goes that was not reported.
LEMMA GoneOK == ASSUME IInv, Gone PROVE StepOK
<1>1. /\ UNCHANGED <<mix, call, reported, disturbed>> /\ drainer' = "exited" /\ todo' = {}
      /\ taken' = Nothing /\ pending' = Nothing /\ slots' = [s \in Slots |-> Free]
      /\ pc' = [c \in Calls |-> IF pc[c] = "idle" THEN "idle" ELSE "done"]
      /\ ptr' = [c \in Calls |-> None]
      /\ dropped' = dropped \cup {c \in Calls : pc[c] \in {"miss", "hit"}}
           \cup (UNION {slots[s].sum : s \in Slots}) \cup (UNION {taken[k] \cup pending[k] : k \in Keys})
  BY DEF Gone
<1>2. /\ \A k \in Keys : taken'[k] = {} /\ pending'[k] = {}
      /\ \A s \in Slots : slots'[s].key = None /\ slots'[s].sum = {}
      /\ taken' \in [Keys -> SUBSET Calls] /\ pending' \in [Keys -> SUBSET Calls]
      /\ slots' \in [Slots -> [key : Keys \cup {None}, sum : SUBSET Calls]]
  BY <1>1 DEF Nothing, Free
<1>3. /\ \A c \in Calls : pc'[c] = IF pc[c] = "idle" THEN "idle" ELSE "done"
      /\ CallTypes'
  BY <1>1 DEF IInv, Types, CallTypes
<1>4. /\ dropped' \subseteq Calls /\ dropped \subseteq dropped'
      /\ \A d \in Calls : pc[d] \in {"miss", "hit"} => d \in dropped'
      /\ \A d, s : s \in Slots /\ d \in slots[s].sum => d \in dropped'
      /\ \A d, k : k \in Keys /\ d \in taken[k] \cup pending[k] => d \in dropped'
  <2> DEFINE A == {c \in Calls : pc[c] \in {"miss", "hit"}}
             B == UNION {slots[s].sum : s \in Slots}
             C == UNION {taken[k] \cup pending[k] : k \in Keys}
  <2>1. B \subseteq Calls /\ \A d, s : s \in Slots /\ d \in slots[s].sum => d \in B
    BY DEF IInv, Types, FlowTypes
  <2>2. C \subseteq Calls /\ \A d, k : k \in Keys /\ d \in taken[k] \cup pending[k] => d \in C
    BY DEF IInv, Types, FlowTypes
  <2>3. A \subseteq Calls /\ \A d \in Calls : pc[d] \in {"miss", "hit"} => d \in A
    OBVIOUS
  <2>4. dropped \subseteq Calls
    BY DEF IInv, Types, GhostTypes
  <2>5. dropped' = dropped \cup A \cup B \cup C
    BY <1>1
  <2> HIDE DEF A, B, C
  <2> QED BY <2>1, <2>2, <2>3, <2>4, <2>5
<1>5. Types' /\ MapOK' /\ TakenOK' /\ Races'
  <2>1. Types'
    BY <1>1, <1>2, <1>3, <1>4 DEF IInv, Types, FlowTypes, GhostTypes
  <2>2. MapOK' /\ TakenOK'
    BY <1>1, <1>2 DEF MapOK, TakenOK
  <2>3. Races'
    BY <1>3 DEF Races
  <2> QED BY <2>1, <2>2, <2>3
<1>6. ASSUME NEW d \in Calls PROVE MovesOf(d) /\ OnOf(d) /\ LossExcused(d) /\ ComesRight(d)
  <2>1. OnOf(d)
    BY <1>1, <1>3 DEF OnOf
  <2>2. Over(d)' /\ ~Over(d) => d \in dropped'
    <3>1. pc[d] \in {"idle", "miss", "hit", "capture", "done"}
      BY DEF IInv, Types, CallTypes
    <3> QED BY <1>1, <1>3, <1>4, <3>1 DEF Over
  <2>3. CASE \E k \in Keys : d \in reported[k]
    <3>1. PICK k \in Keys : d \in reported[k]
      BY <2>3
    <3>2. Places(d)' = Places(d)
      BY <1>1, <1>2, <3>1, InReported DEF Places
    <3>3. Places(d) # {}
      <4>1. Places(d) = {<<"reported", k, None>>}
        BY <3>1, InReported
      <4> QED BY <4>1
    <3> QED BY <2>1, <3>2, <3>3 DEF MovesOf, Stays, LossExcused, ComesRight, Comes
  <2>4. CASE \A k \in Keys : d \notin reported[k]
    <3>1. Places(d)' = {}
      BY <1>1, <1>2, <2>4 DEF Places
    <3>2. \A p \in Places(d) : p[1] # "reported"
      BY <2>4 DEF Places
    <3>3. Places(d) # {} => d \in dropped'
      <4>1. Places(d) # {} => \/ \E s \in Slots : d \in slots[s].sum
                              \/ \E k \in Keys : d \in taken[k] \cup pending[k]
        BY <2>4 DEF Places
      <4> QED BY <1>4, <4>1
    <3> QED BY <2>1, <2>2, <3>1, <3>2, <3>3 DEF MovesOf, Goes, LossExcused, Excused, ComesRight
  <2> QED BY <2>3, <2>4
<1> QED BY <1>1, <1>4, <1>5, <1>6, StepRule

-----------------------------------------------------------------------------
(* The other steps, and all of them.                                       *)

\* A turn of drainLoop begins: the keys are of flows, and nothing is taken yet.
LEMMA IterateOK == ASSUME IInv, Iterate PROVE StepOK
<1>1. UNCHANGED <<mix, calls, slots, taken, flows, ghosts, phase>> /\ drainer = "wait" /\ drainer' \in {"take", "last"}
  BY DEF Iterate, source, calls
<1>2. todo' \subseteq Keys
  BY DEF Iterate, IInv, Types, FlowTypes
<1>3. TakenOK'
  <2>1. \A k \in Keys : taken[k] = {}
    BY <1>1 DEF IInv, TakenOK
  <2>2. phase # "off"
    BY DEF Iterate, IInv, TakenOK
  <2> QED BY <1>1, <2>1, <2>2 DEF TakenOK
<1> QED BY <1>1, <1>2, <1>3, AsideStep

\* dnsLoop, the deltas of names and the start and stop of the source.
LEMMA AsideOK ==
  ASSUME IInv, ReadDNS \/ ReadDNSFails \/ DNSDeltas \/ Load \/ Stop
  PROVE  StepOK
<1>1. UNCHANGED <<mix, calls, slots, taken, flows, ghosts, todo>>
  BY DEF ReadDNS, ReadDNSFails, DNSDeltas, Load, Stop, calls, drain
<1>2. TakenOK'
  <2>1. \/ drainer' = drainer /\ (phase' = phase \/ (phase' = "stopping" /\ phase = "running"))
        \/ phase = "off" /\ phase' = "running"
    BY DEF ReadDNS, ReadDNSFails, DNSDeltas, Load, Stop, source, drain
  <2> QED BY <1>1, <2>1 DEF IInv, TakenOK
<1>3. todo' \subseteq Keys
  BY <1>1 DEF IInv, Types, FlowTypes
<1> QED BY <1>1, <1>2, <1>3, AsideStep

\* Every step is in order.
LEMMA NextOK == ASSUME IInv, [Next]_vars PROVE StepOK
<1>1. ASSUME NEW c \in Calls, Runs(c) PROVE StepOK
  <2>1. CASE Enter(c)
    BY <2>1, EnterOK
  <2>2. CASE Add(c)
    BY <2>2, AddOK
  <2>3. CASE Update(c)
    BY <2>3, UpdateOK
  <2>4. CASE UpdateFails(c)
    BY <2>4, UpdateFailsOK
  <2>5. CASE Capture(c)
    BY <2>5, CaptureOK
  <2> QED BY <1>1, <2>1, <2>2, <2>3, <2>4, <2>5 DEF Runs
<1>2. CASE DrainLoop \/ DrainFails
  BY <1>2, IterateOK, TakeOK, MergeOK, DrainFailsOK DEF DrainLoop
<1>3. CASE ReadDNS \/ ReadDNSFails \/ DNSDeltas \/ Load \/ Stop
  BY <1>3, AsideOK
<1>4. CASE Deltas
  BY <1>4, DeltasOK
<1>5. CASE Close \/ Crash
  BY <1>5, GoneOK DEF Close, Crash
<1>6. CASE UNCHANGED vars
  <2>1. UNCHANGED <<mix, calls, slots, taken, flows, ghosts, todo, drainer, phase>>
    BY <1>6 DEF vars, calls, drain, source
  <2>2. TakenOK' /\ todo' \subseteq Keys
    BY <2>1 DEF IInv, TakenOK, Types, FlowTypes
  <2> QED BY <2>1, <2>2, AsideStep
<1> QED BY <1>1, <1>2, <1>3, <1>4, <1>5, <1>6 DEF Next

\* At first no bytes are anywhere.
LEMMA InitOK == ASSUME Init PROVE IInv /\ \A c \in Calls : Places(c) = {} /\ ~Over(c)
<1>1. /\ \A s \in Slots : slots[s].key = None /\ slots[s].sum = {}
      /\ \A k \in Keys : taken[k] = {} /\ pending[k] = {} /\ reported[k] = {}
      /\ \A c \in Calls : pc[c] = "idle"
  BY DEF Init, Free, Nothing
<1>2. \A c \in Calls : Places(c) = {} /\ ~Over(c)
  BY <1>1 DEF Places, Over
<1>3. Types
  <2>1. CallTypes
    BY <1>1 DEF Init, CallTypes
  <2>2. FlowTypes
    BY DEF Init, FlowTypes, Free, Nothing
  <2>3. GhostTypes /\ mix \in Mixes
    BY DEF Init, GhostTypes
  <2> QED BY <2>1, <2>2, <2>3 DEF Types
<1>4. MapOK /\ TakenOK /\ Races
  BY <1>1 DEF Init, MapOK, TakenOK, Races
<1>5. Single /\ CountedOver /\ Exact
  BY <1>2 DEF Single, CountedOver, Exact, ExactAt
<1> QED BY <1>2, <1>3, <1>4, <1>5 DEF IInv

\* The invariant holds in every state.
LEMMA Invariant == Spec => []IInv
<1>1. Init => IInv
  BY InitOK
<1>2. IInv /\ [Next]_vars => IInv'
  BY NextOK DEF StepOK
<1> QED BY <1>1, <1>2, PTL DEF Spec

-----------------------------------------------------------------------------
(* Theorems.                                                               *)

\* A key names the flow that the table of the programs speaks of.
LEMMA KeyIsFlow == ASSUME NEW x PROVE IsFlowOf(KeyOf(x), x)
  BY DEF IsFlowOf, KeyOf, Proto

\* Counting is exact but for races (attr.c:68-110, loader.go:131-172).
THEOREM CountingExact == Spec => []ExactButForRaces
<1>1. IInv => ExactButForRaces
  <2> SUFFICES ASSUME IInv, NEW c \in Calls
               PROVE /\ Over(c) /\ Places(c) = {} /\ c \notin dropped =>
                           \E d \in disturbed : KeyOf(call[d]) = KeyOf(call[c])
                     /\ \A p \in Places(c) : Over(c) /\ (IsFlowOf(p[2], call[c]) \/ c \in disturbed)
    BY DEF ExactButForRaces
  <2>1. ExactAt(c)
    BY DEF IInv, Exact
  <2>2. \A p \in Places(c) : IsFlowOf(p[2], call[c]) \/ c \in disturbed
    BY <2>1, KeyIsFlow DEF ExactAt
  <2> QED BY <2>1, <2>2 DEF IInv, CountedOver, ExactAt
<1> QED BY <1>1, Invariant, PTL

\* The bytes of the calls are items of a ledger, in all that it promises but
\* progress (attrsource.go:20-22).
THEOREM BytesSafety == Spec => Bytes!Safety
<1>1. Init => Bytes!Init
  <2> SUFFICES ASSUME Init PROVE Bytes!Init
    OBVIOUS
  <2>1. \A c \in Calls : Places(c) = {} /\ ~Over(c)
    BY InitOK
  <2>2. \A c \in Calls : StageIn(Places(c), Over(c)) = "new" /\ LabelIn(Places(c)) = None
    BY <2>1 DEF StageIn, LabelIn
  <2> QED BY <2>2 DEF Bytes!Init
<1>2. IInv /\ [Next]_vars => [Bytes!Next]_(Bytes!ledger)
  <2> SUFFICES ASSUME IInv, [Next]_vars PROVE Bytes!Next
    OBVIOUS
  <2> SUFFICES ASSUME NEW c \in Calls
               PROVE  Bytes!Moves(StageOf(c), LabelledAs(c), StageOf(c)', LabelledAs(c)')
    BY DEF Bytes!Next, StageOf, LabelledAs
  <2>1. MovesOf(c) /\ OnOf(c)
    BY NextOK DEF StepOK
  <2> QED BY <2>1, MovesLedger DEF IInv
<1> QED BY <1>1, <1>2, Invariant, PTL DEF Spec, Bytes!Safety

-----------------------------------------------------------------------------
(* Type correctness.                                                       *)

RestTypes ==
  /\ phase \in {"off", "running", "stopping"} /\ reading \in BOOLEAN
  /\ drainer \in {"wait", "take", "last", "exited"} /\ faults \in 0..MaxFaults
  /\ ring \subseteq Calls
  /\ dns \in [Names -> SUBSET Calls] /\ dnsSent \in [Names -> SUBSET Calls]
  /\ answered \in [Names -> SUBSET Calls]
  /\ Cardinality(Present(pending)) <= MaxKeys

\* There are finitely many keys.
LEMMA KeysFinite == IsFiniteSet(Keys)
<1> DEFINE f == [x \in Contexts |-> KeyOf(x)]
<1>1. f \in Surjection(Contexts, Keys)
  BY DEF Surjection, Keys
<1>2. IsFiniteSet(Contexts)
  BY EbpfAssumption DEF EbpfAssumption
<1> HIDE DEF f
<1> QED BY <1>1, <1>2, FS_Surjection

\* A failure counts as one fault.
LEMMA FaultType == ASSUME faults \in 0..MaxFaults, Fault PROVE faults' \in 0..MaxFaults
  BY EbpfAssumption DEF EbpfAssumption, Fault

\* Merge takes no more new keys than there is room for (loader.go:146-152).
LEMMA MergeBound ==
  ASSUME IInv, Merge, Cardinality(Present(pending)) <= MaxKeys
  PROVE  Cardinality(Present(pending')) <= MaxKeys
<1> DEFINE P == Present(pending)
           A == Present(taken) \ P
<1>1. PICK new \in Some(A, Vacant(pending)) :
        pending' = [k \in Keys |-> IF k \in new \cup P THEN pending[k] \cup taken[k] ELSE {}]
  BY DEF Merge
<1>2. P \subseteq Keys /\ A \subseteq Keys
  BY DEF Present, IInv, Types, FlowTypes
<1>3. IsFiniteSet(P) /\ Cardinality(P) \in Nat
  BY <1>2, KeysFinite, FS_Subset, FS_CardinalityType
<1>4. IsFiniteSet(A) /\ Cardinality(A) \in Nat
  BY <1>2, KeysFinite, FS_Subset, FS_CardinalityType
<1>5. new \subseteq A /\ Cardinality(new) \in Nat /\ Cardinality(new) + Cardinality(P) <= MaxKeys
  <2>1. new \in SUBSET A
        /\ Cardinality(new) = IF Cardinality(A) < Vacant(pending) THEN Cardinality(A) ELSE Vacant(pending)
    BY DEF Some
  <2>2. Vacant(pending) = MaxKeys - Cardinality(P) /\ Cardinality(P) <= MaxKeys /\ MaxKeys \in Nat
    BY EbpfAssumption DEF Vacant, EbpfAssumption
  <2> HIDE DEF P, A
  <2> QED BY <1>3, <1>4, <2>1, <2>2
<1>6. IsFiniteSet(new)
  BY <1>4, <1>5, FS_Subset
<1>7. IsFiniteSet(new \cup P) /\ Cardinality(new \cup P) <= MaxKeys
  <2>1. IsFiniteSet(new \cap P) /\ Cardinality(new \cap P) \in Nat
    BY <1>3, FS_Intersection, FS_CardinalityType
  <2>2. Cardinality(new \cup P) = Cardinality(new) + Cardinality(P) - Cardinality(new \cap P)
    BY <1>3, <1>6, FS_Union
  <2>3. IsFiniteSet(new \cup P)
    BY <1>3, <1>6, FS_Union
  <2> HIDE DEF P, A
  <2> QED BY <1>3, <1>5, <2>1, <2>2, <2>3, EbpfAssumption DEF EbpfAssumption
<1>8. Present(pending') \subseteq new \cup P
  BY <1>1 DEF Present
<1>9. /\ Cardinality(Present(pending')) \in Nat /\ Cardinality(new \cup P) \in Nat
      /\ Cardinality(Present(pending')) <= Cardinality(new \cup P)
  BY <1>7, <1>8, FS_Subset, FS_CardinalityType
<1> HIDE DEF P, A
<1> QED BY <1>7, <1>9, EbpfAssumption DEF EbpfAssumption

\* pending is emptied.
LEMMA EmptyBound == Cardinality(Present(Nothing)) <= MaxKeys
<1>1. Present(Nothing) = {}
  BY DEF Present, Nothing
<1> QED BY <1>1, FS_EmptySet, EbpfAssumption DEF EbpfAssumption

\* Every step keeps the types of the rest of the state.
LEMMA RestStep == ASSUME IInv, RestTypes, [Next]_vars PROVE RestTypes'
<1> USE DEF RestTypes
<1>1. CASE \E c \in Calls : Enter(c) \/ Add(c) \/ Update(c)
  BY <1>1 DEF Enter, Add, Update, source, drain, flows, names
<1>2. ASSUME NEW c \in Calls, UpdateFails(c) PROVE RestTypes'
  BY <1>2, FaultType DEF UpdateFails, source, drain, flows, names
<1>3. ASSUME NEW c \in Calls, Capture(c) PROVE RestTypes'
  <2>1. ring' \subseteq Calls /\ faults' \in 0..MaxFaults
    BY <1>3, FaultType DEF Capture
  <2> QED BY <1>3, <2>1 DEF Capture, source, drain, flows
<1>4. CASE Iterate \/ Take
  BY <1>4 DEF Iterate, Take, source, flows, names
<1>5. CASE Merge
  <2>1. Cardinality(Present(pending)') <= MaxKeys
    BY <1>5, MergeBound DEF Present
  <2> QED BY <1>5, <2>1 DEF Merge, source, names, AfterTurn
<1>6. CASE DrainFails
  BY <1>6, FaultType DEF DrainFails, source, flows, names, AfterTurn
<1>7. CASE ReadDNS
  <2>1. PICK c \in ring : /\ ring' = ring \ {c}
                          /\ dns' \in {dns, [dns EXCEPT ![NameOf(call[c])] = @ \cup {c}]}
    BY <1>7 DEF ReadDNS
  <2>2. c \in Calls /\ ring' \subseteq Calls
    BY <2>1
  <2>3. dns' \in [Names -> SUBSET Calls]
    BY <2>1, <2>2
  <2> QED BY <1>7, <2>2, <2>3 DEF ReadDNS, source, drain, flows
<1>8. CASE ReadDNSFails
  BY <1>8, FaultType DEF ReadDNSFails, drain, flows, names
<1>9. CASE Deltas
  <2>1. Cardinality(Present(pending)') <= MaxKeys
    BY <1>9, EmptyBound DEF Deltas, Present
  <2> QED BY <1>9, <2>1 DEF Deltas, source, drain, names
<1>10. CASE DNSDeltas
  <2>1. answered' \in [Names -> SUBSET Calls] /\ dnsSent' \in [Names -> SUBSET Calls]
    BY <1>10 DEF DNSDeltas, Unsent, SentNow
  <2> QED BY <1>10, <2>1 DEF DNSDeltas, source, drain, flows
<1>11. CASE Load \/ Stop
  BY <1>11 DEF Load, Stop, drain, flows, names
<1>12. CASE Close \/ Crash
  <2>1. Gone /\ faults' \in 0..MaxFaults
    BY <1>12, FaultType DEF Close, Crash
  <2>2. Cardinality(Present(pending)') <= MaxKeys
    BY <2>1, EmptyBound DEF Gone, Present
  <2>3. NoNames \in [Names -> SUBSET Calls]
    BY DEF NoNames
  <2> QED BY <2>1, <2>2, <2>3 DEF Gone
<1>13. CASE UNCHANGED vars
  BY <1>13 DEF vars, source, drain, flows, names
<1> QED BY <1>1, <1>2, <1>3, <1>4, <1>5, <1>6, <1>7, <1>8, <1>9, <1>10, <1>11, <1>12, <1>13
        DEF Next, Runs, DrainLoop

\* They hold at first.
LEMMA InitRest == Init => RestTypes
<1> SUFFICES ASSUME Init PROVE RestTypes
  OBVIOUS
<1>1. Cardinality(Present(pending)) <= MaxKeys
  BY EmptyBound DEF Init
<1>2. faults \in 0..MaxFaults
  BY EbpfAssumption DEF Init, EbpfAssumption
<1>3. NoNames \in [Names -> SUBSET Calls]
  BY DEF NoNames
<1> QED BY <1>1, <1>2, <1>3 DEF Init, RestTypes

\* The state has its types, and pending its limit (loader.go:146-152).
THEOREM TypeCorrect == Spec => []TypeOK
<1>1. IInv /\ RestTypes /\ [Next]_vars => RestTypes'
  BY RestStep
<1>2. IInv /\ RestTypes => TypeOK
  <2> SUFFICES ASSUME IInv, RestTypes PROVE TypeOK
    OBVIOUS
  <2>1. \A c \in Calls : /\ pc[c] \in {"idle", "miss", "hit", "capture", "done"}
                         /\ call[c] \in Contexts \cup {None} /\ ptr[c] \in Slots \cup {None}
                         /\ pc[c] # "idle" => call[c] \in Contexts
                         /\ pc[c] = "hit" => ptr[c] \in Slots
    BY DEF IInv, Types, CallTypes
  <2> QED BY <2>1 DEF TypeOK, IInv, Types, FlowTypes, GhostTypes, RestTypes
<1> QED BY <1>1, <1>2, InitRest, Invariant, PTL DEF Spec

-----------------------------------------------------------------------------
(* The answers.                                                            *)

\* No program runs.
Quiet == \A c \in Calls : pc[c] \in {"idle", "done"}

\* An answer is copied when its program ends, waits in the ring, and is not in the
\* table then; what has been sent stays in the table.
AnswersOK ==
  /\ \A c \in Calls : pc[c] = "capture" => Captures(call[c])
  /\ \A c \in ring : AnswerOver(c) /\ \A n \in Names : c \notin dns[n] /\ c \notin answered[n]
  /\ \A n \in Names : /\ dnsSent[n] \subseteq dns[n]
                      /\ \A c \in dns[n] \cup answered[n] : AnswerOver(c)
  /\ phase = "off" => ring = {} /\ Quiet

\* An answer in the table that was not sent is under one name, and was not reported.
AnswerSingle ==
  \A n, m \in Names : \A c \in Calls :
    /\ c \in Unsent(n) => c \notin answered[m] /\ (c \in Unsent(m) => n = m)
    /\ c \in answered[n] /\ c \in answered[m] => n = m

AInv == IInv /\ RestTypes /\ AnswersOK /\ AnswerSingle

\* How an answer may move.
AnswerStays(c) == AnswerPlaces(c)' = AnswerPlaces(c)
AnswerComes(c) == /\ AnswerPlaces(c) = {} /\ ~AnswerOver(c)
                  /\ \E n \in Names : AnswerPlaces(c)' = {<<"ring", n>>}
AnswerPasses(c) == \E n \in Names, v \in {"ring", "table"}, w \in {"table", "reported"} :
                     AnswerPlaces(c) = {<<v, n>>} /\ AnswerPlaces(c)' = {<<w, n>>}
AnswerGoes(c) == \E n \in Names, v \in {"ring", "table"} :
                   AnswerPlaces(c) = {<<v, n>>} /\ AnswerPlaces(c)' = {}
AnswerMoves(c) == /\ AnswerStays(c) \/ AnswerComes(c) \/ AnswerPasses(c) \/ AnswerGoes(c)
                  /\ AnswerOver(c) => AnswerOver(c)'

AnswersStep == AnswersOK' /\ AnswerSingle' /\ \A c \in Calls : AnswerMoves(c)

\* Only what is over is in a place.
LEMMA AnswersOver == ASSUME AInv, NEW c \in Calls, AnswerPlaces(c) # {} PROVE AnswerOver(c)
<1>1. \/ c \in ring
      \/ \E n \in Names : c \in dns[n] \cup answered[n]
  BY DEF AnswerPlaces, Unsent
<1> QED BY <1>1 DEF AInv, AnswersOK

\* The name of a call that was made.
LEMMA NameType == ASSUME AInv, NEW c \in Calls, pc[c] # "idle" PROVE NameOf(call[c]) \in Names
<1>1. call[c] \in Contexts
  BY DEF AInv, IInv, Types, CallTypes
<1> QED BY <1>1 DEF Names

\* Whichever way it moves, the ledger sees a move of its own.
LEMMA AnswerLedger ==
  ASSUME AInv, NEW c \in Calls, AnswerMoves(c)
  PROVE  Answers!Moves(StageIn(AnswerPlaces(c), AnswerOver(c)), LabelIn(AnswerPlaces(c)),
                       StageIn(AnswerPlaces(c), AnswerOver(c))', LabelIn(AnswerPlaces(c))')
<1> DEFINE P == AnswerPlaces(c)
           s == StageIn(P, AnswerOver(c))
           l == LabelIn(P)
<1> SUFFICES Answers!Moves(s, l, s', l')
  OBVIOUS
<1>1. P # {} => AnswerOver(c) /\ AnswerOver(c)'
  BY AnswersOver DEF AnswerMoves
<1>2. ASSUME NEW n, NEW v, P = {<<v, n>>}
      PROVE  s = (IF v = "reported" THEN "reported" ELSE "held") /\ l = n
  <2> DEFINE p == <<v, n>>
  <2>1. p[1] = v /\ p[2] = n /\ P = {p}
    BY <1>2
  <2> HIDE DEF p, P
  <2> QED BY <2>1, StageOfOne, LabelOf
<1>3. ASSUME NEW n, NEW w, P' = {<<w, n>>}
      PROVE  s' = (IF w = "reported" THEN "reported" ELSE "held") /\ l' = n
  <2> DEFINE p == <<w, n>>
  <2>1. p[1] = w /\ p[2] = n /\ P' = {p}
    BY <1>3
  <2>2. s' = StageIn(P', AnswerOver(c)') /\ l' = LabelIn(P')
    OBVIOUS
  <2> HIDE DEF p, P
  <2> QED BY <2>1, <2>2, StageOfOne, LabelOf
<1>4. P = {} => s = (IF AnswerOver(c) THEN "lost" ELSE "new") /\ l = None
  BY DEF StageIn, LabelIn
<1>5. P' = {} => s' = (IF AnswerOver(c)' THEN "lost" ELSE "new") /\ l' = None
  BY DEF StageIn, LabelIn
<1>6. AnswerStays(c) /\ P # {} => s' = s /\ l' = l
  BY DEF AnswerStays, StageIn, LabelIn
<1> USE DEF Answers!Moves, Answers!Counted, Answers!Reported, Answers!Lost, Answers!Kept
<1> HIDE DEF s, l
<1>7. CASE AnswerStays(c)
  BY <1>4, <1>5, <1>6, <1>7 DEF AnswerStays, AnswerMoves
<1>8. CASE AnswerComes(c)
  BY <1>3, <1>4, <1>8 DEF AnswerComes
<1>9. CASE AnswerPasses(c)
  <2>1. PICK n \in Names, v \in {"ring", "table"}, w \in {"table", "reported"} :
          P = {<<v, n>>} /\ P' = {<<w, n>>}
    BY <1>9 DEF AnswerPasses
  <2> HIDE DEF P
  <2> QED BY <2>1, <1>2, <1>3
<1>10. CASE AnswerGoes(c)
  <2>1. PICK n \in Names, v \in {"ring", "table"} : P = {<<v, n>>} /\ P' = {}
    BY <1>10 DEF AnswerGoes
  <2>2. AnswerOver(c)'
    BY <1>1, <2>1
  <2> HIDE DEF P
  <2> QED BY <2>1, <2>2, <1>2, <1>5
<1> QED BY <1>7, <1>8, <1>9, <1>10 DEF AnswerMoves

\* Calls that have ended stay as they are.
Ended == \A c \in Calls : pc[c] = "done" => pc'[c] = "done" /\ call'[c] = call[c]
OnlyCopies == \A c \in Calls : pc'[c] = "capture" => Captures(call'[c])

LEMMA StillOver == ASSUME Ended, NEW c \in Calls, AnswerOver(c) PROVE AnswerOver(c)'
  BY DEF Ended, AnswerOver

\* A step that leaves the answers alone.
LEMMA AnswersAlone ==
  ASSUME AInv, Ended, OnlyCopies, UNCHANGED names, reading' = reading \/ ring = {},
         phase' = "off" => ring = {} /\ Quiet'
  PROVE  AnswersStep
<1>1. UNCHANGED <<ring, dns, dnsSent, answered>>
  BY DEF names
<1>2. ASSUME NEW c \in Calls PROVE AnswerMoves(c)
  <2>1. \A n \in Names : Unsent(n)' = Unsent(n)
    BY <1>1 DEF Unsent
  <2>2. c \in ring => NameOf(call'[c]) = NameOf(call[c])
    BY DEF AInv, AnswersOK, AnswerOver, Ended
  <2>3. AnswerPlaces(c)' = AnswerPlaces(c)
    BY <1>1, <2>1, <2>2 DEF AnswerPlaces
  <2> QED BY <2>3, StillOver DEF AnswerMoves, AnswerStays
<1>3. AnswersOK'
  BY <1>1, StillOver DEF AInv, RestTypes, AnswersOK, OnlyCopies
<1>4. AnswerSingle'
  BY <1>1 DEF AInv, AnswerSingle, Unsent
<1> QED BY <1>2, <1>3, <1>4 DEF AnswersStep

\* The programs up to the copy: they go on to copy only what is to be copied.
LEMMA ProgramsAnswers ==
  ASSUME AInv, NEW c \in Calls, Enter(c) \/ Add(c) \/ Update(c) \/ UpdateFails(c)
  PROVE  AnswersStep
<1>1. UNCHANGED <<source, names>>
  BY DEF Enter, Add, Update, UpdateFails
<1>2. pc \in [Calls -> {"idle", "miss", "hit", "capture", "done"}] /\ call \in [Calls -> Contexts \cup {None}]
  BY DEF AInv, IInv, Types, CallTypes
<1>3. pc[c] \in {"idle", "miss", "hit"} /\ \A d \in Calls \ {c} : pc'[d] = pc[d] /\ call'[d] = call[d]
  BY <1>2 DEF Enter, Add, Update, UpdateFails
<1>4. pc'[c] = "capture" => Captures(call'[c])
  BY <1>2 DEF Enter, Add, Update, UpdateFails, AfterAccount
<1>5. Ended /\ OnlyCopies
  BY <1>3, <1>4 DEF Ended, OnlyCopies, AInv, AnswersOK
<1>6. phase # "off"
  BY DEF Enter, Add, Update, UpdateFails, AInv, AnswersOK, Quiet
<1> QED BY <1>1, <1>5, <1>6, AnswersAlone DEF source

\* The drain, the flows' deltas, and the start of a stop have nothing to do with answers;
\* when the source is loaded its ring is empty.
LEMMA FlowsAnswers ==
  ASSUME AInv, DrainLoop \/ DrainFails \/ Deltas \/ Load \/ Stop \/ UNCHANGED vars
  PROVE  AnswersStep
<1>1. UNCHANGED <<calls, names>>
  BY DEF DrainLoop, Iterate, Take, Merge, DrainFails, Deltas, Load, Stop, vars
<1>2. Ended /\ OnlyCopies
  BY <1>1 DEF calls, Ended, OnlyCopies, AInv, AnswersOK
<1>3. /\ reading' = reading \/ phase = "off"
      /\ phase' = "off" => phase = "off"
  BY DEF DrainLoop, Iterate, Take, Merge, DrainFails, Deltas, Load, Stop, vars, source
<1>4. phase' = "off" => ring = {} /\ Quiet'
  BY <1>1, <1>3 DEF AInv, AnswersOK, Quiet, calls
<1>5. reading' = reading \/ ring = {}
  BY <1>3 DEF AInv, AnswersOK
<1> QED BY <1>1, <1>2, <1>4, <1>5, AnswersAlone

\* An answer is copied to the ring, if there is room and a reader; else it is lost.
LEMMA CaptureAnswers == ASSUME AInv, NEW c \in Calls, Capture(c) PROVE AnswersStep
<1>1. /\ UNCHANGED <<call, reading, phase, dns, dnsSent, answered>>
      /\ pc[c] = "capture" /\ ring' \in {ring, ring \cup {c}}
      /\ pc' = [pc EXCEPT ![c] = "done"]
  BY DEF Capture, source
<1>2. pc'[c] = "done" /\ \A d \in Calls \ {c} : pc'[d] = pc[d]
  BY <1>1 DEF AInv, IInv, Types, CallTypes
<1>3. Ended /\ OnlyCopies /\ AnswerOver(c)' /\ ~AnswerOver(c)
  BY <1>1, <1>2 DEF Ended, OnlyCopies, AnswerOver, AInv, AnswersOK
<1>4. c \notin ring /\ \A n \in Names : c \notin dns[n] /\ c \notin answered[n]
  BY <1>3 DEF AInv, AnswersOK
<1>5. \A n \in Names : Unsent(n)' = Unsent(n)
  BY <1>1 DEF Unsent
<1>6. AnswerMoves(c)
  <2>1. AnswerPlaces(c) = {}
    BY <1>3, AnswersOver
  <2>2. CASE ring' = ring \/ ~reading
    <3>1. AnswerPlaces(c)' = AnswerPlaces(c)
      BY <1>1, <1>4, <1>5, <2>2 DEF AnswerPlaces
    <3> QED BY <3>1, <1>3 DEF AnswerMoves, AnswerStays
  <2>3. CASE ring' = ring \cup {c} /\ reading
    <3>1. NameOf(call[c]) \in Names
      BY <1>1, NameType
    <3>2. AnswerPlaces(c)' = {<<"ring", NameOf(call[c])>>}
      <4>1. \A n \in Names : c \notin Unsent(n)' /\ c \notin answered'[n]
        BY <1>1, <1>4 DEF Unsent
      <4> QED BY <1>1, <2>3, <4>1 DEF AnswerPlaces
    <3> QED BY <3>1, <3>2, <2>1, <1>3 DEF AnswerMoves, AnswerComes
  <2> QED BY <1>1, <2>2, <2>3
<1>7. ASSUME NEW d \in Calls, d # c PROVE AnswerMoves(d)
  <2>1. AnswerPlaces(d)' = AnswerPlaces(d)
    BY <1>1, <1>5, <1>7 DEF AnswerPlaces
  <2> QED BY <2>1, <1>3, StillOver DEF AnswerMoves, AnswerStays
<1>8. AnswersOK'
  <2>1. \A d \in ring' : AnswerOver(d)' /\ \A n \in Names : d \notin dns[n] /\ d \notin answered[n]
    BY <1>1, <1>3, <1>4, StillOver DEF AInv, RestTypes, AnswersOK
  <2>2. \A n \in Names : \A d \in dns[n] \cup answered[n] : AnswerOver(d)'
    BY <1>3, StillOver DEF AInv, RestTypes, AnswersOK
  <2>3. phase' # "off"
    BY <1>1 DEF AInv, AnswersOK, Quiet
  <2> QED BY <1>1, <1>3, <2>1, <2>2, <2>3 DEF AInv, AnswersOK, OnlyCopies
<1>9. AnswerSingle'
  BY <1>1, <1>5 DEF AInv, AnswerSingle
<1> QED BY <1>6, <1>7, <1>8, <1>9 DEF AnswersStep

\* An answer that is read goes to the table, or is lost.
LEMMA ReadAnswers == ASSUME AInv, ReadDNS PROVE AnswersStep
<1>1. UNCHANGED <<calls, reading, phase, dnsSent, answered>> /\ reading
  BY DEF ReadDNS, source
<1>2. PICK c \in ring : /\ ring' = ring \ {c}
                        /\ dns' \in {dns, [dns EXCEPT ![NameOf(call[c])] = @ \cup {c}]}
  BY DEF ReadDNS
<1> DEFINE m == NameOf(call[c])
<1>3. c \in Calls /\ AnswerOver(c) /\ \A n \in Names : c \notin dns[n] /\ c \notin answered[n]
  BY DEF AInv, RestTypes, AnswersOK
<1>4. m \in Names
  BY <1>3, NameType DEF AnswerOver
<1>5. \A n \in Names : c \notin dnsSent[n] /\ c \notin Unsent(n)
  BY <1>3 DEF AInv, AnswersOK, Unsent
<1>6. Ended /\ OnlyCopies
  BY <1>1 DEF calls, Ended, OnlyCopies, AInv, AnswersOK
<1>7. \/ \A n \in Names : dns'[n] = dns[n]
      \/ \A n \in Names : dns'[n] = IF n = m THEN dns[n] \cup {c} ELSE dns[n]
  BY <1>2 DEF AInv, RestTypes
<1>8. \/ \A n \in Names : Unsent(n)' = Unsent(n)
      \/ \A n \in Names : Unsent(n)' = IF n = m THEN Unsent(n) \cup {c} ELSE Unsent(n)
  BY <1>1, <1>5, <1>7 DEF Unsent
<1>9. call' = call
  BY <1>1 DEF calls
<1> HIDE DEF m
<1>10. AnswerMoves(c)
  <2>1. AnswerPlaces(c) = {<<"ring", m>>}
    BY <1>1, <1>3, <1>5 DEF AnswerPlaces, m
  <2>2. CASE \A n \in Names : Unsent(n)' = Unsent(n)
    <3>1. AnswerPlaces(c)' = {}
      BY <1>1, <1>2, <1>3, <1>5, <2>2 DEF AnswerPlaces
    <3> QED BY <2>1, <3>1, <1>3, <1>4, <1>6, StillOver DEF AnswerMoves, AnswerGoes
  <2>3. CASE \A n \in Names : Unsent(n)' = IF n = m THEN Unsent(n) \cup {c} ELSE Unsent(n)
    <3>1. AnswerPlaces(c)' = {<<"table", m>>}
      BY <1>1, <1>2, <1>3, <1>4, <1>5, <2>3 DEF AnswerPlaces
    <3> QED BY <2>1, <3>1, <1>3, <1>4, <1>6, StillOver DEF AnswerMoves, AnswerPasses
  <2> QED BY <1>8, <2>2, <2>3
<1>11. ASSUME NEW d \in Calls, d # c PROVE AnswerMoves(d)
  <2>1. \A n \in Names : d \in Unsent(n)' <=> d \in Unsent(n)
    BY <1>8, <1>11
  <2>2. AnswerPlaces(d)' = AnswerPlaces(d)
    BY <1>1, <1>2, <1>9, <1>11, <2>1 DEF AnswerPlaces
  <2> QED BY <2>2, <1>6, StillOver DEF AnswerMoves, AnswerStays
<1>12. AnswersOK'
  <2>1. \A d \in Calls : AnswerOver(d) => AnswerOver(d)'
    BY <1>6, StillOver
  <2>2. \A d \in ring' : AnswerOver(d)' /\ \A n \in Names : d \notin dns'[n] /\ d \notin answered'[n]
    BY <1>1, <1>2, <1>7, <2>1 DEF AInv, RestTypes, AnswersOK
  <2>3. ASSUME NEW n \in Names
        PROVE  dnsSent'[n] \subseteq dns'[n] /\ \A d \in dns'[n] \cup answered'[n] : AnswerOver(d)'
    <3>1. dns[n] \subseteq dns'[n] /\ dns'[n] \subseteq dns[n] \cup {c}
      BY <1>7
    <3>2. /\ dnsSent[n] \subseteq dns[n]
          /\ \A d \in dns[n] \cup answered[n] : d \in Calls /\ AnswerOver(d)
      BY DEF AInv, RestTypes, AnswersOK
    <3>3. dnsSent'[n] = dnsSent[n] /\ answered'[n] = answered[n]
      BY <1>1
    <3> QED BY <1>3, <2>1, <3>1, <3>2, <3>3
  <2>4. phase' = "off" => ring' = {} /\ Quiet'
    BY <1>1, <1>2 DEF AInv, AnswersOK, Quiet, calls
  <2> QED BY <1>6, <2>2, <2>3, <2>4 DEF AnswersOK, OnlyCopies
<1>13. AnswerSingle'
  BY <1>1, <1>3, <1>5, <1>8 DEF AInv, AnswerSingle
<1> QED BY <1>10, <1>11, <1>12, <1>13 DEF AnswersStep

\* When reading ends, what is in the ring is lost.
LEMMA ReaderAnswers == ASSUME AInv, ReadDNSFails PROVE AnswersStep
<1>1. UNCHANGED <<calls, names, phase>> /\ reading /\ ~reading'
  BY DEF ReadDNSFails
<1>2. Ended /\ OnlyCopies /\ UNCHANGED <<ring, dns, dnsSent, answered>>
  BY <1>1 DEF calls, names, Ended, OnlyCopies, AInv, AnswersOK
<1>3. \A n \in Names : Unsent(n)' = Unsent(n)
  BY <1>2 DEF Unsent
<1>4. ASSUME NEW c \in Calls PROVE AnswerMoves(c)
  <2>1. CASE c \in ring
    <3>1. \A n \in Names : c \notin Unsent(n) /\ c \notin answered[n]
      BY <2>1 DEF AInv, AnswersOK, Unsent
    <3>2. AnswerPlaces(c) = {<<"ring", NameOf(call[c])>>} /\ AnswerPlaces(c)' = {}
      BY <1>1, <1>2, <1>3, <2>1, <3>1 DEF AnswerPlaces
    <3>3. NameOf(call[c]) \in Names
      BY <2>1, NameType DEF AInv, AnswersOK, AnswerOver
    <3> QED BY <1>2, <3>2, <3>3, StillOver DEF AnswerMoves, AnswerGoes
  <2>2. CASE c \notin ring
    <3>1. AnswerPlaces(c)' = AnswerPlaces(c)
      BY <1>2, <1>3, <2>2 DEF AnswerPlaces
    <3> QED BY <1>2, <3>1, StillOver DEF AnswerMoves, AnswerStays
  <2> QED BY <2>1, <2>2
<1>5. AnswersOK'
  BY <1>1, <1>2, StillOver DEF AInv, RestTypes, AnswersOK, OnlyCopies, Quiet, calls
<1>6. AnswerSingle'
  BY <1>2, <1>3 DEF AInv, AnswerSingle
<1> QED BY <1>4, <1>5, <1>6 DEF AnswersStep

\* What was not sent is reported, or cut off; all of it counts as sent.
LEMMA ReportAnswers == ASSUME AInv, DNSDeltas PROVE AnswersStep
<1>1. UNCHANGED <<calls, ring, dns, reading, phase>> /\ dnsSent' = dns
  BY DEF DNSDeltas, source, SentNow
<1>2. PICK S : answered' = [n \in Names |-> IF n \in S THEN answered[n] \cup Unsent(n) ELSE answered[n]]
  BY DEF DNSDeltas
<1>3. Ended /\ OnlyCopies /\ call' = call
  BY <1>1 DEF calls, Ended, OnlyCopies, AInv, AnswersOK
<1>4. \A n \in Names : Unsent(n)' = {} /\ answered'[n] = IF n \in S THEN answered[n] \cup Unsent(n) ELSE answered[n]
  BY <1>1, <1>2 DEF Unsent
<1>5. ASSUME NEW c \in Calls, \A n \in Names : c \notin Unsent(n) PROVE AnswerMoves(c)
  <2>1. \A n \in Names : c \in answered'[n] <=> c \in answered[n]
    BY <1>4, <1>5
  <2>2. AnswerPlaces(c)' = AnswerPlaces(c)
    BY <1>1, <1>3, <1>4, <1>5, <2>1 DEF AnswerPlaces
  <2> QED BY <1>3, <2>2, StillOver DEF AnswerMoves, AnswerStays
<1>6. ASSUME NEW c \in Calls, NEW n \in Names, c \in Unsent(n) PROVE AnswerMoves(c)
  <2>1. c \notin ring /\ \A k \in Names : c \notin answered[k] /\ (c \in Unsent(k) <=> k = n)
    BY <1>6 DEF AInv, AnswersOK, AnswerSingle, Unsent
  <2>2. AnswerPlaces(c) = {<<"table", n>>}
    BY <2>1 DEF AnswerPlaces
  <2>3. \A k \in Names : c \in answered'[k] <=> k = n /\ n \in S
    BY <1>4, <2>1
  <2>4. AnswerPlaces(c)' = IF n \in S THEN {<<"reported", n>>} ELSE {}
    BY <1>1, <1>4, <2>1, <2>3 DEF AnswerPlaces
  <2> QED BY <1>3, <2>2, <2>4, StillOver DEF AnswerMoves, AnswerPasses, AnswerGoes
<1>7. AnswersOK'
  <2>1. \A d \in Calls : AnswerOver(d) => AnswerOver(d)'
    BY <1>3, StillOver
  <2>2. \A n \in Names : answered'[n] \subseteq answered[n] \cup dns[n]
    BY <1>4 DEF Unsent
  <2>3. \A d \in ring' : AnswerOver(d)' /\ \A n \in Names : d \notin dns'[n] /\ d \notin answered'[n]
    BY <1>1, <2>1, <2>2 DEF AInv, RestTypes, AnswersOK
  <2>4. \A n \in Names : dnsSent'[n] \subseteq dns'[n] /\ \A d \in dns'[n] \cup answered'[n] : AnswerOver(d)'
    BY <1>1, <2>1, <2>2 DEF AInv, RestTypes, AnswersOK
  <2> QED BY <1>1, <1>3, <2>3, <2>4 DEF AInv, AnswersOK, OnlyCopies, Quiet, calls
<1>8. AnswerSingle'
  BY <1>4 DEF AInv, AnswerSingle
<1> QED BY <1>5, <1>6, <1>7, <1>8 DEF AnswersStep

\* When the source goes, all answers go that were not reported.
LEMMA GoneAnswers == ASSUME AInv, Gone PROVE AnswersStep
<1>1. /\ ring' = {} /\ \A n \in Names : dns'[n] = {} /\ dnsSent'[n] = {} /\ answered'[n] = answered[n]
      /\ call' = call /\ \A c \in Calls : pc'[c] = IF pc[c] = "idle" THEN "idle" ELSE "done"
  BY DEF Gone, NoNames
<1>2. Ended /\ OnlyCopies /\ Quiet'
  BY <1>1 DEF Ended, OnlyCopies, Quiet
<1>3. \A n \in Names : Unsent(n)' = {}
  BY <1>1 DEF Unsent
<1>4. ASSUME NEW c \in Calls PROVE AnswerMoves(c)
  <2>1. AnswerOver(c) => AnswerOver(c)'
    BY <1>2, StillOver
  <2>2. CASE \E n \in Names : c \in answered[n]
    <3>1. c \notin ring /\ \A n \in Names : c \notin Unsent(n)
      BY <2>2 DEF AInv, AnswersOK, AnswerSingle
    <3>2. AnswerPlaces(c)' = AnswerPlaces(c)
      BY <1>1, <1>3, <3>1 DEF AnswerPlaces
    <3> QED BY <2>1, <3>2 DEF AnswerMoves, AnswerStays
  <2>3. CASE \A n \in Names : c \notin answered[n]
    <3>1. AnswerPlaces(c)' = {}
      BY <1>1, <1>3, <2>3 DEF AnswerPlaces
    <3>2. CASE c \in ring /\ reading
      <4>1. \A n \in Names : c \notin Unsent(n)
        BY <3>2 DEF AInv, AnswersOK, Unsent
      <4>2. AnswerPlaces(c) = {<<"ring", NameOf(call[c])>>}
        BY <2>3, <3>2, <4>1 DEF AnswerPlaces
      <4>3. NameOf(call[c]) \in Names
        BY <3>2, NameType DEF AInv, AnswersOK, AnswerOver
      <4> QED BY <2>1, <3>1, <4>2, <4>3 DEF AnswerMoves, AnswerGoes
    <3>3. ASSUME NEW n \in Names, c \in Unsent(n) PROVE AnswerMoves(c)
      <4>1. c \notin ring /\ \A k \in Names : c \in Unsent(k) <=> k = n
        BY <3>3 DEF AInv, AnswersOK, AnswerSingle, Unsent
      <4>2. AnswerPlaces(c) = {<<"table", n>>}
        BY <2>3, <4>1 DEF AnswerPlaces
      <4> QED BY <2>1, <3>1, <4>2 DEF AnswerMoves, AnswerGoes
    <3>4. CASE ~(c \in ring /\ reading) /\ \A n \in Names : c \notin Unsent(n)
      <4>1. AnswerPlaces(c) = {}
        BY <2>3, <3>4 DEF AnswerPlaces
      <4> QED BY <2>1, <3>1, <4>1 DEF AnswerMoves, AnswerStays
    <3> QED BY <3>2, <3>3, <3>4
  <2> QED BY <2>2, <2>3
<1>5. AnswersOK'
  BY <1>1, <1>2, StillOver DEF AInv, RestTypes, AnswersOK, OnlyCopies
<1>6. AnswerSingle'
  BY <1>1, <1>3 DEF AInv, AnswerSingle
<1> QED BY <1>4, <1>5, <1>6 DEF AnswersStep

\* Every step moves the answers as the ledger says.
LEMMA NextAnswers == ASSUME AInv, [Next]_vars PROVE AnswersStep
<1>1. ASSUME NEW c \in Calls, Runs(c) PROVE AnswersStep
  BY <1>1, ProgramsAnswers, CaptureAnswers DEF Runs
<1>2. CASE DrainLoop \/ DrainFails \/ Deltas \/ Load \/ Stop \/ UNCHANGED vars
  BY <1>2, FlowsAnswers
<1>3. CASE ReadDNS \/ ReadDNSFails \/ DNSDeltas
  BY <1>3, ReadAnswers, ReaderAnswers, ReportAnswers
<1>4. CASE Close \/ Crash
  BY <1>4, GoneAnswers DEF Close, Crash
<1> QED BY <1>1, <1>2, <1>3, <1>4 DEF Next

\* At first there are no answers.
LEMMA InitAnswers == ASSUME Init PROVE AInv /\ \A c \in Calls : AnswerPlaces(c) = {} /\ ~AnswerOver(c)
<1>1. /\ ring = {} /\ \A n \in Names : dns[n] = {} /\ dnsSent[n] = {} /\ answered[n] = {}
      /\ \A c \in Calls : pc[c] = "idle"
  BY DEF Init, NoNames
<1>2. \A n \in Names : Unsent(n) = {}
  BY <1>1 DEF Unsent
<1>3. AnswersOK /\ AnswerSingle
  BY <1>1, <1>2 DEF AnswersOK, AnswerSingle, Quiet
<1>4. IInv /\ RestTypes
  BY InitOK, InitRest
<1> QED BY <1>1, <1>2, <1>3, <1>4 DEF AInv, AnswerPlaces, AnswerOver

\* The DNS answers that calls bring are items of a ledger, in all that it promises
\* but progress (attrsource.go:28-29).
THEOREM AnswersSafety == Spec => Answers!Safety
<1>1. Init => AInv /\ Answers!Init
  <2> SUFFICES ASSUME Init PROVE AInv /\ Answers!Init
    OBVIOUS
  <2>1. \A c \in Calls : StageIn(AnswerPlaces(c), AnswerOver(c)) = "new" /\ LabelIn(AnswerPlaces(c)) = None
    BY InitAnswers DEF StageIn, LabelIn
  <2> QED BY <2>1, InitAnswers DEF Answers!Init
<1>2. AInv /\ [Next]_vars => AInv'
  <2> SUFFICES ASSUME AInv, [Next]_vars PROVE AInv'
    OBVIOUS
  <2>1. IInv' /\ RestTypes'
    BY NextOK, RestStep DEF AInv, StepOK
  <2> QED BY <2>1, NextAnswers DEF AInv, AnswersStep
<1>3. AInv /\ [Next]_vars => [Answers!Next]_(Answers!ledger)
  <2> SUFFICES ASSUME AInv, [Next]_vars, NEW c \in Calls
               PROVE  Answers!Moves(StageIn(AnswerPlaces(c), AnswerOver(c)), LabelIn(AnswerPlaces(c)),
                                    StageIn(AnswerPlaces(c), AnswerOver(c))', LabelIn(AnswerPlaces(c))')
    BY DEF Answers!Next
  <2> QED BY NextAnswers, AnswerLedger DEF AnswersStep
<1> QED BY <1>1, <1>2, <1>3, PTL DEF Spec, Answers!Safety

=============================================================================
