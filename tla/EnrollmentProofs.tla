--------------------------- MODULE EnrollmentProofs ---------------------------
(***************************************************************************)
(* Proofs about the registration of agents, on both sides: the registry of *)
(* the hub (Enrollment), for any number of handlers, tokens, machines and  *)
(* any max_uses, and the identity of one agent with the rows it leaves in  *)
(* a registry (AgentIdentity), for any number of hubs and faults and any   *)
(* threshold.                                                              *)
(***************************************************************************)
EXTENDS Enrollment, AgentIdentity, FiniteSetTheorems, TLAPS

Paid == {"select", "update", "insert"}

\* The use of a token is an integer below its limit.
UsesBounded == \A t \in Tokens : MaxUses[t] > 0 => used[t] <= MaxUses[t]

\* A request that is about to consume names a token of the table, one that is
\* about to update names an id of the table.
WellFormed == \A r \in Requests :
  /\ reqs[r].pc = "consume" => reqs[r].tok \in Tokens
  /\ reqs[r].pc = "update" => reqs[r].id \in Ids

\* The inductive invariant behind AtMostMaxUses: what is registered was paid for
\* (SlotAccounting), and what is paid never exceeds the limit (UsesBounded).
IInv == TypeOK /\ WellFormed /\ UsesBounded /\ SlotAccounting

USE EnrollmentAssumption

\* Holding(t) is a finite set of requests.
LEMMA HoldingFinite ==
  ASSUME NEW t \in Tokens
  PROVE  IsFiniteSet(Holding(t)) /\ Cardinality(Holding(t)) \in Nat
<1>1. Holding(t) \subseteq Requests
  BY DEF Holding
<1>2. IsFiniteSet(Holding(t))
  BY <1>1, FS_Subset
<1> QED BY <1>2, FS_CardinalityType

\* A step of one request changes Holding(t) at that request only.
LEMMA HoldingStep ==
  ASSUME NEW t \in Tokens, NEW r \in Requests, NEW x, TypeOK,
         reqs' = [reqs EXCEPT ![r] = x]
  PROVE  Holding(t)' = IF x.tok = t /\ x.pc \in Paid
                         THEN Holding(t) \cup {r} ELSE Holding(t) \ {r}
<1>1. \A q \in Requests : reqs'[q] = IF q = r THEN x ELSE reqs[q]
  BY DEF TypeOK
<1>2. Holding(t)' = {q \in Requests : reqs'[q].tok = t /\ reqs'[q].pc \in Paid}
  BY DEF Holding, Paid
<1>3. Holding(t) = {q \in Requests : reqs[q].tok = t /\ reqs[q].pc \in Paid}
  BY DEF Holding, Paid
<1> QED BY <1>1, <1>2, <1>3

\* The same for its cardinality.
LEMMA HoldingCard ==
  ASSUME NEW t \in Tokens, NEW r \in Requests, NEW x, TypeOK,
         reqs' = [reqs EXCEPT ![r] = x]
  PROVE  LET before == reqs[r].tok = t /\ reqs[r].pc \in Paid
             after  == x.tok = t /\ x.pc \in Paid
             c == Cardinality(Holding(t))
         IN  /\ Cardinality(Holding(t)') \in Nat
             /\ before /\ after => Cardinality(Holding(t)') = c
             /\ ~before /\ ~after => Cardinality(Holding(t)') = c
             /\ ~before /\ after => Cardinality(Holding(t)') = c + 1
             /\ before /\ ~after => Cardinality(Holding(t)') = c - 1
<1>1. r \in Holding(t) <=> reqs[r].tok = t /\ reqs[r].pc \in Paid
  BY DEF Holding, Paid
<1>2. IsFiniteSet(Holding(t)) /\ Cardinality(Holding(t)) \in Nat
  BY HoldingFinite
<1>3. Cardinality(Holding(t) \cup {r}) =
        IF r \in Holding(t) THEN Cardinality(Holding(t)) ELSE Cardinality(Holding(t)) + 1
  BY <1>2, FS_AddElement
<1>4. Cardinality(Holding(t) \ {r}) =
        IF r \in Holding(t) THEN Cardinality(Holding(t)) - 1 ELSE Cardinality(Holding(t))
  BY <1>2, FS_RemoveElement
<1>5. r \in Holding(t) => Cardinality(Holding(t)) - 1 \in Nat
  <2>1. IsFiniteSet(Holding(t) \ {r})
    BY <1>2, FS_RemoveElement
  <2> QED BY <2>1, <1>4, FS_CardinalityType
<1>6. Holding(t)' = IF x.tok = t /\ x.pc \in Paid THEN Holding(t) \cup {r} ELSE Holding(t) \ {r}
  BY HoldingStep
<1>7. CASE x.tok = t /\ x.pc \in Paid
  <2>1. Cardinality(Holding(t)') = Cardinality(Holding(t) \cup {r})
    BY <1>6, <1>7
  <2> QED BY <1>1, <1>2, <1>3, <1>7, <2>1
<1>8. CASE ~(x.tok = t /\ x.pc \in Paid)
  <2>1. Cardinality(Holding(t)') = Cardinality(Holding(t) \ {r})
    BY <1>6, <1>8
  <2> QED BY <1>1, <1>2, <1>4, <1>5, <1>8, <2>1
<1> QED BY <1>7, <1>8

-----------------------------------------------------------------------------

\* The initial state satisfies the invariant.
LEMMA InitIInv == Init => IInv
<1> SUFFICES ASSUME Init PROVE IInv
  OBVIOUS
<1>1. Idle \in Request
  BY DEF Idle, Request, Pcs
<1>2. TypeOK
  BY <1>1 DEF Init, TypeOK, Ids
<1>3. WellFormed
  BY DEF Init, WellFormed, Idle
<1>4. UsesBounded
  BY DEF Init, UsesBounded
<1>5. SlotAccounting
  <2> SUFFICES ASSUME NEW t \in Tokens
               PROVE  enrolledBy[t] + Cardinality(Holding(t)) <= used[t]
    BY DEF SlotAccounting
  <2>1. Holding(t) = {}
    BY DEF Init, Holding, Idle
  <2> QED BY <2>1, FS_EmptySet DEF Init
<1> QED BY <1>2, <1>3, <1>4, <1>5 DEF IInv

\* A request whose fields are replaced by values of their types stays a request.
LEMMA RequestStep ==
  ASSUME TypeOK, WellFormed, NEW r \in Requests, NEW x \in Request,
         x.pc = "consume" => x.tok \in Tokens,
         x.pc = "update" => x.id \in Ids,
         reqs' = [reqs EXCEPT ![r] = x]
  PROVE  reqs' \in [Requests -> Request] /\ WellFormed'
<1>1. \A q \in Requests : reqs'[q] = IF q = r THEN x ELSE reqs[q]
  BY DEF TypeOK
<1>2. reqs' \in [Requests -> Request]
  BY DEF TypeOK
<1>3. WellFormed'
  BY <1>1 DEF WellFormed, Ids
<1> QED BY <1>2, <1>3

\* The two ways a handler moves on: to another statement, or back to idle.
LEMMA GotoDone ==
  ASSUME TypeOK, WellFormed, NEW r \in Requests
  PROVE  /\ Done(r) => reqs' \in [Requests -> Request] /\ WellFormed'
         /\ \A at \in {"select", "insert"} :
              Goto(r, at) => reqs' \in [Requests -> Request] /\ WellFormed'
<1>1. Idle \in Request /\ Idle.pc = "idle"
  BY DEF Idle, Request, Pcs
<1>2. Done(r) => reqs' \in [Requests -> Request] /\ WellFormed'
  BY <1>1, RequestStep DEF Done
<1>3. ASSUME NEW at \in {"select", "insert"}, Goto(r, at)
      PROVE  reqs' \in [Requests -> Request] /\ WellFormed'
  <2>1. reqs[r] \in Request
    BY DEF TypeOK
  <2>2. [reqs[r] EXCEPT !.pc = at] \in Request /\ [reqs[r] EXCEPT !.pc = at].pc = at
    BY <2>1 DEF Request, Pcs
  <2>3. reqs' = [reqs EXCEPT ![r] = [reqs[r] EXCEPT !.pc = at]]
    BY <1>3 DEF Goto
  <2> QED BY <2>2, <2>3, RequestStep
<1> QED BY <1>2, <1>3

\* The field updates of Select, Update and Insert.
Selected(q, id) == [q EXCEPT !.pc = "update", !.id = id]
Updated(q, s) == [q EXCEPT !.pc = "reply", !.secret = s]
Inserted(q, id, s) == [q EXCEPT !.pc = "reply", !.id = id, !.secret = s]

LEMMA FieldSteps ==
  ASSUME NEW q \in Request
  PROVE  /\ \A id \in Ids : LET x == Selected(q, id) IN
              x \in Request /\ x.pc = "update" /\ x.id \in Ids /\ x.tok = q.tok
         /\ \A s \in 0..MaxSecrets : LET x == Updated(q, s) IN
              x \in Request /\ x.pc = "reply" /\ x.tok = q.tok
         /\ \A id \in Ids, s \in 0..MaxSecrets : LET x == Inserted(q, id, s) IN
              x \in Request /\ x.pc = "reply" /\ x.tok = q.tok
<1> DEFINE a == [q EXCEPT !.pc = "update"]
           b == [q EXCEPT !.pc = "reply"]
           c(id) == [b EXCEPT !.id = id]
<1>1. a \in Request /\ a.pc = "update" /\ a.tok = q.tok
  BY DEF Request, Pcs
<1>2. b \in Request /\ b.pc = "reply" /\ b.tok = q.tok
  BY DEF Request, Pcs
<1> HIDE DEF a, b
<1>3. ASSUME NEW id \in Ids
      PROVE  LET x == [a EXCEPT !.id = id]
             IN  x \in Request /\ x.pc = "update" /\ x.id = id /\ x.tok = q.tok
  BY <1>1 DEF Request, Ids
<1>4. ASSUME NEW id \in Ids
      PROVE  c(id) \in Request /\ c(id).pc = "reply" /\ c(id).tok = q.tok
  BY <1>2 DEF Request, Ids
<1>5. ASSUME NEW s \in 0..MaxSecrets
      PROVE  LET x == [b EXCEPT !.secret = s]
             IN  x \in Request /\ x.pc = "reply" /\ x.tok = q.tok
  BY <1>2 DEF Request
<1> HIDE DEF c
<1>6. ASSUME NEW id \in Ids, NEW s \in 0..MaxSecrets
      PROVE  LET x == [c(id) EXCEPT !.secret = s]
             IN  x \in Request /\ x.pc = "reply" /\ x.tok = q.tok
  BY <1>4 DEF Request
<1> QED BY <1>3, <1>5, <1>6 DEF a, b, c, Selected, Updated, Inserted

\* Registered keeps the type of the history.
LEMMA RegisteredType ==
  ASSUME TypeOK, NEW r \in Requests, Registered(r)
  PROVE  enrolledBy' \in [Tokens -> Nat]
<1>1. reqs[r].tok \in Tokens \cup {Static}
  BY DEF TypeOK, Request
<1>2. CASE reqs[r].tok = Static
  BY <1>2 DEF Registered, TypeOK
<1>3. CASE reqs[r].tok \in Tokens
  BY <1>3 DEF Registered, TypeOK
<1> QED BY <1>1, <1>2, <1>3

\* Types are preserved (WellFormed is needed for the ids and tokens looked up).
LEMMA NextTypeOK ==
  ASSUME TypeOK, WellFormed, [Next]_vars
  PROVE  TypeOK' /\ WellFormed'
<1> USE DEF Ids
<1>1. ASSUME NEW r \in Requests, NEW t \in Tokens \cup {Static},
             NEW m \in Machines \cup {NoMachine}, Hello(r, t, m)
      PROVE  TypeOK' /\ WellFormed'
  <2> DEFINE x == [pc |-> FirstStatement(t), tok |-> t, machine |-> m, id |-> 0, secret |-> 0]
  <2>2. x \in Request /\ (x.pc = "consume" => x.tok \in Tokens) /\ x.pc # "update"
    BY DEF Request, Pcs, FirstStatement
  <2>3. reqs' = [reqs EXCEPT ![r] = x]
    BY <1>1 DEF Hello
  <2> HIDE DEF x
  <2>4. reqs' \in [Requests -> Request] /\ WellFormed'
    BY <2>2, <2>3, RequestStep
  <2> QED BY <1>1, <2>4 DEF Hello, TypeOK, tokenVars, rowVars
<1>2. ASSUME NEW r \in Requests, Consume(r) PROVE TypeOK' /\ WellFormed'
  <2>1. reqs' \in [Requests -> Request] /\ WellFormed'
    BY <1>2, GotoDone DEF Consume
  <2>2. used' \in [Tokens -> Nat]
    BY <1>2 DEF Consume, TypeOK, WellFormed
  <2> QED BY <1>2, <2>1, <2>2 DEF Consume, TypeOK, rowVars
<1>3. ASSUME NEW r \in Requests, Select(r) PROVE TypeOK' /\ WellFormed'
  <2>1. CASE Goto(r, "insert")
    BY <1>3, <2>1, GotoDone DEF Select, TypeOK, tokenVars, rowVars
  <2>2. CASE ~Goto(r, "insert")
    <3>1. PICK id \in Latest(reqs[r].machine) :
            reqs' = [reqs EXCEPT ![r].pc = "update", ![r].id = id]
      BY <1>3, <2>2 DEF Select
    <3> DEFINE x == Selected(reqs[r], id)
    <3>2. id \in Ids /\ reqs[r] \in Request
      BY DEF Latest, RowsOf, TypeOK
    <3>3. x \in Request /\ x.pc = "update" /\ x.id \in Ids
      BY <3>2, FieldSteps
    <3>4. reqs' = [reqs EXCEPT ![r] = x]
      BY <3>1 DEF Selected
    <3> HIDE DEF x
    <3>5. reqs' \in [Requests -> Request] /\ WellFormed'
      BY <3>3, <3>4, RequestStep
    <3> QED BY <1>3, <3>5 DEF Select, TypeOK, tokenVars, rowVars
  <2> QED BY <2>1, <2>2
<1>4. ASSUME NEW r \in Requests, Update(r) PROVE TypeOK' /\ WellFormed'
  <2> DEFINE s == lastSecret + 1
             x == Updated(reqs[r], s)
  <2>1. s \in 1..MaxSecrets /\ lastSecret' = s /\ reqs[r].id \in Ids /\ reqs[r] \in Request
    BY <1>4 DEF Update, TypeOK, WellFormed
  <2>2. agents' \in [Ids -> Row \cup {None}]
    <3>1. agents' = RowAfterUpdate(reqs[r].id, s)
      BY <1>4 DEF Update
    <3>2. CASE ~IsRow(reqs[r].id)
      BY <3>1, <3>2 DEF RowAfterUpdate, TypeOK
    <3>3. CASE IsRow(reqs[r].id)
      <4>1. agents[reqs[r].id] \in Row
        BY <2>1, <3>3 DEF IsRow, TypeOK
      <4>2. [agents[reqs[r].id] EXCEPT !.secret = s, !.seen = "online"] \in Row
        BY <2>1, <4>1 DEF Row
      <4>3. agents' = [agents EXCEPT ![reqs[r].id] =
                         [agents[reqs[r].id] EXCEPT !.secret = s, !.seen = "online"]]
        BY <3>1, <3>3 DEF RowAfterUpdate
      <4> QED BY <4>2, <4>3 DEF TypeOK
    <3> QED BY <3>2, <3>3
  <2>7. s \in 0..MaxSecrets
    BY <2>1
  <2>3. x \in Request /\ x.pc = "reply"
    <3> HIDE DEF s
    <3> QED BY <2>1, <2>7, FieldSteps
  <2>6. reqs' = [reqs EXCEPT ![r] = x]
    BY <1>4 DEF Update, Updated
  <2>4. enrolledBy' \in [Tokens -> Nat]
    BY <1>4, RegisteredType DEF Update
  <2> HIDE DEF x
  <2>5. reqs' \in [Requests -> Request] /\ WellFormed'
    BY <2>3, <2>6, RequestStep
  <2> QED BY <1>4, <2>1, <2>2, <2>4, <2>5 DEF Update, TypeOK, tokenVars
<1>5. ASSUME NEW r \in Requests, Insert(r) PROVE TypeOK' /\ WellFormed'
  <2> DEFINE s == lastSecret + 1
             n == lastId + 1
             x == Inserted(reqs[r], n, s)
  <2>1. s \in 1..MaxSecrets /\ lastSecret' = s /\ n \in Ids /\ lastId' = n
        /\ reqs[r] \in Request
    BY <1>5 DEF Insert, TypeOK
  <2>2. agents' \in [Ids -> Row \cup {None}]
    <3>1. [machine |-> reqs[r].machine, secret |-> s, seen |-> "online"] \in Row
      BY <2>1 DEF Row, Request
    <3> QED BY <1>5, <3>1 DEF Insert, TypeOK
  <2>7. s \in 0..MaxSecrets
    BY <2>1
  <2>3. x \in Request /\ x.pc = "reply"
    <3> HIDE DEF s
    <3> QED BY <2>1, <2>7, FieldSteps
  <2>6. reqs' = [reqs EXCEPT ![r] = x]
    BY <1>5 DEF Insert, Inserted
  <2>4. enrolledBy' \in [Tokens -> Nat]
    BY <1>5, RegisteredType DEF Insert
  <2> HIDE DEF x
  <2>5. reqs' \in [Requests -> Request] /\ WellFormed'
    BY <2>3, <2>6, RequestStep
  <2> QED BY <1>5, <2>1, <2>2, <2>4, <2>5 DEF Insert, TypeOK, tokenVars
<1>6. ASSUME NEW r \in Requests, Abort(r) \/ Reply(r) PROVE TypeOK' /\ WellFormed'
  <2>1. Done(r)
    BY <1>6 DEF Abort, Reply
  <2>2. reqs' \in [Requests -> Request] /\ WellFormed'
    BY <2>1, GotoDone
  <2> QED BY <1>6, <2>2 DEF Abort, Reply, TypeOK, tokenVars, rowVars
<1>7. ASSUME NEW t \in Tokens, RevokeEnrollToken(t) \/ Expire(t) PROVE TypeOK' /\ WellFormed'
  BY <1>7 DEF RevokeEnrollToken, Expire, TypeOK, WellFormed, rowVars
<1>8. ASSUME NEW id \in Ids, Authenticate(id) PROVE TypeOK' /\ WellFormed'
  BY <1>8 DEF Authenticate, TypeOK, WellFormed, tokenVars, rowVars
<1>9. ASSUME NEW id \in Ids, SaveTelemetry(id) PROVE TypeOK' /\ WellFormed'
  BY <1>9 DEF SaveTelemetry, TypeOK, WellFormed, IsRow, Row, tokenVars
<1>10. ASSUME NEW id \in Ids, Age(id) PROVE TypeOK' /\ WellFormed'
  <2>1. /\ id \in Ids /\ agents[id] # None
        /\ agents' = [agents EXCEPT ![id].seen = IF @ = "online" THEN "offline" ELSE "old"]
    BY <1>10 DEF Age, IsRow
  <2> DEFINE seen == IF agents[id].seen = "online" THEN "offline" ELSE "old"
  <2>3. agents[id] \in Row
    BY <2>1 DEF TypeOK
  <2>4. [agents[id] EXCEPT !.seen = seen] \in Row
    BY <2>3 DEF Row
  <2>5. agents' = [agents EXCEPT ![id] = [agents[id] EXCEPT !.seen = seen]]
    BY <2>1
  <2> HIDE DEF seen
  <2>2. agents' \in [Ids -> Row \cup {None}]
    BY <2>4, <2>5 DEF TypeOK
  <2> QED BY <1>10, <2>2 DEF Age, TypeOK, WellFormed, tokenVars
<1>11. ASSUME NEW id \in Ids, AdminDelete(id) \/ ArchiveDelete(id) PROVE TypeOK' /\ WellFormed'
  BY <1>11 DEF AdminDelete, ArchiveDelete, DeleteAgent, TypeOK, WellFormed, tokenVars
<1>12. ASSUME ArchiveScan \/ ArchiveAbort PROVE TypeOK' /\ WellFormed'
  BY <1>12 DEF ArchiveScan, ArchiveAbort, TypeOK, WellFormed, tokenVars, rowVars
<1>13. CASE UNCHANGED vars
  BY <1>13 DEF vars, tokenVars, rowVars, TypeOK, WellFormed
<1> QED BY <1>1, <1>2, <1>3, <1>4, <1>5, <1>6, <1>7, <1>8, <1>9, <1>10, <1>11, <1>12, <1>13
        DEF Next, HelloStep, RegistryStep

-----------------------------------------------------------------------------

\* Only Consume raises a use, and only below the limit.
LEMMA NextUsesBounded ==
  ASSUME TypeOK, WellFormed, UsesBounded, [Next]_vars
  PROVE  UsesBounded'
<1>1. ASSUME NEW r \in Requests, Consume(r) PROVE UsesBounded'
  <2>1. CASE MayConsume(reqs[r].tok)
    <3>1. reqs[r].tok \in Tokens /\ used' = [used EXCEPT ![reqs[r].tok] = @ + 1]
      BY <1>1, <2>1 DEF Consume, WellFormed
    <3> QED BY <2>1, <3>1 DEF MayConsume, HasUsesLeft, UsesBounded, TypeOK
  <2>2. CASE ~MayConsume(reqs[r].tok)
    BY <1>1, <2>2 DEF Consume, UsesBounded
  <2> QED BY <2>1, <2>2
<1>2. CASE UNCHANGED used
  BY <1>2 DEF UsesBounded
<1>3. \/ \E r \in Requests : Consume(r)
      \/ UNCHANGED used
  BY DEF Next, HelloStep, RegistryStep, Hello, Select, Update, Insert, Abort, Reply,
         RevokeEnrollToken, Expire, Authenticate, SaveTelemetry, Age, AdminDelete,
         ArchiveScan, ArchiveDelete, ArchiveAbort, vars, tokenVars
<1> QED BY <1>1, <1>2, <1>3

\* One request moves from reqs[r] to x: the accounts of a token stay balanced
\* when a use pays for entering Paid, and leaving Paid pays for the registration.
LEMMA SlotStep ==
  ASSUME NEW t \in Tokens, NEW r \in Requests, NEW x, TypeOK, SlotAccounting,
         reqs' = [reqs EXCEPT ![r] = x],
         used'[t] \in Nat, enrolledBy'[t] \in Nat,
         LET before == reqs[r].tok = t /\ reqs[r].pc \in Paid
             after  == x.tok = t /\ x.pc \in Paid
         IN  \/ used'[t] = used[t] /\ enrolledBy'[t] = enrolledBy[t] /\ (after => before)
             \/ used'[t] = used[t] + 1 /\ enrolledBy'[t] = enrolledBy[t]
             \/ used'[t] = used[t] /\ enrolledBy'[t] = enrolledBy[t] + 1 /\ before /\ ~after
  PROVE  enrolledBy'[t] + Cardinality(Holding(t)') <= used'[t]
<1> DEFINE before == reqs[r].tok = t /\ reqs[r].pc \in Paid
           after  == x.tok = t /\ x.pc \in Paid
           c == Cardinality(Holding(t))
           d == Cardinality(Holding(t)')
<1>1. c \in Nat
  BY HoldingFinite
<1>2. /\ d \in Nat
      /\ before /\ after => d = c
      /\ ~before /\ ~after => d = c
      /\ ~before /\ after => d = c + 1
      /\ before /\ ~after => d = c - 1
  BY HoldingCard
<1>3. enrolledBy[t] \in Nat /\ used[t] \in Nat /\ enrolledBy[t] + c <= used[t]
  BY DEF TypeOK, SlotAccounting
<1>4. \/ used'[t] = used[t] /\ enrolledBy'[t] = enrolledBy[t] /\ (after => before)
      \/ used'[t] = used[t] + 1 /\ enrolledBy'[t] = enrolledBy[t]
      \/ used'[t] = used[t] /\ enrolledBy'[t] = enrolledBy[t] + 1 /\ before /\ ~after
  OBVIOUS
<1> HIDE DEF before, after, c, d
<1>5. enrolledBy'[t] + d <= used'[t]
  BY <1>1, <1>2, <1>3, <1>4
<1> QED BY <1>5 DEF d

\* Every step keeps the accounts of every token.
LEMMA NextSlotAccounting ==
  ASSUME TypeOK, WellFormed, SlotAccounting, [Next]_vars, TypeOK'
  PROVE  SlotAccounting'
<1> SUFFICES ASSUME NEW t \in Tokens
             PROVE  enrolledBy'[t] + Cardinality(Holding(t)') <= used'[t]
  BY DEF SlotAccounting
<1>0. used'[t] \in Nat /\ enrolledBy'[t] \in Nat
  BY DEF TypeOK
<1>1. ASSUME NEW r \in Requests, NEW k \in Tokens \cup {Static},
             NEW m \in Machines \cup {NoMachine}, Hello(r, k, m)
      PROVE  enrolledBy'[t] + Cardinality(Holding(t)') <= used'[t]
  <2> DEFINE x == [pc |-> FirstStatement(k), tok |-> k, machine |-> m, id |-> 0, secret |-> 0]
  <2>1. reqs' = [reqs EXCEPT ![r] = x] /\ used' = used /\ enrolledBy' = enrolledBy
    BY <1>1 DEF Hello, tokenVars
  <2>2. ~(x.tok = t /\ x.pc \in Paid)
    BY DEF Paid, FirstStatement
  <2> HIDE DEF x
  <2> QED BY <1>0, <2>1, <2>2, SlotStep
<1>2. ASSUME NEW r \in Requests, Consume(r)
      PROVE  enrolledBy'[t] + Cardinality(Holding(t)') <= used'[t]
  <2>1. CASE MayConsume(reqs[r].tok)
    <3> DEFINE x == [reqs[r] EXCEPT !.pc = "select"]
    <3>1. /\ reqs' = [reqs EXCEPT ![r] = x] /\ enrolledBy' = enrolledBy
          /\ used' = [used EXCEPT ![reqs[r].tok] = @ + 1]
      BY <1>2, <2>1 DEF Consume, Goto
    <3>2. x.tok = reqs[r].tok
      BY DEF TypeOK, Request
    <3> HIDE DEF x
    <3>3. CASE reqs[r].tok = t
      <4>1. used'[t] = used[t] + 1
        BY <3>1, <3>3 DEF TypeOK
      <4> QED BY <1>0, <3>1, <4>1, SlotStep
    <3>4. CASE reqs[r].tok # t
      <4>1. used'[t] = used[t]
        BY <3>1, <3>4 DEF TypeOK
      <4> QED BY <1>0, <3>1, <3>2, <3>4, <4>1, SlotStep
    <3> QED BY <3>3, <3>4
  <2>2. CASE ~MayConsume(reqs[r].tok)
    <3>1. reqs' = [reqs EXCEPT ![r] = Idle] /\ used' = used /\ enrolledBy' = enrolledBy
      BY <1>2, <2>2 DEF Consume, Done
    <3>2. ~(Idle.pc \in Paid)
      BY DEF Idle, Paid
    <3> QED BY <1>0, <3>1, <3>2, SlotStep
  <2> QED BY <2>1, <2>2
<1>3. ASSUME NEW r \in Requests, Select(r)
      PROVE  enrolledBy'[t] + Cardinality(Holding(t)') <= used'[t]
  <2>1. reqs[r] \in Request /\ reqs[r].pc \in Paid /\ used' = used /\ enrolledBy' = enrolledBy
    BY <1>3 DEF Select, Paid, TypeOK, tokenVars
  <2>2. PICK x : reqs' = [reqs EXCEPT ![r] = x] /\ x.tok = reqs[r].tok
    <3>1. CASE Goto(r, "insert")
      <4>1. reqs' = [reqs EXCEPT ![r] = [reqs[r] EXCEPT !.pc = "insert"]]
        BY <3>1 DEF Goto
      <4>2. [reqs[r] EXCEPT !.pc = "insert"].tok = reqs[r].tok
        BY <2>1 DEF Request
      <4> QED BY <4>1, <4>2
    <3>2. CASE ~Goto(r, "insert")
      <4>1. PICK id \in Latest(reqs[r].machine) :
              reqs' = [reqs EXCEPT ![r] = Selected(reqs[r], id)]
        BY <1>3, <3>2 DEF Select, Selected
      <4>2. id \in Ids
        BY DEF Latest, RowsOf
      <4>3. Selected(reqs[r], id).tok = reqs[r].tok
        BY <2>1, <4>2, FieldSteps
      <4> QED BY <4>1, <4>3
    <3> QED BY <3>1, <3>2
  <2> QED BY <1>0, <2>1, <2>2, SlotStep
<1>4. ASSUME NEW r \in Requests, NEW x, reqs' = [reqs EXCEPT ![r] = x],
             used' = used, Registered(r), reqs[r].pc \in Paid, x.pc = "reply"
      PROVE  enrolledBy'[t] + Cardinality(Holding(t)') <= used'[t]
  <2>1. ~(x.pc \in Paid)
    BY <1>4 DEF Paid
  <2>2. CASE reqs[r].tok = t
    <3>1. enrolledBy'[t] = enrolledBy[t] + 1
      BY <1>4, <2>2 DEF Registered, TypeOK
    <3> QED BY <1>0, <1>4, <2>1, <2>2, <3>1, SlotStep
  <2>3. CASE reqs[r].tok # t
    <3>1. enrolledBy'[t] = enrolledBy[t]
      BY <1>4, <2>3 DEF Registered, TypeOK
    <3> QED BY <1>0, <1>4, <2>1, <3>1, SlotStep
  <2> QED BY <2>2, <2>3
<1>5. ASSUME NEW r \in Requests, Update(r)
      PROVE  enrolledBy'[t] + Cardinality(Holding(t)') <= used'[t]
  <2> DEFINE x == Updated(reqs[r], lastSecret + 1)
  <2>1. lastSecret + 1 \in 0..MaxSecrets /\ reqs[r] \in Request
    BY <1>5 DEF Update, TypeOK
  <2>2. reqs' = [reqs EXCEPT ![r] = x]
    BY <1>5 DEF Update, Updated
  <2>3. x.pc = "reply"
    BY <2>1, FieldSteps
  <2>4. used' = used /\ Registered(r) /\ reqs[r].pc \in Paid
    BY <1>5 DEF Update, Paid, tokenVars
  <2> HIDE DEF x
  <2> QED BY <1>4, <2>2, <2>3, <2>4
<1>6. ASSUME NEW r \in Requests, Insert(r)
      PROVE  enrolledBy'[t] + Cardinality(Holding(t)') <= used'[t]
  <2> DEFINE x == Inserted(reqs[r], lastId + 1, lastSecret + 1)
  <2>1. lastSecret + 1 \in 0..MaxSecrets /\ lastId + 1 \in Ids /\ reqs[r] \in Request
    BY <1>6 DEF Insert, TypeOK, Ids
  <2>2. reqs' = [reqs EXCEPT ![r] = x]
    BY <1>6 DEF Insert, Inserted
  <2>3. x.pc = "reply"
    BY <2>1, FieldSteps
  <2>4. used' = used /\ Registered(r) /\ reqs[r].pc \in Paid
    BY <1>6 DEF Insert, Paid, tokenVars
  <2> HIDE DEF x
  <2> QED BY <1>4, <2>2, <2>3, <2>4
<1>7. ASSUME NEW r \in Requests, Abort(r) \/ Reply(r)
      PROVE  enrolledBy'[t] + Cardinality(Holding(t)') <= used'[t]
  <2>1. reqs' = [reqs EXCEPT ![r] = Idle] /\ used' = used /\ enrolledBy' = enrolledBy
    BY <1>7 DEF Abort, Reply, Done, tokenVars
  <2>2. ~(Idle.pc \in Paid)
    BY DEF Idle, Paid
  <2> QED BY <1>0, <2>1, <2>2, SlotStep
<1>8. CASE RegistryStep \/ UNCHANGED vars
  <2>1. used' = used /\ enrolledBy' = enrolledBy /\ reqs' = reqs
    BY <1>8 DEF RegistryStep, RevokeEnrollToken, Expire, Authenticate, SaveTelemetry, Age,
                AdminDelete, ArchiveScan, ArchiveDelete, ArchiveAbort, vars, tokenVars
  <2>2. Holding(t)' = Holding(t)
    BY <2>1 DEF Holding
  <2> QED BY <2>1, <2>2 DEF SlotAccounting
<1> QED BY <1>1, <1>2, <1>3, <1>5, <1>6, <1>7, <1>8 DEF Next, HelloStep

-----------------------------------------------------------------------------

\* IInv is inductive ...
LEMMA Inductive == IInv /\ [Next]_vars => IInv'
<1> SUFFICES ASSUME IInv, [Next]_vars PROVE IInv'
  OBVIOUS
<1>1. TypeOK' /\ WellFormed'
  BY NextTypeOK DEF IInv
<1>2. UsesBounded'
  BY NextUsesBounded DEF IInv
<1>3. SlotAccounting'
  BY <1>1, NextSlotAccounting DEF IInv
<1> QED BY <1>1, <1>2, <1>3 DEF IInv

\* ... so it holds in every reachable state.
LEMMA Invariance == Spec => []IInv
BY InitIInv, Inductive, PTL DEF Spec

\* Every reachable state is well typed (the rows and requests of the registry).
THEOREM TypeCorrect == Spec => []TypeOK
<1>1. IInv => TypeOK
  BY DEF IInv
<1> QED BY <1>1, Invariance, PTL

\* No use of a token pays for two registrations.
THEOREM SlotsAccounted == Spec => []SlotAccounting
<1>1. IInv => SlotAccounting
  BY DEF IInv
<1> QED BY <1>1, Invariance, PTL

\* At most max_uses agents are registered through a token, whatever the
\* number of replicas and handlers.
THEOREM UsesRespected == Spec => []AtMostMaxUses
<1>1. IInv => AtMostMaxUses
  <2> SUFFICES ASSUME IInv, NEW t \in Tokens, MaxUses[t] > 0
               PROVE  enrolledBy[t] <= MaxUses[t]
    BY DEF AtMostMaxUses
  <2>1. enrolledBy[t] \in Nat /\ used[t] \in Nat /\ Cardinality(Holding(t)) \in Nat
        /\ MaxUses[t] \in Nat
    BY HoldingFinite DEF IInv, TypeOK
  <2>2. enrolledBy[t] + Cardinality(Holding(t)) <= used[t] /\ used[t] <= MaxUses[t]
    BY DEF IInv, SlotAccounting, UsesBounded
  <2> QED BY <2>1, <2>2
<1> QED BY <1>1, Invariance, PTL

\* A revoked token's uses never change again.
THEOREM RevocationFinal == Spec => RevokedBuysNothing
<1>1. IInv /\ [Next]_vars => [\A t \in Tokens : revoked[t] => used'[t] = used[t]]_vars
  <2> SUFFICES ASSUME IInv, [Next]_vars, NEW t \in Tokens, revoked[t]
               PROVE  used'[t] = used[t]
    OBVIOUS
  <2>1. ASSUME NEW r \in Requests, Consume(r) PROVE used'[t] = used[t]
    <3>1. CASE MayConsume(reqs[r].tok)
      <4>1. reqs[r].tok # t
        BY <3>1 DEF MayConsume
      <4> QED BY <2>1, <4>1 DEF Consume, IInv, TypeOK
    <3> QED BY <2>1, <3>1 DEF Consume
  <2>2. \/ \E r \in Requests : Consume(r)
        \/ UNCHANGED used
    BY DEF Next, HelloStep, RegistryStep, Hello, Select, Update, Insert, Abort, Reply,
           RevokeEnrollToken, Expire, Authenticate, SaveTelemetry, Age, AdminDelete,
           ArchiveScan, ArchiveDelete, ArchiveAbort, vars, tokenVars
  <2> QED BY <2>1, <2>2
<1> QED BY <1>1, Invariance, PTL DEF Spec, RevokedBuysNothing

\* No step brings back a deleted agent.
THEOREM DeletionFinal == Spec => DeletedStaysDeleted
<1>1. IInv /\ [Next]_vars =>
        [\A id \in Ids : (id <= lastId /\ ~IsRow(id)) => ~IsRow(id)']_vars
  <2> SUFFICES ASSUME IInv, [Next]_vars, NEW id \in Ids, id <= lastId, agents[id] = None
               PROVE  agents'[id] = None
    BY DEF IsRow
  <2>1. agents \in [Ids -> Row \cup {None}] /\ lastId \in Nat
    BY DEF IInv, TypeOK
  <2>2. ASSUME NEW r \in Requests, Update(r) PROVE agents'[id] = None
    BY <2>1, <2>2 DEF Update, RowAfterUpdate, IsRow
  <2>3. ASSUME NEW r \in Requests, Insert(r) PROVE agents'[id] = None
    BY <2>1, <2>3 DEF Insert
  <2>4. ASSUME NEW o \in Ids, SaveTelemetry(o) \/ Age(o) PROVE agents'[id] = None
    BY <2>1, <2>4 DEF SaveTelemetry, Age, IsRow
  <2>5. ASSUME NEW o \in Ids, AdminDelete(o) \/ ArchiveDelete(o) PROVE agents'[id] = None
    BY <2>1, <2>5 DEF AdminDelete, ArchiveDelete, DeleteAgent
  <2>6. \/ \E r \in Requests : Update(r) \/ Insert(r)
        \/ \E o \in Ids : SaveTelemetry(o) \/ Age(o) \/ AdminDelete(o) \/ ArchiveDelete(o)
        \/ UNCHANGED agents
    BY DEF Next, HelloStep, RegistryStep, Hello, Consume, Select, Abort, Reply,
           RevokeEnrollToken, Expire, Authenticate, ArchiveScan, ArchiveAbort, vars, rowVars
  <2> QED BY <2>2, <2>3, <2>4, <2>5, <2>6
<1> QED BY <1>1, Invariance, PTL DEF Spec, DeletedStaysDeleted

-----------------------------------------------------------------------------
(* The identity of one agent, and the rows it leaves in the registry.      *)

\* The identity the agent will go on with, if nothing else disturbs it: its row is
\* the one that no fault has to pay for.  (0: none.  A hub that cannot reach its
\* database may already have been taken for one that does not know the agent.)
Kept ==
  IF ~db \/ pc \in {"hello", "rejected", "reenroll"} THEN 0
  ELSE IF pc = "save" THEN reply ELSE disk.token

Orphans == {s \in Rows : rows[s].token # Kept}
PaidFor == Cardinality(Orphans) <= faults

Distinct ==
  /\ \A s \in Slots : rows[s].token = 0 => rows[s] = NoRow
  /\ \A s, o \in Rows : rows[s].token = rows[o].token => s = o

\* Where the identities are between two steps.
Running == {"wait", "accepted", "rejected"}
Places ==
  /\ pc # "save" => reply = 0
  /\ pc \in Running \cup {"reenroll"} => disk.token \in {0, mem}
  /\ pc \in {"hello", "save"} /\ origin = "reenroll" => disk = NoFile

\* A streak passes the threshold only by faults.
Streaks ==
  /\ disk.streak <= ReenrollAfter + faults /\ authFails <= ReenrollAfter + faults
  /\ pc \in Running /\ authFails < ReenrollAfter => disk.streak < ReenrollAfter + faults
  /\ pc = "reenroll" \/ (pc \in {"hello", "save"} /\ origin = "reenroll") => authFails >= ReenrollAfter

\* RowsBounded is not inductive: it does not say which row is the one that is not
\* an orphan, nor that a hello is only sent when there is no such row.
IdInv == IdentityTypeOK /\ Streaks /\ Places /\ Distinct /\ PaidFor

USE IdentityAssumption DEF IdentityAssumption

\* The slots are finitely many.
LEMMA SlotsFinite ==
  /\ IsFiniteSet(Slots) /\ Cardinality(Slots) = MaxFaults + 2
  /\ \A S \in SUBSET Slots : IsFiniteSet(S) /\ Cardinality(S) \in Nat
<1>1. IsFiniteSet(Slots) /\ Cardinality(Slots) = MaxFaults + 2
  BY FS_Interval DEF Slots
<1>2. \A S \in SUBSET Slots : IsFiniteSet(S) /\ Cardinality(S) \in Nat
  BY <1>1, FS_Subset, FS_CardinalityType
<1> QED BY <1>1, <1>2

\* All rows but one are orphans, all of them when no identity is kept.
LEMMA AllRows ==
  ASSUME IdentityTypeOK, Distinct
  PROVE  /\ \E x \in Slots : Rows \subseteq Orphans \cup {x}
         /\ Kept = 0 => Rows = Orphans
<1>1. 1 \in Slots /\ Rows \subseteq Slots
  BY DEF Slots, Rows
<1>2. CASE \E x \in Rows : rows[x].token = Kept
  <2>1. PICK x \in Rows : rows[x].token = Kept
    BY <1>2
  <2>2. Rows \subseteq Orphans \cup {x}
    BY <2>1 DEF Orphans, Distinct
  <2>3. Kept # 0
    BY <1>1, <2>1 DEF Distinct, Rows
  <2> QED BY <1>1, <2>1, <2>2, <2>3
<1>3. CASE ~ \E x \in Rows : rows[x].token = Kept
  BY <1>1, <1>3 DEF Orphans
<1> QED BY <1>2, <1>3

\* A fault pays for one more orphan.
LEMMA Pays ==
  ASSUME IdentityTypeOK, PaidFor, NEW S \in SUBSET Slots, NEW n \in Nat,
         \/ S \subseteq Orphans /\ n >= faults
         \/ n = faults + 1 /\ \E x \in Slots : S \subseteq Orphans \cup {x}
  PROVE  Cardinality(S) <= n
<1>1. Orphans \in SUBSET Slots /\ faults \in Nat
  BY DEF Orphans, Rows, IdentityTypeOK
<1>2. IsFiniteSet(Orphans) /\ Cardinality(Orphans) \in Nat /\ Cardinality(S) \in Nat
  BY <1>1, SlotsFinite
<1>3. CASE S \subseteq Orphans /\ n >= faults
  <2>1. Cardinality(S) <= Cardinality(Orphans)
    BY <1>2, <1>3, FS_Subset
  <2> QED BY <1>1, <1>2, <1>3, <2>1 DEF PaidFor
<1>4. CASE n = faults + 1 /\ \E x \in Slots : S \subseteq Orphans \cup {x}
  <2>1. PICK x \in Slots : S \subseteq Orphans \cup {x}
    BY <1>4
  <2>2. /\ IsFiniteSet(Orphans \cup {x}) /\ Cardinality(Orphans \cup {x}) \in Nat
        /\ Cardinality(Orphans \cup {x}) <= Cardinality(Orphans) + 1
    <3>1. /\ IsFiniteSet(Orphans \cup {x})
          /\ Cardinality(Orphans \cup {x}) = IF x \in Orphans THEN Cardinality(Orphans) ELSE Cardinality(Orphans) + 1
      BY <1>2, FS_AddElement
    <3> QED BY <1>2, <3>1
  <2>3. Cardinality(S) <= Cardinality(Orphans \cup {x})
    BY <2>1, <2>2, FS_Subset
  <2> QED BY <1>1, <1>2, <1>4, <2>2, <2>3 DEF PaidFor
<1> QED BY <1>3, <1>4

\* The bound on the rows follows.
LEMMA FewRows == ASSUME IdInv PROVE Cardinality(Rows) <= 1 + faults
<1>1. Rows \in SUBSET Slots /\ faults + 1 \in Nat
  BY DEF IdInv, Rows, IdentityTypeOK
<1>2. \E x \in Slots : Rows \subseteq Orphans \cup {x}
  BY AllRows DEF IdInv
<1>3. Cardinality(Rows) <= faults + 1
  BY <1>1, <1>2, Pays DEF IdInv
<1>4. Cardinality(Rows) \in Nat /\ faults \in Nat
  BY <1>1, SlotsFinite DEF IdInv, IdentityTypeOK
<1> QED BY <1>3, <1>4

\* There is room for a row, and a token that nobody has.
LEMMA FreeSlot ==
  ASSUME IdInv
  PROVE  \E o \in Slots : o \notin Rows
<1>1. SUFFICES ASSUME Rows = Slots PROVE FALSE
  BY DEF Rows
<1>2. Cardinality(Rows) <= 1 + faults
  BY FewRows
<1>3. faults \in 0..MaxFaults
  BY DEF IdInv, IdentityTypeOK
<1> QED BY <1>1, <1>2, <1>3, SlotsFinite

\* There are more tokens than places that hold one.
LEMMA FreshToken ==
  ASSUME IdentityTypeOK, reply = 0
  PROVE  NewToken \in AgentTokens /\ NewToken \notin InUse
<1> DEFINE Where == -1..MaxFaults+2
           Has(p, t) == IF p = -1 THEN mem = t ELSE IF p = 0 THEN disk.token = t ELSE rows[p].token = t
           f == [t \in AgentTokens |-> CHOOSE p \in Where : Has(p, t)]
<1>1. SUFFICES ASSUME AgentTokens \subseteq InUse PROVE FALSE
  BY DEF NewToken
<1>2. ASSUME NEW t \in AgentTokens PROVE \E p \in Where : Has(p, t)
  BY <1>1, <1>2 DEF InUse, AgentTokens, Slots
<1>3. f \in [AgentTokens -> Where] /\ \A t \in AgentTokens : Has(f[t], t)
  BY <1>2
<1>4. /\ IsFiniteSet(AgentTokens) /\ Cardinality(AgentTokens) = MaxFaults + 5
      /\ IsFiniteSet(Where) /\ Cardinality(Where) = MaxFaults + 4
  BY FS_Interval DEF AgentTokens
<1> HIDE DEF f, Where
<1>5. PICK t, u \in AgentTokens : t # u /\ f[t] = f[u]
  <2>1. Cardinality(Where) < Cardinality(AgentTokens)
    BY <1>4
  <2> QED BY <1>3, <1>4, <2>1, FS_PigeonHole
<1> QED BY <1>3, <1>5

-----------------------------------------------------------------------------
(* What steps do to the rows.                                              *)

\* The same rows with the same tokens, whatever their age.
SameTokens == \A s \in Slots : rows'[s].token = rows[s].token /\ (rows[s] = NoRow => rows'[s] = NoRow)

\* Rows that keep their tokens stay distinct.
LEMMA TokensKept ==
  ASSUME IdentityTypeOK, IdentityTypeOK', Distinct, SameTokens
  PROVE  Rows' = Rows /\ Distinct'
<1>1. \A s \in Slots : rows'[s] = NoRow <=> rows[s] = NoRow
  BY DEF SameTokens, Distinct, NoRow
<1> QED BY <1>1 DEF SameTokens, Distinct, Rows

\* Time passes for the rows, but for the one that has just been heard of.
LEMMA RowsAge ==
  ASSUME IdentityTypeOK, NEW touched, AgeRows(touched)
  PROVE  SameTokens /\ rows' \in [Slots -> [token : {0} \cup AgentTokens, age : 0..Stale]]
<1>1. PICK a \in Aged :
        rows' = [s \in Slots |-> IF s \in Rows /\ rows[s].token \in touched
                                   THEN [rows[s] EXCEPT !.age = 0] ELSE [rows[s] EXCEPT !.age = a[s]]]
  BY DEF AgeRows
<1>2. a \in [Slots -> 0..Stale] /\ \A s \in Slots \ Rows : a[s] = 0
  BY <1>1 DEF Aged
<1>3. ASSUME NEW s \in Slots
      PROVE  /\ rows'[s] \in [token : {0} \cup AgentTokens, age : 0..Stale]
             /\ rows'[s].token = rows[s].token /\ (rows[s] = NoRow => rows'[s] = NoRow)
  <2>1. rows[s] \in [token : {0} \cup AgentTokens, age : 0..Stale] /\ a[s] \in 0..Stale /\ 0 \in 0..Stale
    BY <1>2 DEF IdentityTypeOK, Stale
  <2>2. \A n \in 0..Stale : /\ [rows[s] EXCEPT !.age = n] \in [token : {0} \cup AgentTokens, age : 0..Stale]
                            /\ [rows[s] EXCEPT !.age = n].token = rows[s].token
    BY <2>1
  <2>3. rows[s] = NoRow => rows'[s] = NoRow
    BY <1>1, <1>2 DEF Rows, NoRow
  <2> QED BY <1>1, <2>1, <2>2, <2>3
<1> QED BY <1>1, <1>3 DEF SameTokens

\* A hello answered: one row is new or has changed hands.
LEMMA RowTaken ==
  ASSUME IdInv, NEW t \in AgentTokens, t \notin InUse, HubHello(t)
  PROVE  /\ rows' \in [Slots -> [token : {0} \cup AgentTokens, age : 0..Stale]]
         /\ Distinct'
         /\ \E s \in Slots : /\ Rows' = Rows \cup {s} /\ rows'[s].token = t
                             /\ \A o \in Slots \ {s} : rows'[o] = rows[o]
<1>1. PICK s \in Slots : rows' = [rows EXCEPT ![s] = [token |-> t, age |-> 0]]
  BY FreeSlot DEF HubHello, Freshest, Rows
<1>2. t # 0 /\ 0 \in 0..Stale /\ \A o \in Slots : rows[o].token # t
  BY DEF AgentTokens, Stale, InUse
<1>3. rows \in [Slots -> [token : {0} \cup AgentTokens, age : 0..Stale]] /\ Distinct
  BY DEF IdInv, IdentityTypeOK
<1>4. rows'[s] = [token |-> t, age |-> 0] /\ \A o \in Slots \ {s} : rows'[o] = rows[o]
  BY <1>1, <1>3
<1>5. Rows' = Rows \cup {s}
  BY <1>2, <1>4 DEF Rows, NoRow
<1>6. rows' \in [Slots -> [token : {0} \cup AgentTokens, age : 0..Stale]]
  BY <1>1, <1>2, <1>3
<1>7. Distinct'
  BY <1>2, <1>3, <1>4, <1>5 DEF Distinct, Rows
<1> QED BY <1>4, <1>5, <1>6, <1>7

\* The three ways in which orphans stay paid for.
LEMMA NoneAdded ==
  ASSUME IdentityTypeOK, PaidFor, IdentityTypeOK', Orphans' \subseteq Orphans, faults' >= faults
  PROVE  PaidFor'
<1>1. Orphans' \in SUBSET Slots /\ faults' \in Nat
  BY DEF Orphans, Rows, IdentityTypeOK
<1>2. Cardinality(Orphans') <= faults'
  BY <1>1, Pays
<1> QED BY <1>2 DEF PaidFor

\* A fault pays for one more.
LEMMA OneAdded ==
  ASSUME IdentityTypeOK, PaidFor, IdentityTypeOK', faults' = faults + 1,
         \E x \in Slots : Orphans' \subseteq Orphans \cup {x}
  PROVE  PaidFor'
<1>1. Orphans' \in SUBSET Slots /\ faults' \in Nat
  BY DEF Orphans, Rows, IdentityTypeOK
<1>2. Cardinality(Orphans') <= faults'
  BY <1>1, Pays
<1> QED BY <1>2 DEF PaidFor

\* A fault pays for anything but a new row.
LEMMA FaultPays ==
  ASSUME IdInv, IdentityTypeOK', faults' = faults + 1, Rows' = Rows
  PROVE  PaidFor'
<1>1. \E x \in Slots : Orphans' \subseteq Orphans \cup {x}
  BY AllRows DEF IdInv, Orphans
<1> QED BY <1>1, OneAdded DEF IdInv

\* What was an orphan before a step that keeps no identity can only get fewer.
LEMMA NothingKept ==
  ASSUME IdInv, IdentityTypeOK', faults' >= faults, Kept = 0, Rows' \subseteq Rows
  PROVE  PaidFor'
<1>1. Orphans' \subseteq Orphans
  BY AllRows DEF IdInv, Orphans
<1> QED BY <1>1, NoneAdded DEF IdInv

\* The same tokens and the same identity.
LEMMA SameKept ==
  ASSUME IdInv, IdentityTypeOK', faults' >= faults, SameTokens, Kept' = Kept
  PROVE  PaidFor'
<1>1. Rows' = Rows
  BY TokensKept DEF IdInv
<1>2. Orphans' \subseteq Orphans
  BY <1>1 DEF Orphans, SameTokens, Rows
<1> QED BY <1>2, NoneAdded DEF IdInv

-----------------------------------------------------------------------------
(* The steps.                                                              *)

\* A failed or interrupted write leaves a file that is well typed, and no other identity.
LEMMA TornFacts ==
  ASSUME IdentityTypeOK, Fault, disk' \in Torn
  PROVE  /\ faults' = faults + 1 /\ faults' \in 0..MaxFaults
         /\ disk' \in [token : {0} \cup AgentTokens, streak : 0..(ReenrollAfter + MaxFaults)]
         /\ disk'.token \in {0, disk.token} /\ disk'.streak \in {0, disk.streak}
         /\ disk = NoFile => disk' = NoFile
  BY DEF IdentityTypeOK, Fault, Torn, NoFile

\* Nothing but the place of the identity changes.
LEMMA StartStep == ASSUME IdInv, Start PROVE IdInv'
<1>1. IdentityTypeOK'
  BY DEF IdInv, Start, world, IdentityTypeOK
<1>2. Streaks' /\ Places' /\ Distinct'
  BY DEF IdInv, Start, world, IdentityTypeOK, Streaks, Places, Distinct, Running, Rows
<1>3. SameTokens /\ Kept' = Kept /\ faults' >= faults
  BY DEF Start, world, SameTokens, Kept, IdInv, IdentityTypeOK
<1> QED BY <1>1, <1>2, <1>3, SameKept DEF IdInv

\* A hello is only sent when no identity is kept: the rows there are paid for, and
\* the new one is the identity that is kept from now on.
LEMMA HelloAnsweredStep == ASSUME IdInv, HelloAnswered PROVE IdInv'
<1>1. NewToken \in AgentTokens /\ NewToken \notin InUse
  BY FreshToken DEF IdInv, HelloAnswered, Places
<1> DEFINE t == NewToken
<1>2. t \in AgentTokens /\ t \notin InUse /\ HubHello(t) /\ reply' = t
  BY <1>1 DEF HelloAnswered
<1> HIDE DEF t
<1>3. /\ rows' \in [Slots -> [token : {0} \cup AgentTokens, age : 0..Stale]] /\ Distinct'
      /\ \E s \in Slots : /\ Rows' = Rows \cup {s} /\ rows'[s].token = t
                          /\ \A o \in Slots \ {s} : rows'[o] = rows[o]
  BY <1>2, RowTaken
<1>4. IdentityTypeOK'
  BY <1>2, <1>3 DEF IdInv, HelloAnswered, world, IdentityTypeOK
<1>5. Streaks' /\ Places'
  BY DEF IdInv, HelloAnswered, world, Streaks, Places, Running
<1>6. Kept = 0 /\ Kept' = t /\ faults' = faults
  BY <1>2 DEF HelloAnswered, world, Kept
<1>7. Orphans' \subseteq Orphans
  <2>1. Rows = Orphans
    BY <1>6, AllRows DEF IdInv
  <2> QED BY <1>3, <1>6, <2>1 DEF Orphans
<1>8. faults' >= faults
  BY <1>6 DEF IdInv, IdentityTypeOK
<1> QED BY <1>3, <1>4, <1>5, <1>7, <1>8, NoneAdded DEF IdInv

\* A lost answer leaves a row that nobody knows of.  It is a fault.
LEMMA HelloLostStep == ASSUME IdInv, HelloLost PROVE IdInv'
<1>1. NewToken \in AgentTokens /\ NewToken \notin InUse
  BY FreshToken DEF IdInv, HelloLost, Places
<1> DEFINE t == NewToken
<1>2. t \in AgentTokens /\ t \notin InUse /\ HubHello(t)
  BY <1>1 DEF HelloLost
<1> HIDE DEF t
<1>3. /\ rows' \in [Slots -> [token : {0} \cup AgentTokens, age : 0..Stale]] /\ Distinct'
      /\ \E s \in Slots : Rows' = Rows \cup {s}
  BY <1>2, RowTaken
<1>4. faults' = faults + 1 /\ faults' \in 0..MaxFaults
  BY DEF IdInv, IdentityTypeOK, HelloLost, Fault
<1>5. IdentityTypeOK'
  BY <1>3, <1>4 DEF IdInv, HelloLost, NextURL, LastURL, GiveUp, IdentityTypeOK
<1>6. Streaks' /\ Places'
  BY <1>4 DEF IdInv, IdentityTypeOK, HelloLost, NextURL, GiveUp, Streaks, Places, Running, NoFile
<1>7. \E x \in Slots : Orphans' \subseteq Orphans \cup {x}
  <2>1. Rows = Orphans
    BY AllRows DEF IdInv, HelloLost, Kept
  <2> QED BY <1>3, <2>1 DEF Orphans
<1> QED BY <1>3, <1>4, <1>5, <1>6, <1>7, OneAdded DEF IdInv

\* A hello that never reached the registry.
LEMMA HelloFailsStep == ASSUME IdInv, HelloFails PROVE IdInv'
<1>1. IdentityTypeOK'
  BY DEF IdInv, HelloFails, NextURL, LastURL, GiveUp, world, IdentityTypeOK
<1>2. Streaks' /\ Places' /\ Distinct'
  BY DEF IdInv, IdentityTypeOK, HelloFails, NextURL, GiveUp, world, Streaks, Places, Distinct, Running, Rows, NoFile
<1>3. Kept = 0 /\ Rows' \subseteq Rows /\ faults' >= faults
  BY DEF IdInv, IdentityTypeOK, HelloFails, Kept, Rows, world
<1> QED BY <1>1, <1>2, <1>3, NothingKept DEF IdInv

\* The identity moves from the answer to the file.
LEMMA SaveStep == ASSUME IdInv, Save PROVE IdInv'
<1>1. IdentityTypeOK'
  BY DEF IdInv, Save, Saved, Adopted, world, IdentityTypeOK
<1>2. Streaks' /\ Places' /\ Distinct'
  BY DEF IdInv, IdentityTypeOK, Save, Saved, Adopted, world, Streaks, Places, Distinct, Running, Rows
<1>3. SameTokens /\ Kept' = Kept /\ faults' >= faults
  BY DEF Save, Saved, world, SameTokens, Kept, IdInv, IdentityTypeOK
<1> QED BY <1>1, <1>2, <1>3, SameKept DEF IdInv

\* The identity is lost on its way to the file.
LEMMA SaveFailsStep == ASSUME IdInv, SaveFails PROVE IdInv'
<1>1. /\ faults' = faults + 1 /\ faults' \in 0..MaxFaults
      /\ disk' \in [token : {0} \cup AgentTokens, streak : 0..(ReenrollAfter + MaxFaults)]
      /\ disk'.token \in {0, disk.token} /\ disk'.streak \in {0, disk.streak}
      /\ disk = NoFile => disk' = NoFile
  BY TornFacts DEF IdInv, SaveFails
<1>2. IdentityTypeOK'
  BY <1>1 DEF IdInv, SaveFails, GiveUp, IdentityTypeOK
<1>3. Streaks' /\ Places' /\ Distinct'
  BY <1>1 DEF IdInv, IdentityTypeOK, SaveFails, GiveUp, Streaks, Places, Distinct, Running, Rows, NoFile
<1>4. Rows' = Rows
  BY DEF SaveFails, Rows
<1> QED BY <1>1, <1>2, <1>3, <1>4, FaultPays DEF IdInv

\* The rounds of the telemetry loop.
LEMMA RoundStep == ASSUME IdInv, SendAccepted \/ SendRejected \/ SendFails PROVE IdInv'
<1>1. PICK touched : AgeRows(touched)
  BY DEF SendAccepted, SendRejected, SendFails
<1>2. SameTokens /\ rows' \in [Slots -> [token : {0} \cup AgentTokens, age : 0..Stale]]
  BY <1>1, RowsAge DEF IdInv
<1>3. pc = "wait" /\ pc' \in Running /\ Round
  BY DEF SendAccepted, SendRejected, SendFails, Running
<1>4. IdentityTypeOK'
  BY <1>2, <1>3 DEF IdInv, Round, Running, world, IdentityTypeOK
<1>5. Rows' = Rows /\ Distinct'
  BY <1>2, <1>4, TokensKept DEF IdInv
<1>6. Streaks' /\ Places'
  BY <1>3 DEF IdInv, Round, world, Streaks, Places, Running
<1>7. faults' >= faults
  BY <1>3 DEF IdInv, IdentityTypeOK, Round, world
<1>8. CASE pc' # "rejected"
  <2>1. Kept' = Kept
    BY <1>3, <1>8 DEF Kept, Round, Running, world
  <2> QED BY <1>2, <1>4, <1>5, <1>6, <1>7, <2>1, SameKept DEF IdInv
<1>9. CASE ~db
  <2>1. Kept = 0
    BY <1>9 DEF Kept
  <2> QED BY <1>4, <1>5, <1>6, <1>7, <2>1, NothingKept DEF IdInv
<1>10. CASE SendRejected /\ db
  <2>1. ~Live(mem)
    BY <1>10 DEF SendRejected
  <2>2. Kept' = 0 /\ Kept \in {0, mem}
    BY <1>3, <1>10 DEF Kept, SendRejected, Running, IdInv, Places
  <2>3. \A s \in Rows : rows[s].token # Kept
    BY <2>1, <2>2 DEF Live, IdInv, Distinct, Rows
  <2>4. Orphans' \subseteq Orphans
    BY <1>5, <2>3 DEF Orphans
  <2> QED BY <1>4, <1>5, <1>6, <1>7, <2>4, NoneAdded DEF IdInv
<1>11. SendAccepted \/ SendFails => pc' # "rejected"
  BY DEF SendAccepted, SendFails
<1> QED BY <1>8, <1>9, <1>10, <1>11 DEF IdInv, IdentityTypeOK

\* The streak ends.
LEMMA ClearAuthFailureStep == ASSUME IdInv, ClearAuthFailure PROVE IdInv'
<1>1. CASE Fault /\ disk' \in Torn
  <2>1. /\ faults' = faults + 1 /\ faults' \in 0..MaxFaults
        /\ disk' \in [token : {0} \cup AgentTokens, streak : 0..(ReenrollAfter + MaxFaults)]
        /\ disk'.token \in {0, disk.token} /\ disk'.streak \in {0, disk.streak}
    BY <1>1, TornFacts DEF IdInv
  <2>2. IdentityTypeOK'
    BY <2>1 DEF IdInv, ClearAuthFailure, IdentityTypeOK
  <2>3. Streaks' /\ Places' /\ Distinct'
    BY <2>1 DEF IdInv, IdentityTypeOK, ClearAuthFailure, Streaks, Places, Distinct, Running, Rows
  <2>4. Rows' = Rows
    BY DEF ClearAuthFailure, Rows
  <2> QED BY <2>1, <2>2, <2>3, <2>4, FaultPays DEF IdInv
<1>2. CASE ~(Fault /\ disk' \in Torn)
  <2>1. /\ faults' = faults
        /\ disk' = [disk EXCEPT !.streak = 0] \/ (disk' = disk /\ (authFails = 0 \/ disk.streak = 0))
    BY <1>2 DEF ClearAuthFailure, IdInv, IdentityTypeOK
  <2>2. IdentityTypeOK'
    BY <2>1 DEF IdInv, ClearAuthFailure, IdentityTypeOK
  <2>3. Streaks' /\ Places' /\ Distinct'
    BY <2>1 DEF IdInv, IdentityTypeOK, ClearAuthFailure, Streaks, Places, Distinct, Running, Rows
  <2>4. SameTokens /\ Kept' = Kept /\ faults' >= faults
    BY <2>1 DEF ClearAuthFailure, SameTokens, Kept, IdInv, IdentityTypeOK
  <2> QED BY <2>2, <2>3, <2>4, SameKept DEF IdInv
<1> QED BY <1>1, <1>2

\* The streak grows: a fault may have torn the file, and so lets it pass the threshold.
LEMMA NoteAuthFailureStep == ASSUME IdInv, NoteAuthFailure PROVE IdInv'
<1>1. CASE authFails >= ReenrollAfter
  <2>1. UNCHANGED <<authFails, disk, faults>>
    BY <1>1 DEF NoteAuthFailure, IdInv, IdentityTypeOK
  <2>2. IdentityTypeOK'
    BY <1>1, <2>1 DEF IdInv, NoteAuthFailure, IdentityTypeOK
  <2>3. Streaks' /\ Places' /\ Distinct'
    BY <1>1, <2>1 DEF IdInv, IdentityTypeOK, NoteAuthFailure, Streaks, Places, Distinct, Running, Rows
  <2>4. Kept = 0 /\ Rows' \subseteq Rows /\ faults' >= faults
    BY <2>1 DEF IdInv, IdentityTypeOK, NoteAuthFailure, Kept, Rows
  <2> QED BY <2>2, <2>3, <2>4, NothingKept DEF IdInv
<1>2. CASE authFails < ReenrollAfter /\ disk' = Noted(disk.streak + 1) /\ faults' = faults
  <2>1. authFails' = disk.streak + 1 /\ disk.streak + 1 <= ReenrollAfter + faults
    BY <1>2 DEF NoteAuthFailure, IdInv, IdentityTypeOK, Streaks, Running
  <2>2. IdentityTypeOK'
    BY <1>2, <2>1 DEF IdInv, NoteAuthFailure, Noted, IdentityTypeOK
  <2>3. Streaks' /\ Places' /\ Distinct'
    BY <1>2, <2>1 DEF IdInv, IdentityTypeOK, NoteAuthFailure, Noted, Streaks, Places, Distinct, Running, Rows
  <2>4. Kept = 0 /\ Rows' \subseteq Rows /\ faults' >= faults
    BY <1>2 DEF IdInv, IdentityTypeOK, NoteAuthFailure, Kept, Rows
  <2> QED BY <2>2, <2>3, <2>4, NothingKept DEF IdInv
<1>3. CASE authFails < ReenrollAfter /\ Fault /\ disk' \in Torn
  <2>1. /\ faults' = faults + 1 /\ faults' \in 0..MaxFaults
        /\ disk' \in [token : {0} \cup AgentTokens, streak : 0..(ReenrollAfter + MaxFaults)]
        /\ disk'.token \in {0, disk.token} /\ disk'.streak \in {0, disk.streak}
    BY <1>3, TornFacts DEF IdInv
  <2>2. authFails' = disk.streak + 1 /\ disk.streak + 1 <= ReenrollAfter + faults
    BY <1>3 DEF NoteAuthFailure, IdInv, IdentityTypeOK, Streaks, Running
  <2>3. IdentityTypeOK'
    BY <2>1, <2>2 DEF IdInv, NoteAuthFailure, IdentityTypeOK
  <2>4. Streaks' /\ Places' /\ Distinct'
    BY <2>1, <2>2 DEF IdInv, IdentityTypeOK, NoteAuthFailure, Streaks, Places, Distinct, Running, Rows
  <2>5. Rows' = Rows
    BY DEF NoteAuthFailure, Rows
  <2> QED BY <2>1, <2>3, <2>4, <2>5, FaultPays DEF IdInv
<1> QED BY <1>1, <1>2, <1>3 DEF NoteAuthFailure, IdInv, IdentityTypeOK

\* An identity is given up only after the hub refused it.
LEMMA ReenrollStep == ASSUME IdInv, Reenroll \/ RemoveFails PROVE IdInv'
<1>1. faults' \in 0..MaxFaults /\ faults' >= faults
  BY DEF IdInv, IdentityTypeOK, Reenroll, RemoveFails, Fault, world
<1>2. IdentityTypeOK'
  BY <1>1 DEF IdInv, Reenroll, RemoveFails, world, NoFile, IdentityTypeOK
<1>3. Streaks' /\ Places' /\ Distinct'
  BY <1>1 DEF IdInv, IdentityTypeOK, Reenroll, RemoveFails, world, NoFile, Streaks, Places, Distinct, Running, Rows
<1>4. Kept = 0 /\ Rows' \subseteq Rows
  BY DEF Reenroll, RemoveFails, Kept, Rows
<1> QED BY <1>1, <1>2, <1>3, <1>4, NothingKept DEF IdInv

\* A crash forgets nothing that is in the file.
LEMMA CrashStep == ASSUME IdInv, Crash PROVE IdInv'
<1>1. CASE pc # "save" /\ UNCHANGED <<disk, faults>>
  <2>1. IdentityTypeOK'
    BY <1>1 DEF IdInv, Crash, IdentityTypeOK
  <2>2. Streaks' /\ Places' /\ Distinct'
    BY <1>1 DEF IdInv, IdentityTypeOK, Crash, Streaks, Places, Distinct, Running, Rows
  <2>3. SameTokens /\ Rows' \subseteq Rows /\ faults' >= faults
    BY <1>1 DEF Crash, SameTokens, Rows, IdInv, IdentityTypeOK
  <2>4. Kept = 0 \/ Kept' = Kept
    BY <1>1 DEF Crash, Kept
  <2> QED BY <2>1, <2>2, <2>3, <2>4, SameKept, NothingKept DEF IdInv
<1>2. CASE Fault /\ disk' \in Torn
  <2>1. /\ faults' = faults + 1 /\ faults' \in 0..MaxFaults
        /\ disk' \in [token : {0} \cup AgentTokens, streak : 0..(ReenrollAfter + MaxFaults)]
        /\ disk'.streak \in {0, disk.streak}
    BY <1>2, TornFacts DEF IdInv
  <2>2. IdentityTypeOK'
    BY <2>1 DEF IdInv, Crash, IdentityTypeOK
  <2>3. Streaks' /\ Places' /\ Distinct'
    BY <2>1 DEF IdInv, IdentityTypeOK, Crash, Streaks, Places, Distinct, Running, Rows
  <2>4. Rows' = Rows
    BY DEF Crash, Rows
  <2> QED BY <2>1, <2>2, <2>3, <2>4, FaultPays DEF IdInv
<1> QED BY <1>1, <1>2 DEF Crash

\* A deleted row is one less.
LEMMA DeleteAgentStep == ASSUME IdInv, DeleteRow PROVE IdInv'
<1>1. PICK s \in Rows : rows' = [rows EXCEPT ![s] = NoRow]
  BY DEF DeleteRow
<1>2. s \in Slots /\ rows'[s] = NoRow /\ \A o \in Slots \ {s} : rows'[o] = rows[o]
  BY <1>1 DEF Rows, IdInv, IdentityTypeOK
<1>3. NoRow \in [token : {0} \cup AgentTokens, age : 0..Stale] /\ NoRow.token = 0
  BY DEF NoRow, Stale
<1>4. IdentityTypeOK'
  BY <1>1, <1>3 DEF IdInv, DeleteRow, agent, world, IdentityTypeOK
<1>5. Rows' = Rows \ {s}
  BY <1>2 DEF Rows
<1>6. Distinct'
  BY <1>2, <1>3, <1>5 DEF IdInv, Distinct, Rows
<1>7. Streaks' /\ Places'
  BY DEF IdInv, DeleteRow, agent, world, Streaks, Places, Running
<1>8. Kept' = Kept /\ faults' >= faults
  BY DEF DeleteRow, agent, world, Kept, IdInv, IdentityTypeOK
<1>9. Orphans' \subseteq Orphans
  BY <1>2, <1>5, <1>8 DEF Orphans, Rows
<1> QED BY <1>4, <1>6, <1>7, <1>8, <1>9, NoneAdded DEF IdInv

\* The database goes away and comes back.
LEMMA OutageStep == ASSUME IdInv, Outage \/ Disturb PROVE IdInv'
<1>1. faults' \in 0..MaxFaults /\ faults' >= faults
  BY DEF IdInv, IdentityTypeOK, Outage, Disturb, Fault
<1>2. IdentityTypeOK'
  BY <1>1 DEF IdInv, Outage, Disturb, agent, IdentityTypeOK
<1>3. Streaks' /\ Places' /\ Distinct'
  BY <1>1 DEF IdInv, IdentityTypeOK, Outage, Disturb, agent, Streaks, Places, Distinct, Running, Rows
<1>4. SameTokens /\ Rows' = Rows
  BY DEF Outage, Disturb, SameTokens, Rows
<1>5. CASE Outage /\ db
  BY <1>1, <1>2, <1>3, <1>4, <1>5, FaultPays DEF IdInv, Outage, Fault
<1>6. CASE Outage /\ ~db
  <2>1. Kept = 0
    BY <1>6 DEF Kept
  <2> QED BY <1>1, <1>2, <1>3, <1>4, <2>1, NothingKept DEF IdInv
<1>7. CASE Disturb
  <2>1. Kept' = Kept
    BY <1>7 DEF Disturb, agent, Kept
  <2> QED BY <1>1, <1>2, <1>3, <1>4, <2>1, SameKept DEF IdInv
<1> QED BY <1>5, <1>6, <1>7

\* Every step keeps the invariant.
LEMMA NextIdInv == ASSUME IdInv, [IdentityNext]_identityVars PROVE IdInv'
<1>1. CASE UNCHANGED identityVars
  <2>1. IdentityTypeOK' /\ Streaks' /\ Places' /\ Distinct'
    BY <1>1 DEF identityVars, agent, world, IdInv, IdentityTypeOK, Streaks, Places, Distinct, Running, Rows
  <2>2. SameTokens /\ Kept' = Kept /\ faults' >= faults
    BY <1>1 DEF identityVars, agent, world, SameTokens, Kept, IdInv, IdentityTypeOK
  <2> QED BY <2>1, <2>2, SameKept DEF IdInv
<1>2. CASE IdentityNext
  BY <1>2, StartStep, HelloAnsweredStep, HelloLostStep, HelloFailsStep, SaveStep, SaveFailsStep, RoundStep,
     ClearAuthFailureStep, NoteAuthFailureStep, ReenrollStep, CrashStep, DeleteAgentStep, OutageStep
  DEF IdentityNext
<1> QED BY <1>1, <1>2

\* An agent that was never started keeps it.
LEMMA InitIdInv == ASSUME IdentityInit PROVE IdInv
<1>1. Rows = {} /\ \A s \in Slots : rows[s] = NoRow
  BY DEF IdentityInit, Rows
<1>2. IdentityTypeOK
  <2>1. 0 \in 0..(ReenrollAfter + MaxFaults) /\ 0 \in 0..(Pool - 1) /\ 0 \in 0..Stale /\ 0 \in 0..MaxFaults
    BY DEF Stale
  <2>2. rows \in [Slots -> [token : {0} \cup AgentTokens, age : 0..Stale]]
    BY <2>1 DEF IdentityInit, NoRow
  <2>3. disk \in [token : {0} \cup AgentTokens, streak : 0..(ReenrollAfter + MaxFaults)]
    BY <2>1 DEF IdentityInit, NoFile
  <2> QED BY <2>1, <2>2, <2>3 DEF IdentityInit, IdentityTypeOK
<1>3. Streaks /\ Places
  BY DEF IdentityInit, NoFile, Running, Streaks, Places
<1>4. Distinct
  BY <1>1 DEF Distinct
<1>5. Orphans = {}
  BY DEF IdentityInit, Orphans, Rows
<1>6. Cardinality(Orphans) = 0
  BY <1>5, FS_EmptySet
<1> QED BY <1>2, <1>3, <1>4, <1>6 DEF IdInv, PaidFor, IdentityInit

\* The invariant holds throughout.
LEMMA IdInvariant == IdentitySpec => []IdInv
<1>1. IdentityInit => IdInv
  BY InitIdInv
<1>2. IdInv /\ [IdentityNext]_identityVars => IdInv'
  BY NextIdInv
<1> QED BY <1>1, <1>2, PTL DEF IdentitySpec

\* Type correctness of the agent's identity.
THEOREM IdentityTypeCorrect == IdentitySpec => []IdentityTypeOK
<1>1. IdInv => IdentityTypeOK
  BY DEF IdInv
<1> QED BY <1>1, IdInvariant, PTL

\* A running agent and its file never hold two identities.
THEOREM OneIdentity == IdentitySpec => []DiskMatchesMemory
<1>1. IdInv => DiskMatchesMemory
  BY DEF IdInv, Places, Running, DiskMatchesMemory
<1> QED BY <1>1, IdInvariant, PTL

\* Every row of the machine but one is paid for by a fault.
THEOREM RegistryBounded == IdentitySpec => []RowsBounded
<1>1. IdInv => RowsBounded
  BY FewRows DEF RowsBounded
<1> QED BY <1>1, IdInvariant, PTL

=============================================================================
