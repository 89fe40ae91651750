---------------------------- MODULE IncidentProofs ----------------------------
(***************************************************************************)
(* Proofs about IncidentRules and IncidentEngine, for any alerts, rules,   *)
(* windows, replicas, faults and status changes: the state is well typed,  *)
(* an incident is never worse than its evidence explains, and every rise   *)
(* is announced.                                                           *)
(***************************************************************************)
EXTENDS IncidentEngine, FiniteSetTheorems, TLAPS

-----------------------------------------------------------------------------
(* The rules.                                                              *)

\* Severities are ranked 1 to 3.
LEMMA RankType == \A s : sevRank(s) \in 1..3
  BY DEF sevRank

\* A match that raises nothing of a row is no worse than it.
LEMMA NotRaised ==
  ASSUME NEW m, NEW row, RiskIn(m) \in 0..100, row.risk \in 0..100, ~Raised(m, row)
  PROVE  sevRank(SevIn(m)) <= sevRank(row.sev) /\ RiskIn(m) <= row.risk
<1>1. sevRank(SevIn(m)) \in 1..3 /\ sevRank(row.sev) \in 1..3
  BY RankType
<1>2. sevRank(SevIn(m)) <= sevRank(row.sev)
  BY <1>1 DEF Raised
<1>3. RiskIn(m) <= row.risk
  BY DEF Raised
<1> QED BY <1>2, <1>3

\* The larger of two risks is one of them, and at least as large as both.
LEMMA LargerFacts ==
  ASSUME NEW x \in 0..100, NEW y \in 0..100
  PROVE  /\ Larger(x, y) \in {x, y} /\ Larger(x, y) >= x /\ Larger(x, y) >= y
         /\ y <= x => Larger(x, y) = x
  BY DEF Larger

\* A rule's severity is one of two.
LEMMA SevType == \A n, E : SevOf(n, E) \in {"warn", "crit"}
  BY DEF SevOf

\* The larger of two severities is one of them, and at least as severe as both.
LEMMA MaxSevBounds ==
  \A s, t : /\ maxSev(s, t) \in {s, t}
            /\ sevRank(maxSev(s, t)) >= sevRank(s) /\ sevRank(maxSev(s, t)) >= sevRank(t)
  BY RankType DEF maxSev

\* Sets of alerts are finite, and grow with their members.
LEMMA CountGrows ==
  ASSUME NEW D, NEW E \in SUBSET Alerts, D \subseteq E
  PROVE  /\ Cardinality(D) \in Nat /\ Cardinality(E) \in Nat
         /\ Cardinality(D) <= Cardinality(E)
<1>1. IsFiniteSet(E)
  BY FS_Subset, RulesAssumption DEF RulesAssumption
<1>2. IsFiniteSet(D) /\ Cardinality(D) <= Cardinality(E)
  BY <1>1, FS_Subset
<1> QED BY <1>1, <1>2, FS_CardinalityType

\* More evidence does not make an incident less severe.
LEMMA SeverityGrows ==
  ASSUME NEW n \in Rules, NEW D, NEW E \in SUBSET Alerts, D \subseteq E
  PROVE  SevOf(n, D) = "crit" => SevOf(n, E) = "crit"
<1>1. Rule5Min + 2 \in Nat
  BY RulesAssumption DEF RulesAssumption
<1> QED BY <1>1, CountGrows DEF SevOf

CritsIn(E) == {a \in E : Severity[a] = "crit"}
Extra(E) == IF Cardinality(E) - 2 > 0 THEN AtMost(20, 5 * (Cardinality(E) - 2)) ELSE 0
BySeverity(n, E) == IF SevOf(n, E) = "crit" THEN 25 ELSE 10
Base(n) == <<55, 55, 40, 35, 30>>[n]

\* The summands of the risk are natural numbers.
LEMMA SummandTypes ==
  ASSUME NEW n \in Rules, NEW E \in SUBSET Alerts
  PROVE  /\ Base(n) \in Nat /\ BySeverity(n, E) \in Nat /\ Extra(E) \in Nat
         /\ Cardinality(CritsIn(E)) \in Nat
         /\ riskScore(n, E) =
              AtMost(100, Base(n) + BySeverity(n, E) + Extra(E) + 5 * Cardinality(CritsIn(E)))
<1>1. n \in 1..5
  BY RulesAssumption DEF RulesAssumption
<1>2. Base(n) \in Nat
  BY <1>1 DEF Base
<1>3. BySeverity(n, E) \in Nat
  BY DEF BySeverity
<1>4. Extra(E) \in Nat
  BY CountGrows DEF Extra, AtMost
<1>5. Cardinality(CritsIn(E)) \in Nat
  BY CountGrows DEF CritsIn
<1>6. riskScore(n, E) =
        AtMost(100, Base(n) + BySeverity(n, E) + Extra(E) + 5 * Cardinality(CritsIn(E)))
  BY DEF riskScore, Base, BySeverity, Extra, CritsIn
<1> QED BY <1>2, <1>3, <1>4, <1>5, <1>6

\* The risk of an incident is a percentage.
LEMMA RiskType == ASSUME NEW n \in Rules, NEW E \in SUBSET Alerts PROVE riskScore(n, E) \in 0..100
<1> DEFINE k == Base(n) + BySeverity(n, E) + Extra(E) + 5 * Cardinality(CritsIn(E))
<1>1. k \in Nat /\ riskScore(n, E) = AtMost(100, k)
  BY SummandTypes
<1> HIDE DEF k
<1> QED BY <1>1 DEF AtMost

\* More evidence does not lower the risk.
LEMMA RiskGrows ==
  ASSUME NEW n \in Rules, NEW D, NEW E \in SUBSET Alerts, D \subseteq E
  PROVE  riskScore(n, D) <= riskScore(n, E)
<1>1. BySeverity(n, D) <= BySeverity(n, E)
  BY SeverityGrows DEF BySeverity
<1>2. Extra(D) <= Extra(E)
  BY CountGrows DEF Extra, AtMost
<1>3. Cardinality(CritsIn(D)) <= Cardinality(CritsIn(E))
  <2>1. CritsIn(D) \subseteq CritsIn(E) /\ CritsIn(E) \in SUBSET Alerts
    BY DEF CritsIn
  <2> QED BY <2>1, CountGrows
<1>4. D \in SUBSET Alerts
  OBVIOUS
<1> QED BY <1>1, <1>2, <1>3, <1>4, SummandTypes DEF AtMost

\* Neither the severity nor the risk that a rule gives falls when evidence is added,
\* for any alerts and any rule.
THEOREM EvidenceOnlyRaises == ScoreGrows
<1> SUFFICES ASSUME NEW n \in Rules, NEW D \in SUBSET Alerts, NEW E \in SUBSET Alerts, D \subseteq E
             PROVE  /\ sevRank(SevOf(n, D)) <= sevRank(SevOf(n, E))
                    /\ riskScore(n, D) <= riskScore(n, E)
  BY DEF ScoreGrows
<1>1. sevRank(SevOf(n, D)) <= sevRank(SevOf(n, E))
  BY SeverityGrows, SevType DEF sevRank
<1> QED BY <1>1, RiskGrows

-----------------------------------------------------------------------------
(* What the engine works on.                                               *)

\* The evidence of a rule is made of alerts.
LEMMA EvidenceType ==
  ASSUME NEW n \in Rules, NEW ages \in Ages, NEW E \in Evidence(n, ages)
  PROVE  E \in SUBSET Alerts
<1>1. ASSUME NEW k, NEW l, NEW w, NEW F \in has(ages, k, l, w) PROVE F \subseteq Alerts
  <2>1. PICK a : \E x \in Best(ages, a, Near(ages, a, k, w)),
                    y \in Best(ages, a, Near(ages, a, l, w)) : F = {x, y}
    BY <1>1 DEF has
  <2> QED BY <2>1 DEF Best, Near
<1>2. clusterInWindow(ages) \subseteq Alerts
  BY DEF clusterInWindow
<1>3. CASE n = 5
  BY <1>2, <1>3 DEF Evidence
<1>4. CASE n # 5
  BY <1>1, <1>4 DEF Evidence
<1> QED BY <1>3, <1>4

\* So the matches are well typed.
LEMMA MatchesType == ASSUME NEW ages \in Ages, NEW M \in Matches(ages) PROVE M \subseteq Match
<1> SUFFICES ASSUME NEW m \in M PROVE m \in Match
  OBVIOUS
<1>1. PICK x \in Found : x.ages = ages /\ m = [rule |-> x.rule, evs |-> x.evs]
  BY DEF Matches
<1>2. PICK n \in Rules, f \in Ages : x \in {[rule |-> n, ages |-> f, evs |-> E] : E \in Evidence(n, f)}
  BY DEF Found
<1> QED BY <1>1, <1>2, EvidenceType DEF Match

\* There is a match to go on with as long as there are any.
LEMMA CurrentType ==
  ASSUME NEW r \in Replicas, engine[r].todo \subseteq Match, engine[r].todo # {}
  PROVE  Current(r) \in engine[r].todo
<1> DEFINE T == engine[r].todo
           Lowest(m) == \A n \in T : m.rule <= n.rule
<1>1. \A m \in T : m.rule \in 1..5
  BY RulesAssumption DEF RulesAssumption, Match
<1>2. \E m \in T : Lowest(m)
  <2>1. CASE \E m \in T : m.rule = 1
    BY <1>1, <2>1
  <2>2. CASE (\E m \in T : m.rule = 2) /\ ~ \E m \in T : m.rule = 1
    BY <1>1, <2>2
  <2>3. CASE (\E m \in T : m.rule = 3) /\ ~ \E m \in T : m.rule \in 1..2
    BY <1>1, <2>3
  <2>4. CASE (\E m \in T : m.rule = 4) /\ ~ \E m \in T : m.rule \in 1..3
    BY <1>1, <2>4
  <2>5. CASE \A m \in T : m.rule = 5
    BY <1>1, <2>5
  <2> QED BY <1>1, <2>1, <2>2, <2>3, <2>4, <2>5
<1> QED BY <1>2 DEF Current, FirstOf

\* What the filter of Evaluate leaves is again ages.
LEMMA RecentType == ASSUME age \in Ages PROVE Recent \in Ages
  BY RulesAssumption DEF RulesAssumption, Recent, Ages, Gone

-----------------------------------------------------------------------------
(* The invariant.                                                          *)

Severities == {"info", "warn", "crit"}
Notices == [sev : Severities, risk : 0..100]
Places == {"away", "lookup", "create", "bump", "evidence", "notify"}
Evaluations ==
  [at : Places, todo : SUBSET Match, id : Ids \cup {NoRow}, left : SUBSET Alerts, notify : BOOLEAN]

EnvTypes == age \in Ages /\ silenced \subseteq Silenceable /\ ops \in 0..MaxOps

DataTypes ==
  /\ rows \in [Ids -> Row \cup {NoRow}]
  /\ told \in [Ids -> Notices]
  /\ lost \subseteq {"evidence", "notice"} \X Ids
  /\ engine \in [Replicas -> Evaluations]

\* One open incident for each rule.
OneOpen == \A n \in Rules : \A i, j \in Open(n) : i = j

\* Row i has the severity and the risk of m already.
Covers(i, m) == sevRank(SevIn(m)) <= sevRank(rows[i].sev) /\ RiskIn(m) <= rows[i].risk

\* An engine works on a row that exists and has the rule of its match; one that
\* is not going to notify has seen a row that covers the match.
EngineOK(r) ==
  /\ At(r, "away") <=> engine[r].todo = {}
  /\ engine[r].left # {} => At(r, "evidence")
  /\ engine[r].at \in {"bump", "evidence", "notify"} =>
       /\ engine[r].id \in Ids /\ rows[engine[r].id] # NoRow
       /\ rows[engine[r].id].rule = Current(r).rule
  /\ At(r, "bump") /\ ~engine[r].notify => Covers(engine[r].id, Current(r))
EnginesOK == \A r \in Replicas : EngineOK(r)

\* The parts of Explained and Announced.
Attached(i) == rows[i].evidence \cup Pending(i)
ExplainedAt(i) ==
  rows[i] # NoRow /\ <<"evidence", i>> \notin lost =>
    /\ sevRank(rows[i].sev) <= sevRank(SevOf(rows[i].rule, Attached(i)))
    /\ rows[i].risk <= riskScore(rows[i].rule, Attached(i))
Tells(r, i) ==
  engine[r].id = i /\ engine[r].notify = TRUE /\ engine[r].at \in {"evidence", "notify"}
Told(i) == sevRank(told[i].sev) >= sevRank(rows[i].sev) /\ told[i].risk >= rows[i].risk
AnnouncedAt(i) ==
  rows[i] = NoRow \/ Told(i) \/ <<"notice", i>> \in lost \/ \E r \in Replicas : Tells(r, i)

RowsOK == \A i \in Ids : ExplainedAt(i) /\ AnnouncedAt(i)

DInv == DataTypes /\ OneOpen /\ EnginesOK /\ RowsOK

IInv == LeaderTypeOK /\ EnvTypes /\ DInv

-----------------------------------------------------------------------------
(* What a step must keep.                                                  *)

\* The order of risks, for the provers that do no arithmetic.
LEMMA AtLeastTrans == \A x, y, z \in 0..100 : x <= y /\ z >= y => x <= z
  OBVIOUS
\* The same with the order written forwards.
LEMMA AtMostTrans == \A x, y, z \in 0..100 : x <= y /\ y <= z => x <= z
  OBVIOUS

\* The alerts attached to a row are alerts.
LEMMA AttachedType ==
  ASSUME DataTypes, NEW i \in Ids, rows[i] # NoRow
  PROVE  /\ Attached(i) \in SUBSET Alerts /\ rows[i] \in Row
         /\ rows[i].rule \in Rules /\ rows[i].sev \in {"warn", "crit"} /\ rows[i].risk \in 0..100
         /\ rows[i].evidence \in SUBSET Alerts
<1>1. rows[i] \in Row
  BY DEF DataTypes
<1>2. Pending(i) \subseteq Alerts
  BY DEF Pending, DataTypes, Evaluations
<1> QED BY <1>1, <1>2 DEF Attached, Row

\* What was being attached still is, or has been.
LEMMA AttachedKept ==
  ASSUME NEW i \in Ids, rows[i].evidence \subseteq rows'[i].evidence,
         \A q \in Replicas : engine[q].id = i =>
           \A a \in engine[q].left :
             (engine'[q].id = i /\ a \in engine'[q].left) \/ a \in rows'[i].evidence
  PROVE  Attached(i) \subseteq Attached(i)'
  BY DEF Attached, Pending

\* A row that does not get worse stays explained while nothing attached gets lost.
LEMMA StillExplained ==
  ASSUME DataTypes, DataTypes', NEW i \in Ids, ExplainedAt(i), rows[i] # NoRow, rows'[i] # NoRow,
         rows'[i].rule = rows[i].rule, rows'[i].sev = rows[i].sev, rows'[i].risk = rows[i].risk,
         lost \subseteq lost',
         Attached(i) \subseteq Attached(i)' \/ <<"evidence", i>> \in lost'
  PROVE  ExplainedAt(i)'
<1> SUFFICES ASSUME <<"evidence", i>> \notin lost'
             PROVE  /\ sevRank(rows'[i].sev) <= sevRank(SevOf(rows'[i].rule, Attached(i)'))
                    /\ rows'[i].risk <= riskScore(rows'[i].rule, Attached(i)')
  BY DEF ExplainedAt
<1> DEFINE n == rows[i].rule
<1>1. /\ n \in Rules /\ rows[i].risk \in 0..100
      /\ Attached(i) \in SUBSET Alerts /\ Attached(i)' \in SUBSET Alerts
  <2>1. /\ n \in Rules /\ rows[i].risk \in 0..100 /\ Attached(i) \in SUBSET Alerts
    BY AttachedType
  <2>2. rows'[i].evidence \subseteq Alerts
    BY DEF DataTypes, Row
  <2>3. Pending(i)' \subseteq Alerts
    BY DEF Pending, DataTypes, Evaluations
  <2> QED BY <2>1, <2>2, <2>3 DEF Attached
<1>2. /\ sevRank(SevOf(n, Attached(i))) <= sevRank(SevOf(n, Attached(i)'))
      /\ riskScore(n, Attached(i)) <= riskScore(n, Attached(i)')
  BY <1>1, EvidenceOnlyRaises DEF ScoreGrows
<1>3. /\ sevRank(rows[i].sev) <= sevRank(SevOf(n, Attached(i)))
      /\ rows[i].risk <= riskScore(n, Attached(i))
  BY DEF ExplainedAt
<1>4. riskScore(n, Attached(i)) \in 0..100 /\ riskScore(n, Attached(i)') \in 0..100
  BY <1>1, RiskType
<1>5. sevRank(rows'[i].sev) <= sevRank(SevOf(n, Attached(i)'))
  BY <1>2, <1>3, RankType
<1>6. rows'[i].risk <= riskScore(n, Attached(i)')
  BY <1>1, <1>2, <1>3, <1>4, AtMostTrans, Zenon
<1> QED BY <1>5, <1>6

\* Rows neither go away nor get better.
RowsKept ==
  \A i \in Ids : rows[i] # NoRow =>
    /\ rows'[i] # NoRow /\ rows'[i].rule = rows[i].rule
    /\ sevRank(rows'[i].sev) >= sevRank(rows[i].sev) /\ rows'[i].risk >= rows[i].risk

\* An engine that takes no step is still in order.
LEMMA OtherEngine ==
  ASSUME DataTypes, DataTypes', RowsKept, NEW q \in Replicas, EngineOK(q), engine'[q] = engine[q]
  PROVE  EngineOK(q)'
<1>1. Current(q)' = Current(q)
  BY DEF Current
<1> DEFINE i == engine[q].id  m == Current(q)
<1>2. /\ At(q, "away")' <=> engine'[q].todo = {}
      /\ engine'[q].left # {} => At(q, "evidence")'
  BY DEF EngineOK, At
<1>3. ASSUME engine[q].at \in {"bump", "evidence", "notify"}
      PROVE  i \in Ids /\ rows'[i] # NoRow /\ rows'[i].rule = m.rule
  BY <1>3 DEF EngineOK, RowsKept
<1>4. ASSUME At(q, "bump"), ~engine[q].notify PROVE Covers(i, m)'
  <2>1. i \in Ids /\ rows[i] # NoRow /\ rows'[i] # NoRow
    BY <1>4, <1>3 DEF EngineOK, At
  <2>2. m \in Match
    BY <1>4, CurrentType DEF EngineOK, At, DataTypes, Evaluations
  <2>3. RiskIn(m) \in 0..100
    BY <2>2, RiskType DEF RiskIn, Match
  <2>4. Covers(i, m)
    BY <1>4 DEF EngineOK
  <2>5. sevRank(rows'[i].sev) >= sevRank(rows[i].sev) /\ rows'[i].risk >= rows[i].risk
    BY <2>1 DEF RowsKept
  <2>6. rows[i].risk \in 0..100 /\ rows'[i].risk \in 0..100
    BY <2>1 DEF DataTypes, Row
  <2>7. sevRank(SevIn(m)) <= sevRank(rows'[i].sev)
    BY <2>4, <2>5, RankType DEF Covers
  <2>8. RiskIn(m) <= rows'[i].risk
    <3>1. RiskIn(m) <= rows[i].risk
      BY <2>4 DEF Covers
    <3>2. rows'[i].risk >= rows[i].risk
      BY <2>5
    <3> QED BY <2>3, <2>6, <3>1, <3>2, AtLeastTrans, Zenon
  <2>9. engine'[q].id = i /\ Current(q)' = m /\ SevIn(m)' = SevIn(m) /\ RiskIn(m)' = RiskIn(m)
    BY <1>1 DEF SevIn, RiskIn
  <2> QED BY <2>7, <2>8, <2>9 DEF Covers
<1> QED BY <1>1, <1>2, <1>3, <1>4 DEF EngineOK, At

\* Nothing happens to the rows: an engine that changes its state either gives up
\* nothing, or has it entered as lost.
LEMMA QuietStep ==
  ASSUME DInv, DataTypes', UNCHANGED <<rows, told>>, lost \subseteq lost',
         \A q \in Replicas :
           \/ engine'[q] = engine[q]
           \/ /\ EngineOK(q)'
              /\ engine[q].left = {} \/ <<"evidence", engine[q].id>> \in lost'
              /\ \A i \in Ids : Tells(q, i) => Tells(q, i)' \/ <<"notice", i>> \in lost'
  PROVE  DInv'
<1> USE DEF DInv
<1>1. OneOpen'
  BY DEF OneOpen, Open, IsOpen
<1>2. EnginesOK'
  <2>1. RowsKept
    BY AttachedType, RankType DEF RowsKept
  <2> QED BY <2>1, OtherEngine DEF EnginesOK
<1>3. ASSUME NEW i \in Ids PROVE ExplainedAt(i)'
  <2>1. CASE rows[i] = NoRow
    BY <2>1 DEF ExplainedAt
  <2>2. CASE rows[i] # NoRow
    <3>1. Attached(i) \subseteq Attached(i)' \/ <<"evidence", i>> \in lost'
      BY AttachedKept
    <3> QED BY <2>2, <3>1, StillExplained DEF RowsOK
  <2> QED BY <2>1, <2>2
<1>4. ASSUME NEW i \in Ids PROVE AnnouncedAt(i)'
  <2>1. Told(i) => Told(i)'
    BY DEF Told
  <2>2. ASSUME NEW q \in Replicas, Tells(q, i) PROVE Tells(q, i)' \/ <<"notice", i>> \in lost'
    BY <2>2 DEF Tells
  <2> QED BY <2>1, <2>2 DEF RowsOK, AnnouncedAt
<1> QED BY <1>1, <1>2, <1>3, <1>4 DEF RowsOK

-----------------------------------------------------------------------------
(* One tick of one engine.                                                 *)

\* The match under way, in any place but "away".
LEMMA CurrentMatch ==
  ASSUME DataTypes, NEW r \in Replicas, EngineOK(r), ~At(r, "away")
  PROVE  /\ Current(r) \in engine[r].todo /\ Current(r) \in Match
         /\ SevIn(Current(r)) \in {"warn", "crit"} /\ RiskIn(Current(r)) \in 0..100
<1>1. engine[r].todo \subseteq Match /\ engine[r].todo # {}
  BY DEF DataTypes, Evaluations, EngineOK
<1>2. Current(r) \in engine[r].todo /\ Current(r) \in Match
  BY <1>1, CurrentType
<1> QED BY <1>2, SevType, RiskType DEF SevIn, RiskIn, Match

\* Going on to the next match.
LEMMA OnwardType ==
  ASSUME DataTypes, NEW r \in Replicas
  PROVE  /\ Onward(r) \in Evaluations /\ Onward(r).left = {} /\ Onward(r).notify = FALSE
         /\ Onward(r).at \in {"away", "lookup"}
         /\ Onward(r).at = "away" <=> Onward(r).todo = {}
  BY DEF Onward, Away, DataTypes, Evaluations, Places

\* An engine whose only step is to go on is in order.
LEMMA OnwardOK ==
  ASSUME DataTypes, NEW r \in Replicas, engine' = [engine EXCEPT ![r] = Onward(r)]
  PROVE  engine' \in [Replicas -> Evaluations] /\ EngineOK(r)'
<1>1. engine' \in [Replicas -> Evaluations] /\ engine'[r] = Onward(r)
  BY OnwardType DEF DataTypes
<1> QED BY <1>1, OnwardType DEF EngineOK, At

\* Nothing is given up outside of "evidence" and "notify".
LEMMA NothingInHand ==
  ASSUME DInv, NEW r \in Replicas, engine[r].at \notin {"evidence", "notify"}
  PROVE  engine[r].left = {} /\ \A i \in Ids : ~Tells(r, i)
  BY DEF DInv, EnginesOK, EngineOK, At, Tells

\* A tick finds well typed matches to work on.
LEMMA TickDInv == ASSUME DInv, EnvTypes, NEW r \in Replicas, TickBegins(r) PROVE DInv'
<1>1. PICK todo \in Matches(Recent) \ {{}} :
        engine' = [engine EXCEPT ![r] = [Away EXCEPT !.at = "lookup", !.todo = todo]]
  BY DEF TickBegins
<1>2. todo \subseteq Match /\ todo # {}
  BY RecentType, MatchesType DEF EnvTypes
<1>3. [Away EXCEPT !.at = "lookup", !.todo = todo] \in Evaluations
  BY <1>2 DEF Away, Evaluations, Places
<1>4. DataTypes' /\ engine'[r] = [Away EXCEPT !.at = "lookup", !.todo = todo]
  BY <1>1, <1>3 DEF DInv, DataTypes, TickBegins
<1>5. EngineOK(r)'
  BY <1>2, <1>4 DEF EngineOK, At, Away
<1>6. \A q \in Replicas \ {r} : engine'[q] = engine[q]
  BY <1>1 DEF DInv, DataTypes
<1> QED BY <1>4, <1>5, <1>6, NothingInHand, QuietStep DEF TickBegins, At

\* The engine announces nothing only about a row that covers the match already.
LEMMA LookupDInv == ASSUME DInv, NEW r \in Replicas, Lookup(r) PROVE DInv'
<1>1. EngineOK(r) /\ DataTypes
  BY DEF DInv, EnginesOK
<1>2. UNCHANGED <<rows, told>> /\ lost' = lost /\ engine[r].at = "lookup" /\ ~At(r, "away")
  BY DEF Lookup, At
<1>3. /\ engine' \in [Replicas -> Evaluations] /\ EngineOK(r)'
      /\ \A q \in Replicas \ {r} : engine'[q] = engine[q]
  <2>1. CASE OpenByCorrelation(Current(r).rule) = {}
    <3>1. engine' = [engine EXCEPT ![r].at = "create"]
      BY <2>1 DEF Lookup
    <3> QED BY <1>1, <1>2, <3>1 DEF DataTypes, Evaluations, Places, EngineOK, At
  <2>2. CASE OpenByCorrelation(Current(r).rule) # {}
    <3>1. PICK i \in OpenByCorrelation(Current(r).rule) :
            engine' = [engine EXCEPT ![r].at = "bump", ![r].id = i,
                                     ![r].notify = Raised(Current(r), rows[i])]
      BY <2>2 DEF Lookup
    <3>2. i \in Ids /\ rows[i] # NoRow /\ rows[i].rule = Current(r).rule
      BY DEF OpenByCorrelation, Open, IsOpen
    <3>3. Raised(Current(r), rows[i]) \in BOOLEAN
      BY DEF Raised
    <3>4. /\ engine' \in [Replicas -> Evaluations]
          /\ \A q \in Replicas \ {r} : engine'[q] = engine[q]
          /\ engine'[r] = [engine[r] EXCEPT !.at = "bump", !.id = i,
                                            !.notify = Raised(Current(r), rows[i])]
      <4>1. engine[r] \in Evaluations
        BY <1>1 DEF DataTypes
      <4> DEFINE e == [engine[r] EXCEPT !.at = "bump", !.id = i,
                                        !.notify = Raised(Current(r), rows[i])]
      <4>2. e \in Evaluations
        BY <4>1, <3>2, <3>3 DEF Evaluations, Places
      <4>3. engine' = [engine EXCEPT ![r] = e]
        BY <3>1
      <4> HIDE DEF e
      <4>4. engine' \in [Replicas -> Evaluations] /\ engine'[r] = e
        BY <1>1, <4>2, <4>3 DEF DataTypes
      <4>5. \A q \in Replicas \ {r} : engine'[q] = engine[q]
        BY <1>1, <4>3 DEF DataTypes
      <4> QED BY <4>4, <4>5 DEF e
    <3>5. /\ engine'[r].at = "bump" /\ engine'[r].id = i /\ engine'[r].todo = engine[r].todo
          /\ engine'[r].notify = Raised(Current(r), rows[i]) /\ engine'[r].left = engine[r].left
      BY <1>1, <3>4 DEF DataTypes, Evaluations
    <3>6. Current(r)' = Current(r)
      BY <3>5 DEF Current
    <3>7. ~Raised(Current(r), rows[i]) => Covers(i, Current(r))
      <4>1. SevIn(Current(r)) \in {"warn", "crit"} /\ RiskIn(Current(r)) \in 0..100
        BY <1>1, <1>2, CurrentMatch
      <4>2. rows[i].sev \in {"warn", "crit"} /\ rows[i].risk \in 0..100
        BY <1>1, <3>2, AttachedType
      <4> QED BY <4>1, <4>2, NotRaised, Zenon DEF Covers
    <3>8. Covers(engine[r].id, Current(r))' <=> Covers(i, Current(r))
      BY <1>2, <3>5, <3>6 DEF Covers, SevIn, RiskIn
    <3>9. EngineOK(r)'
      BY <1>1, <1>2, <3>2, <3>5, <3>6, <3>7, <3>8 DEF EngineOK, At
    <3> QED BY <3>4, <3>9
  <2> QED BY <2>1, <2>2
<1>4. DataTypes'
  BY <1>1, <1>2, <1>3 DEF DataTypes
<1>5. engine[r].left = {} /\ \A i \in Ids : ~Tells(r, i)
  BY <1>2, NothingInHand
<1> QED BY <1>2, <1>3, <1>4, <1>5, QuietStep

\* A statement that fails, or is refused, leaves all as it is.
LEMMA SkipDInv ==
  ASSUME DInv, NEW r \in Replicas, engine[r].at \in {"lookup", "create", "bump"},
         UNCHANGED <<rows, told, lost>>, engine' = [engine EXCEPT ![r] = Onward(r)]
  PROVE  DInv'
<1>1. engine' \in [Replicas -> Evaluations] /\ EngineOK(r)'
  BY OnwardOK DEF DInv
<1>2. DataTypes'
  BY <1>1 DEF DInv, DataTypes
<1>3. \A q \in Replicas \ {r} : engine'[q] = engine[q]
  BY DEF DInv, DataTypes
<1>4. engine[r].left = {} /\ \A i \in Ids : ~Tells(r, i)
  BY NothingInHand
<1> QED BY <1>1, <1>2, <1>3, <1>4, QuietStep

\* What Written makes of an engine that has a match to write.
LEMMA WrittenType ==
  ASSUME DataTypes, NEW r \in Replicas, EngineOK(r), ~At(r, "away"),
         NEW i \in Ids, NEW b \in BOOLEAN, engine' = [engine EXCEPT ![r] = Written(r, i, b)]
  PROVE  /\ engine' \in [Replicas -> Evaluations]
         /\ \A q \in Replicas \ {r} : engine'[q] = engine[q]
         /\ engine'[r].at = "evidence" /\ engine'[r].id = i /\ engine'[r].notify = b
         /\ engine'[r].left = Current(r).evs /\ engine'[r].todo = engine[r].todo
<1>1. Current(r).evs \in SUBSET Alerts
  BY CurrentMatch DEF Match
<1>2. Written(r, i, b) \in Evaluations
  BY <1>1 DEF Written, DataTypes, Evaluations, Places
<1>3. /\ Written(r, i, b).at = "evidence" /\ Written(r, i, b).id = i /\ Written(r, i, b).notify = b
      /\ Written(r, i, b).left = Current(r).evs /\ Written(r, i, b).todo = engine[r].todo
  BY DEF Written, DataTypes, Evaluations
<1> QED BY <1>2, <1>3 DEF DataTypes

\* A row that has the severity and the risk of a match is explained by the evidence
\* of the match.
LEMMA MatchExplains ==
  ASSUME NEW m \in Match, NEW E \in SUBSET Alerts, m.evs \subseteq E
  PROVE  /\ sevRank(SevIn(m)) <= sevRank(SevOf(m.rule, E))
         /\ RiskIn(m) <= riskScore(m.rule, E)
<1>1. m.rule \in Rules /\ m.evs \in SUBSET Alerts
  BY DEF Match
<1> QED BY <1>1, EvidenceOnlyRaises DEF ScoreGrows, SevIn, RiskIn

\* A new row is explained by the evidence that its engine has in hand.
LEMMA CreateDInv == ASSUME DInv, NEW r \in Replicas, Create(r) PROVE DInv'
<1> DEFINE m == Current(r)
           row == [rule |-> m.rule, status |-> "open", sev |-> SevIn(m),
                   risk |-> RiskIn(m), evidence |-> {}]
<1>1. EngineOK(r) /\ DataTypes /\ ~At(r, "away") /\ engine[r].at = "create"
      /\ told' = told /\ lost' = lost
  BY DEF DInv, EnginesOK, Create, At
<1>2. m \in Match /\ SevIn(m) \in {"warn", "crit"} /\ RiskIn(m) \in 0..100
  BY <1>1, CurrentMatch
<1>3. engine[r].left = {} /\ \A i \in Ids : ~Tells(r, i)
  BY <1>1, NothingInHand
<1>4. CASE Refused(m.rule)
  BY <1>1, <1>4, SkipDInv DEF Create
<1>5. CASE ~Refused(m.rule)
  <2>1. PICK i \in Free : /\ rows' = [rows EXCEPT ![i] = row]
                          /\ engine' = [engine EXCEPT ![r] = Written(r, i, TRUE)]
    BY <1>5 DEF Create
  <2>2. i \in Ids /\ rows[i] = NoRow
    BY DEF Free
  <2>3. row \in Row /\ row # NoRow
    BY <1>2, EngineAssumption DEF EngineAssumption, Row, Match
  <2>4. /\ engine' \in [Replicas -> Evaluations]
        /\ \A q \in Replicas \ {r} : engine'[q] = engine[q]
        /\ engine'[r].at = "evidence" /\ engine'[r].id = i /\ engine'[r].notify = TRUE
        /\ engine'[r].left = m.evs /\ engine'[r].todo = engine[r].todo
    BY <1>1, <2>1, <2>2, WrittenType
  <2>5. DataTypes' /\ rows'[i] = row /\ \A j \in Ids \ {i} : rows'[j] = rows[j]
    BY <1>1, <2>1, <2>2, <2>3, <2>4 DEF DataTypes
  <2> HIDE DEF row
  <2>6. row.rule = m.rule /\ row.sev = SevIn(m) /\ row.risk = RiskIn(m) /\ row.evidence = {}
    BY DEF row
  <2>7. OneOpen'
    <3>1. Open(m.rule) = {}
      BY <1>5 DEF Refused
    <3> QED BY <2>2, <2>5, <2>6, <3>1 DEF DInv, OneOpen, Open, IsOpen
  <2>8. EnginesOK'
    <3>1. RowsKept
      BY <1>1, <2>2, <2>5, AttachedType, RankType DEF RowsKept
    <3>2. ASSUME NEW q \in Replicas \ {r} PROVE EngineOK(q)'
      BY <1>1, <2>4, <2>5, <3>1, OtherEngine DEF DInv, EnginesOK
    <3>3. Current(r)' = m
      BY <2>4 DEF Current
    <3>4. EngineOK(r)'
      BY <1>1, <2>2, <2>3, <2>4, <2>5, <2>6, <3>3 DEF EngineOK, At
    <3> QED BY <3>2, <3>4 DEF EnginesOK
  <2>9. ASSUME NEW j \in Ids PROVE ExplainedAt(j)' /\ AnnouncedAt(j)'
    <3>1. CASE j = i
      <4>1. Attached(i)' \in SUBSET Alerts /\ m.evs \subseteq Attached(i)'
        <5>1. rows'[i].evidence = {}
          BY <2>5, <2>6
        <5>2. m.evs \subseteq Pending(i)' /\ Pending(i)' \subseteq Alerts
          BY <2>4 DEF Pending, Evaluations
        <5> QED BY <5>1, <5>2 DEF Attached
      <4>2. ExplainedAt(i)'
        BY <1>2, <2>5, <2>6, <4>1, MatchExplains DEF ExplainedAt
      <4>3. Tells(r, i)'
        BY <2>4 DEF Tells
      <4> QED BY <3>1, <4>2, <4>3 DEF AnnouncedAt
    <3>2. CASE j # i
      <4>1. rows'[j] = rows[j] /\ told'[j] = told[j]
        BY <1>1, <2>5, <3>2
      <4>2. CASE rows[j] = NoRow
        BY <4>1, <4>2 DEF ExplainedAt, AnnouncedAt
      <4>3. CASE rows[j] # NoRow
        <5>1. Attached(j) \subseteq Attached(j)'
          BY <1>3, <2>4, <4>1, AttachedKept
        <5>2. ExplainedAt(j)'
          BY <1>1, <2>5, <4>1, <4>3, <5>1, StillExplained DEF DInv, RowsOK
        <5>3. ASSUME NEW q \in Replicas, Tells(q, j) PROVE Tells(q, j)'
          BY <1>3, <2>4, <5>3 DEF Tells
        <5>4. Told(j) => Told(j)'
          BY <4>1 DEF Told
        <5> QED BY <1>1, <4>1, <5>2, <5>3, <5>4 DEF DInv, RowsOK, AnnouncedAt
      <4> QED BY <4>2, <4>3
    <3> QED BY <3>1, <3>2
  <2> QED BY <2>5, <2>7, <2>8, <2>9 DEF DInv, RowsOK
<1> QED BY <1>4, <1>5

\* A bump raises its row to the match, or leaves it alone if it covers the match.
LEMMA BumpDInv == ASSUME DInv, NEW r \in Replicas, Bump(r) PROVE DInv'
<1> DEFINE m == Current(r)
<1>1. EngineOK(r) /\ DataTypes /\ ~At(r, "away") /\ engine[r].at = "bump"
      /\ told' = told /\ lost' = lost
  BY DEF DInv, EnginesOK, Bump, At
<1>2. m \in Match /\ SevIn(m) \in {"warn", "crit"} /\ RiskIn(m) \in 0..100
  BY <1>1, CurrentMatch
<1>3. engine[r].left = {} /\ \A j \in Ids : ~Tells(r, j)
  BY <1>1, NothingInHand
<1>4. PICK i \in Ids : /\ i = engine[r].id /\ rows[i] # NoRow /\ rows[i].rule = m.rule
                      /\ engine[r].notify \in BOOLEAN
  BY <1>1 DEF EngineOK, DataTypes, Evaluations
<1>5. ~engine[r].notify => Covers(i, m)
  BY <1>1, <1>4 DEF EngineOK, At
<1>6. rows[i] \in Row /\ rows[i].sev \in {"warn", "crit"} /\ rows[i].risk \in 0..100
  BY <1>1, <1>4, AttachedType
<1>7. /\ engine' \in [Replicas -> Evaluations]
      /\ \A q \in Replicas \ {r} : engine'[q] = engine[q]
      /\ engine'[r].at = "evidence" /\ engine'[r].id = i /\ engine'[r].notify = engine[r].notify
      /\ engine'[r].left = m.evs /\ engine'[r].todo = engine[r].todo
  BY <1>1, <1>4, WrittenType DEF Bump
<1> DEFINE s == maxSev(rows[i].sev, SevIn(m))
           k == Larger(rows[i].risk, RiskIn(m))
<1>8. s \in {"warn", "crit"} /\ k \in 0..100
  BY <1>2, <1>6, MaxSevBounds DEF Larger
<1>9. rows' = [rows EXCEPT ![i] = [rows[i] EXCEPT !.sev = s, !.risk = k]]
  BY <1>4 DEF Bump
<1>10. /\ [rows[i] EXCEPT !.sev = s, !.risk = k] \in Row
       /\ [rows[i] EXCEPT !.sev = s, !.risk = k].rule = rows[i].rule
       /\ [rows[i] EXCEPT !.sev = s, !.risk = k].status = rows[i].status
       /\ [rows[i] EXCEPT !.sev = s, !.risk = k].evidence = rows[i].evidence
       /\ [rows[i] EXCEPT !.sev = s, !.risk = k].sev = s
       /\ [rows[i] EXCEPT !.sev = s, !.risk = k].risk = k
  <2> HIDE DEF s, k
  <2> QED BY <1>6, <1>8 DEF Row
<1>11. /\ rows' \in [Ids -> Row \cup {NoRow}] /\ \A j \in Ids \ {i} : rows'[j] = rows[j]
       /\ rows'[i] \in Row /\ rows'[i] # NoRow
       /\ rows'[i].rule = rows[i].rule /\ rows'[i].status = rows[i].status
       /\ rows'[i].evidence = rows[i].evidence /\ rows'[i].sev = s /\ rows'[i].risk = k
  <2> HIDE DEF s, k
  <2> QED BY <1>1, <1>4, <1>9, <1>10, EngineAssumption DEF EngineAssumption, DataTypes
<1>12. DataTypes'
  BY <1>1, <1>7, <1>11 DEF DataTypes
<1>13. /\ sevRank(s) >= sevRank(rows[i].sev) /\ k >= rows[i].risk
       /\ s = rows[i].sev \/ s = SevIn(m)
       /\ k = rows[i].risk \/ k = RiskIn(m)
       /\ ~engine[r].notify => s = rows[i].sev /\ k = rows[i].risk
  <2>1. sevRank(s) >= sevRank(rows[i].sev) /\ (s = rows[i].sev \/ s = SevIn(m))
    BY MaxSevBounds
  <2>2. k >= rows[i].risk /\ (k = rows[i].risk \/ k = RiskIn(m))
    BY <1>2, <1>6, LargerFacts
  <2>3. ~engine[r].notify => s = rows[i].sev
    BY <1>5, RankType DEF Covers, maxSev
  <2>4. ~engine[r].notify => k = rows[i].risk
    <3>1. ~engine[r].notify => RiskIn(m) <= rows[i].risk
      BY <1>5 DEF Covers
    <3> QED BY <1>2, <1>6, <3>1, LargerFacts
  <2> QED BY <2>1, <2>2, <2>3, <2>4
<1> HIDE DEF s, k, m
<1>14. OneOpen'
  <2>1. \A j \in Ids : /\ rows'[j] = NoRow <=> rows[j] = NoRow
                       /\ rows'[j].rule = rows[j].rule /\ rows'[j].status = rows[j].status
    BY <1>4, <1>11
  <2> QED BY <2>1 DEF DInv, OneOpen, Open, IsOpen
<1>15. EnginesOK'
  <2>1. RowsKept
    <3>1. ASSUME NEW j \in Ids, rows[j] # NoRow
          PROVE  sevRank(rows[j].sev) \in Nat /\ rows[j].risk \in Nat
      BY <1>1, <3>1, AttachedType, RankType
    <3> QED BY <1>11, <1>13, <3>1 DEF RowsKept
  <2>2. ASSUME NEW q \in Replicas \ {r} PROVE EngineOK(q)'
    BY <1>1, <1>7, <1>12, <2>1, OtherEngine DEF DInv, EnginesOK
  <2>3. Current(r)' = m
    BY <1>7 DEF Current, m
  <2>4. EngineOK(r)'
    BY <1>1, <1>4, <1>7, <1>11, <2>3 DEF EngineOK, At
  <2> QED BY <2>2, <2>4 DEF EnginesOK
<1>16. ASSUME NEW j \in Ids PROVE Attached(j) \subseteq Attached(j)'
  <2>1. rows[j].evidence \subseteq rows'[j].evidence
    BY <1>11
  <2> QED BY <1>3, <1>7, <2>1, AttachedKept
<1>17. ASSUME NEW j \in Ids \ {i} PROVE ExplainedAt(j)' /\ AnnouncedAt(j)'
  <2>1. rows'[j] = rows[j] /\ told'[j] = told[j]
    BY <1>1, <1>11
  <2>2. ExplainedAt(j)'
    <3>1. CASE rows[j] = NoRow
      BY <2>1, <3>1 DEF ExplainedAt
    <3>2. CASE rows[j] # NoRow
      BY <1>1, <1>12, <1>16, <2>1, <3>2, StillExplained DEF DInv, RowsOK
    <3> QED BY <3>1, <3>2
  <2>3. ASSUME NEW q \in Replicas, Tells(q, j) PROVE Tells(q, j)'
    BY <1>3, <1>7, <2>3 DEF Tells
  <2>4. Told(j) => Told(j)'
    BY <2>1 DEF Told
  <2> QED BY <1>1, <2>1, <2>2, <2>3, <2>4 DEF DInv, RowsOK, AnnouncedAt
<1>18. ExplainedAt(i)'
  <2> SUFFICES ASSUME <<"evidence", i>> \notin lost
               PROVE  /\ sevRank(s) <= sevRank(SevOf(m.rule, Attached(i)'))
                      /\ k <= riskScore(m.rule, Attached(i)')
    BY <1>1, <1>4, <1>11 DEF ExplainedAt
  <2>1. Attached(i)' \in SUBSET Alerts /\ m.evs \subseteq Attached(i)'
    <3>1. rows'[i].evidence \subseteq Alerts
      BY <1>11 DEF Row
    <3>2. m.evs \subseteq Pending(i)' /\ Pending(i)' \subseteq Alerts
      BY <1>4, <1>7 DEF Pending, Evaluations
    <3> QED BY <3>1, <3>2 DEF Attached
  <2>2. /\ sevRank(SevIn(m)) <= sevRank(SevOf(m.rule, Attached(i)'))
        /\ RiskIn(m) <= riskScore(m.rule, Attached(i)')
    BY <1>2, <2>1, MatchExplains
  <2>3. /\ sevRank(rows[i].sev) <= sevRank(SevOf(m.rule, Attached(i)))
        /\ rows[i].risk <= riskScore(m.rule, Attached(i))
    BY <1>4 DEF ExplainedAt, DInv, RowsOK
  <2>4. m.rule \in Rules /\ Attached(i) \in SUBSET Alerts
    BY <1>1, <1>2, <1>4, AttachedType DEF Match
  <2>5. /\ sevRank(SevOf(m.rule, Attached(i))) <= sevRank(SevOf(m.rule, Attached(i)'))
        /\ riskScore(m.rule, Attached(i)) <= riskScore(m.rule, Attached(i)')
    BY <1>4, <1>16, <2>1, <2>4, EvidenceOnlyRaises DEF ScoreGrows
  <2>6. riskScore(m.rule, Attached(i)) \in 0..100 /\ riskScore(m.rule, Attached(i)') \in 0..100
    BY <2>1, <2>4, RiskType
  <2>7. rows[i].risk <= riskScore(m.rule, Attached(i)')
    BY <1>6, <2>3, <2>5, <2>6, AtMostTrans, Zenon
  <2>8. sevRank(rows[i].sev) <= sevRank(SevOf(m.rule, Attached(i)'))
    BY <2>3, <2>5, RankType
  <2> QED BY <1>13, <2>2, <2>7, <2>8
<1>19. AnnouncedAt(i)'
  <2>1. CASE engine[r].notify
    BY <1>4, <1>7, <2>1 DEF AnnouncedAt, Tells
  <2>2. CASE ~engine[r].notify
    <3>1. Told(i) => Told(i)'
      BY <1>1, <1>11, <1>13, <2>2 DEF Told
    <3>2. ASSUME NEW q \in Replicas, Tells(q, i) PROVE Tells(q, i)'
      BY <1>3, <1>4, <1>7, <3>2 DEF Tells
    <3> QED BY <1>1, <1>4, <3>1, <3>2 DEF DInv, RowsOK, AnnouncedAt
  <2> QED BY <2>1, <2>2
<1>20. RowsOK'
  BY <1>17, <1>18, <1>19 DEF RowsOK
<1> QED BY <1>12, <1>14, <1>15, <1>20 DEF DInv

\* After one piece of evidence the engine still has the others in hand, and still
\* means to notify if it did.
LEMMA AfterEvidenceType ==
  ASSUME DataTypes, NEW r \in Replicas, EngineOK(r), At(r, "evidence"), NEW a \in engine[r].left,
         RowsKept, engine' = [engine EXCEPT ![r] = AfterEvidence(r, a)]
  PROVE  /\ engine' \in [Replicas -> Evaluations] /\ EngineOK(r)'
         /\ \A q \in Replicas \ {r} : engine'[q] = engine[q]
         /\ \A b \in engine[r].left \ {a} : b \in engine'[r].left /\ engine'[r].id = engine[r].id
         /\ \A i \in Ids : Tells(r, i) => Tells(r, i)'
<1> DEFINE rest == engine[r].left \ {a}
           e == [engine[r] EXCEPT !.left = rest]
           f == [e EXCEPT !.at = "notify"]
<1>1. engine[r] \in Evaluations
  BY DEF DataTypes
<1>2. /\ e \in Evaluations /\ e.left = rest /\ e.at = engine[r].at /\ e.id = engine[r].id
      /\ e.todo = engine[r].todo /\ e.notify = engine[r].notify
  BY <1>1 DEF Evaluations
<1> HIDE DEF e
<1>3. /\ f \in Evaluations /\ f.left = rest /\ f.at = "notify" /\ f.id = engine[r].id
      /\ f.todo = engine[r].todo /\ f.notify = engine[r].notify
  BY <1>2 DEF Evaluations, Places
<1> HIDE DEF f
<1>4. AfterEvidence(r, a) = IF rest # {} THEN e ELSE IF engine[r].notify THEN f ELSE Onward(r)
  BY <1>2 DEF AfterEvidence, e, f
<1>5. AfterEvidence(r, a) \in Evaluations
  BY <1>2, <1>3, <1>4, OnwardType
<1>6. engine' \in [Replicas -> Evaluations] /\ engine'[r] = AfterEvidence(r, a)
      /\ \A q \in Replicas \ {r} : engine'[q] = engine[q]
  BY <1>5 DEF DataTypes
<1>7. CASE rest = {} /\ ~engine[r].notify
  BY <1>4, <1>6, <1>7, OnwardType DEF EngineOK, At, Tells
<1>8. CASE rest # {} \/ engine[r].notify
  <2>1. /\ engine'[r].todo = engine[r].todo /\ engine'[r].id = engine[r].id
        /\ engine'[r].notify = engine[r].notify /\ engine'[r].left = rest
        /\ engine'[r].at = IF rest # {} THEN "evidence" ELSE "notify"
    BY <1>2, <1>3, <1>4, <1>6, <1>8 DEF At
  <2>2. Current(r)' = Current(r)
    BY <2>1 DEF Current
  <2>3. EngineOK(r)'
    BY <2>1, <2>2 DEF EngineOK, At, RowsKept
  <2> QED BY <1>6, <2>1, <2>3 DEF Tells
<1> QED BY <1>7, <1>8

\* A piece of evidence moves from the hand of the engine to the row.
LEMMA AddEvidenceDInv == ASSUME DInv, NEW r \in Replicas, AddEvidence(r) PROVE DInv'
<1>1. EngineOK(r) /\ DataTypes /\ At(r, "evidence") /\ told' = told /\ lost' = lost
  BY DEF DInv, EnginesOK, AddEvidence
<1>2. PICK i \in Ids : i = engine[r].id /\ rows[i] # NoRow
  BY <1>1 DEF EngineOK, At
<1>3. PICK a \in engine[r].left : rows' = Added(i, a)
                                  /\ engine' = [engine EXCEPT ![r] = AfterEvidence(r, a)]
  BY <1>2 DEF AddEvidence
<1> DEFINE E == rows[i].evidence \cup {a}
<1>4. rows[i] \in Row /\ E \in SUBSET Alerts
  BY <1>1, <1>2, AttachedType DEF DataTypes, Evaluations
<1> DEFINE row == [rows[i] EXCEPT !.evidence = E]
<1>5. row \in Row /\ row.evidence = E /\ row.rule = rows[i].rule /\ row.status = rows[i].status
      /\ row.sev = rows[i].sev /\ row.risk = rows[i].risk
  BY <1>4 DEF Row
<1>6. rows' = [rows EXCEPT ![i] = row]
  BY <1>3 DEF Added
<1> HIDE DEF row
<1>7. /\ rows' \in [Ids -> Row \cup {NoRow}] /\ \A j \in Ids \ {i} : rows'[j] = rows[j]
      /\ rows'[i] = row /\ rows'[i] # NoRow
  BY <1>1, <1>5, <1>6, EngineAssumption DEF EngineAssumption, DataTypes
<1>8. \A j \in Ids : /\ rows'[j] = NoRow <=> rows[j] = NoRow
                     /\ rows'[j].rule = rows[j].rule /\ rows'[j].status = rows[j].status
                     /\ rows'[j].sev = rows[j].sev /\ rows'[j].risk = rows[j].risk
                     /\ rows[j].evidence \subseteq rows'[j].evidence
  BY <1>2, <1>5, <1>7
<1>9. RowsKept
  BY <1>1, <1>8, AttachedType, RankType DEF RowsKept
<1>10. /\ engine' \in [Replicas -> Evaluations] /\ EngineOK(r)'
       /\ \A q \in Replicas \ {r} : engine'[q] = engine[q]
       /\ \A b \in engine[r].left \ {a} : b \in engine'[r].left /\ engine'[r].id = engine[r].id
       /\ \A j \in Ids : Tells(r, j) => Tells(r, j)'
  BY <1>1, <1>3, <1>9, AfterEvidenceType
<1>11. DataTypes'
  BY <1>1, <1>7, <1>10 DEF DataTypes
<1>12. OneOpen'
  BY <1>8 DEF DInv, OneOpen, Open, IsOpen
<1>13. EnginesOK'
  BY <1>1, <1>9, <1>10, <1>11, OtherEngine DEF DInv, EnginesOK
<1>14. ASSUME NEW j \in Ids PROVE ExplainedAt(j)' /\ AnnouncedAt(j)'
  <2>1. Attached(j) \subseteq Attached(j)'
    <3>1. \A q \in Replicas : engine[q].id = j => \A b \in engine[q].left :
            (engine'[q].id = j /\ b \in engine'[q].left) \/ b \in rows'[j].evidence
      BY <1>2, <1>5, <1>7, <1>10
    <3> QED BY <1>8, <3>1, AttachedKept
  <2>2. ExplainedAt(j)'
    <3>1. CASE rows[j] = NoRow
      BY <1>8, <3>1 DEF ExplainedAt
    <3>2. CASE rows[j] # NoRow
      BY <1>1, <1>8, <1>11, <2>1, <3>2, StillExplained DEF DInv, RowsOK
    <3> QED BY <3>1, <3>2
  <2>3. ASSUME NEW q \in Replicas, Tells(q, j) PROVE Tells(q, j)'
    BY <1>10, <2>3 DEF Tells
  <2>4. Told(j) => Told(j)'
    BY <1>1, <1>8 DEF Told
  <2> QED BY <1>1, <1>8, <2>2, <2>3, <2>4 DEF DInv, RowsOK, AnnouncedAt
<1> QED BY <1>11, <1>12, <1>13, <1>14 DEF DInv, RowsOK

\* One that is skipped is entered as lost.
LEMMA AddEvidenceFailsDInv == ASSUME DInv, NEW r \in Replicas, AddEvidenceFails(r) PROVE DInv'
<1>1. EngineOK(r) /\ DataTypes /\ At(r, "evidence") /\ UNCHANGED <<rows, told>>
  BY DEF DInv, EnginesOK, AddEvidenceFails
<1>2. engine[r].id \in Ids
  BY <1>1 DEF EngineOK, At
<1>3. PICK a \in engine[r].left : engine' = [engine EXCEPT ![r] = AfterEvidence(r, a)]
  BY DEF AddEvidenceFails
<1>4. RowsKept
  BY <1>1, AttachedType, RankType DEF RowsKept
<1>5. /\ engine' \in [Replicas -> Evaluations] /\ EngineOK(r)'
      /\ \A q \in Replicas \ {r} : engine'[q] = engine[q]
      /\ \A j \in Ids : Tells(r, j) => Tells(r, j)'
  BY <1>1, <1>3, <1>4, AfterEvidenceType
<1>6. lost' = lost \cup {<<"evidence", engine[r].id>>}
  BY DEF AddEvidenceFails
<1>7. DataTypes'
  BY <1>1, <1>2, <1>5, <1>6 DEF DataTypes
<1> QED BY <1>1, <1>5, <1>6, <1>7, QuietStep

\* A notice tells the severity and the risk that the row has.
LEMMA NotifyDInv == ASSUME DInv, NEW r \in Replicas, Notify(r) PROVE DInv'
<1>1. EngineOK(r) /\ DataTypes /\ At(r, "notify") /\ rows' = rows /\ lost' = lost
  BY DEF DInv, EnginesOK, Notify
<1>2. PICK i \in Ids : i = engine[r].id /\ rows[i] # NoRow
  BY <1>1 DEF EngineOK, At
<1>3. /\ told' = [told EXCEPT ![i] = [sev |-> rows[i].sev, risk |-> rows[i].risk]]
      /\ engine' = [engine EXCEPT ![r] = Onward(r)]
  BY <1>2 DEF Notify
<1>4. engine' \in [Replicas -> Evaluations] /\ EngineOK(r)'
      /\ \A q \in Replicas \ {r} : engine'[q] = engine[q]
  BY <1>1, <1>3, OnwardOK DEF DataTypes
<1>5. rows[i].sev \in {"warn", "crit"} /\ rows[i].risk \in 0..100
  BY <1>1, <1>2, AttachedType
<1>6. [sev |-> rows[i].sev, risk |-> rows[i].risk] \in Notices
  BY <1>5 DEF Notices, Severities
<1>7. DataTypes' /\ \A j \in Ids \ {i} : told'[j] = told[j]
  BY <1>1, <1>3, <1>4, <1>6 DEF DataTypes
<1>8. told'[i].sev = rows[i].sev /\ told'[i].risk = rows[i].risk
  BY <1>1, <1>3 DEF DataTypes
<1>9. OneOpen'
  BY <1>1 DEF DInv, OneOpen, Open, IsOpen
<1>10. EnginesOK'
  <2>1. RowsKept
    BY <1>1, AttachedType, RankType DEF RowsKept
  <2> QED BY <1>1, <1>4, <1>7, <2>1, OtherEngine DEF DInv, EnginesOK
<1>11. ASSUME NEW j \in Ids PROVE ExplainedAt(j)' /\ AnnouncedAt(j)'
  <2>1. ExplainedAt(j)'
    <3>1. CASE rows[j] = NoRow
      BY <1>1, <3>1 DEF ExplainedAt
    <3>2. CASE rows[j] # NoRow
      <4>1. engine[r].left = {}
        BY <1>1 DEF EngineOK, At
      <4>2. Attached(j) \subseteq Attached(j)'
        BY <1>1, <1>4, <4>1, AttachedKept
      <4> QED BY <1>1, <1>7, <3>2, <4>2, StillExplained DEF DInv, RowsOK
    <3> QED BY <3>1, <3>2
  <2>2. CASE j = i
    BY <1>1, <1>5, <1>8, <2>1, <2>2, RankType DEF AnnouncedAt, Told
  <2>3. CASE j # i
    <3>1. Told(j) => Told(j)'
      BY <1>1, <1>7, <2>3 DEF Told
    <3>2. ASSUME NEW q \in Replicas, Tells(q, j) PROVE Tells(q, j)'
      BY <1>2, <1>4, <2>3, <3>2 DEF Tells
    <3> QED BY <1>1, <2>1, <3>1, <3>2 DEF DInv, RowsOK, AnnouncedAt
  <2> QED BY <2>2, <2>3
<1> QED BY <1>7, <1>9, <1>10, <1>11 DEF DInv, RowsOK

\* One that fails is entered as lost.
LEMMA NotifyFailsDInv == ASSUME DInv, NEW r \in Replicas, NotifyFails(r) PROVE DInv'
<1>1. EngineOK(r) /\ DataTypes /\ At(r, "notify") /\ UNCHANGED <<rows, told>>
  BY DEF DInv, EnginesOK, NotifyFails
<1>2. engine[r].id \in Ids /\ engine[r].left = {}
  BY <1>1 DEF EngineOK, At
<1>3. engine' = [engine EXCEPT ![r] = Onward(r)] /\ lost' = lost \cup {<<"notice", engine[r].id>>}
  BY DEF NotifyFails
<1>4. engine' \in [Replicas -> Evaluations] /\ EngineOK(r)'
      /\ \A q \in Replicas \ {r} : engine'[q] = engine[q]
  BY <1>1, <1>3, OnwardOK DEF DataTypes
<1>5. DataTypes'
  BY <1>1, <1>2, <1>3, <1>4 DEF DataTypes
<1>6. \A i \in Ids : Tells(r, i) => <<"notice", i>> \in lost'
  BY <1>3 DEF Tells
<1> QED BY <1>1, <1>2, <1>3, <1>4, <1>5, <1>6, QuietStep

-----------------------------------------------------------------------------
(* Operators and the end of processes.                                     *)

\* A status changes nothing else, and the unique index keeps one open row.
LEMMA SetStatusDInv ==
  ASSUME DInv, NEW i \in Ids, NEW s \in {"open", "investigating", "resolved", "closed"},
         SetStatus(i, s)
  PROVE  DInv'
<1>1. DataTypes /\ rows[i] # NoRow /\ rows[i] \in Row /\ UNCHANGED <<engine, told, lost>>
      /\ rows' = [rows EXCEPT ![i].status = s]
  BY AttachedType DEF DInv, SetStatus
<1> DEFINE row == [rows[i] EXCEPT !.status = s]
<1>2. row \in Row /\ row.evidence = rows[i].evidence /\ row.rule = rows[i].rule /\ row.status = s
      /\ row.sev = rows[i].sev /\ row.risk = rows[i].risk
  BY <1>1 DEF Row
<1>3. rows' = [rows EXCEPT ![i] = row]
  BY <1>1
<1> HIDE DEF row
<1>4. /\ rows' \in [Ids -> Row \cup {NoRow}] /\ \A j \in Ids \ {i} : rows'[j] = rows[j]
      /\ rows'[i] = row /\ rows'[i] # NoRow
  BY <1>1, <1>2, <1>3, EngineAssumption DEF EngineAssumption, DataTypes
<1>5. \A j \in Ids : /\ rows'[j] = NoRow <=> rows[j] = NoRow
                     /\ rows'[j].rule = rows[j].rule /\ rows'[j].sev = rows[j].sev
                     /\ rows'[j].risk = rows[j].risk /\ rows'[j].evidence = rows[j].evidence
  BY <1>1, <1>2, <1>4
<1>6. DataTypes'
  BY <1>1, <1>4 DEF DataTypes
<1>7. OneOpen'
  <2>1. s \in {"open", "investigating"} => Open(rows[i].rule) \subseteq {i}
    BY DEF SetStatus
  <2>2. ASSUME NEW j \in Ids, IsOpen(j)', j # i PROVE IsOpen(j)
    BY <1>4, <2>2 DEF IsOpen
  <2>3. IsOpen(i)' => s \in {"open", "investigating"}
    BY <1>2, <1>4 DEF IsOpen
  <2> QED BY <1>5, <2>1, <2>2, <2>3 DEF DInv, OneOpen, Open
<1>8. EnginesOK'
  <2>1. RowsKept
    BY <1>1, <1>5, AttachedType, RankType DEF RowsKept
  <2> QED BY <1>1, <1>6, <2>1, OtherEngine DEF DInv, EnginesOK
<1>9. ASSUME NEW j \in Ids PROVE ExplainedAt(j)' /\ AnnouncedAt(j)'
  <2>1. Attached(j)' = Attached(j)
    BY <1>1, <1>5 DEF Attached, Pending
  <2>2. Told(j)' <=> Told(j)
    BY <1>1, <1>5 DEF Told
  <2>3. \A q \in Replicas : Tells(q, j)' <=> Tells(q, j)
    BY <1>1 DEF Tells
  <2> QED BY <1>1, <1>5, <2>1, <2>2, <2>3 DEF DInv, RowsOK, ExplainedAt, AnnouncedAt
<1> QED BY <1>6, <1>7, <1>8, <1>9 DEF DInv, RowsOK

\* What an engine takes with it when its process dies is entered as lost.
LEMMA LostWithAll ==
  ASSUME DInv, NEW r \in Replicas
  PROVE  /\ LostWith(r) \subseteq {"evidence", "notice"} \X Ids
         /\ engine[r].left = {} \/ <<"evidence", engine[r].id>> \in LostWith(r)
         /\ \A i \in Ids : Tells(r, i) => <<"notice", i>> \in LostWith(r)
<1>1. EngineOK(r)
  BY DEF DInv, EnginesOK
<1>2. engine[r].at \in {"evidence", "notify"} => engine[r].id \in Ids
  BY <1>1 DEF EngineOK
<1>3. LostWith(r) \subseteq {"evidence", "notice"} \X Ids
  BY <1>2 DEF LostWith
<1>4. engine[r].left = {} \/ <<"evidence", engine[r].id>> \in LostWith(r)
  BY <1>1 DEF EngineOK, At, LostWith
<1>5. \A i \in Ids : Tells(r, i) => <<"notice", i>> \in LostWith(r)
  BY DEF Tells, LostWith
<1> QED BY <1>3, <1>4, <1>5

\* So the death of any processes keeps the invariant.
LEMMA DeathDInv ==
  ASSUME DInv, UNCHANGED <<rows, told>>, NEW D \in SUBSET Replicas,
         engine' = [r \in Replicas |-> IF r \in D THEN Away ELSE engine[r]],
         lost' = lost \cup UNION {LostWith(r) : r \in D}
  PROVE  DInv'
<1>1. Away \in Evaluations
  BY DEF Away, Evaluations, Places
<1>2. engine' \in [Replicas -> Evaluations]
  BY <1>1 DEF DInv, DataTypes
<1>3. lost' \subseteq {"evidence", "notice"} \X Ids
  <2>1. \A r \in D : LostWith(r) \subseteq {"evidence", "notice"} \X Ids
    BY LostWithAll
  <2>2. UNION {LostWith(r) : r \in D} \subseteq {"evidence", "notice"} \X Ids
    BY <2>1, Zenon
  <2>3. lost \subseteq {"evidence", "notice"} \X Ids
    BY DEF DInv, DataTypes
  <2> QED BY <2>2, <2>3, Zenon
<1>4. DataTypes'
  BY <1>2, <1>3 DEF DInv, DataTypes
<1>5. ASSUME NEW q \in D
      PROVE  /\ EngineOK(q)'
             /\ engine[q].left = {} \/ <<"evidence", engine[q].id>> \in lost'
             /\ \A i \in Ids : Tells(q, i) => <<"notice", i>> \in lost'
  <2>1. engine'[q] = Away
    OBVIOUS
  <2>2. EngineOK(q)'
    BY <2>1 DEF EngineOK, At, Away
  <2> QED BY <2>2, LostWithAll
<1> QED BY <1>4, <1>5, QuietStep

-----------------------------------------------------------------------------
(* The election, alerts and time.                                          *)

\* What the proofs need to know of the election (LeaderRolesProofs has the rest).
LEMMA ElectionTypes == ASSUME LeaderTypeOK, LeaderNext PROVE LeaderTypeOK'
<1> USE LeaderAssumption DEF LeaderAssumption, LeaderTypeOK
<1>1. Fault => faults' \in 0..MaxFaults
  BY DEF Fault
<1>2. CASE Reap
  BY <1>2 DEF Reap
<1>3. ASSUME NEW r \in Replicas, Tick(r) PROVE LeaderTypeOK'
  BY <1>3 DEF Tick, Acquire, StepDown, Drop
<1>4. ASSUME NEW r \in Replicas, Keep(r) PROVE LeaderTypeOK'
  BY <1>4 DEF Keep, leaderVars
<1>5. ASSUME NEW r \in Replicas, AcquireFails(r) PROVE LeaderTypeOK'
  BY <1>1, <1>5 DEF AcquireFails
<1>6. ASSUME NEW r \in Replicas, PingTimesOut(r) PROVE LeaderTypeOK'
  BY <1>1, <1>6 DEF PingTimesOut, Drop
<1>7. ASSUME NEW r \in Replicas, Release(r) PROVE LeaderTypeOK'
  BY <1>7 DEF Release, Closed
<1>8. ASSUME NEW r \in Replicas, ConnBreaks(r) PROVE LeaderTypeOK'
  BY <1>1, <1>8 DEF ConnBreaks, Closed
<1>9. ASSUME NEW r \in Replicas, Stop(r) PROVE LeaderTypeOK'
  BY <1>1, <1>9 DEF Stop
<1>10. ASSUME NEW r \in Replicas, Crash(r) PROVE LeaderTypeOK'
  BY <1>1, <1>10 DEF Crash, Closed
<1>11. ASSUME NEW r \in Replicas, Restart(r) PROVE LeaderTypeOK'
  BY <1>11 DEF Restart
<1> QED
  BY <1>2, <1>3, <1>4, <1>5, <1>6, <1>7, <1>8, <1>9, <1>10, <1>11 DEF LeaderNext

\* A fault by itself.
LEMMA FaultTypes ==
  ASSUME LeaderTypeOK, Fault, UNCHANGED <<up, lock, releasing, holder, broken>>
  PROVE  LeaderTypeOK'
  BY LeaderAssumption DEF LeaderAssumption, LeaderTypeOK, Fault

\* Alerts and time keep to their types.
LEMMA AlertsEnv ==
  ASSUME EnvTypes, TimePasses \/ \E a \in Alerts : AlertFires(a) \/ AckAlert(a)
  PROVE  EnvTypes'
<1>1. Long \in Nat
  BY RulesAssumption DEF RulesAssumption
<1> USE DEF EnvTypes, Ages, Gone
<1>2. CASE TimePasses
  BY <1>1, <1>2 DEF TimePasses, AtMost
<1>3. ASSUME NEW a \in Alerts, AlertFires(a) PROVE EnvTypes'
  BY <1>1, <1>3 DEF AlertFires
<1>4. ASSUME NEW a \in Alerts, AckAlert(a) PROVE EnvTypes'
  BY <1>4 DEF AckAlert
<1> QED BY <1>2, <1>3, <1>4

-----------------------------------------------------------------------------
(* The invariant is one.                                                   *)

\* It holds at first.
LEMMA InitIInv == Init => IInv
<1> SUFFICES ASSUME Init PROVE IInv
  OBVIOUS
<1>1. LeaderTypeOK
  <2>1. MaxFaults \in Nat
    BY LeaderAssumption DEF LeaderAssumption
  <2> QED BY <2>1 DEF Init, LeaderInit, LeaderTypeOK
<1>2. EnvTypes
  BY RulesAssumption, EngineAssumption DEF RulesAssumption, EngineAssumption, Init, EnvTypes, Ages, Gone
<1>3. DataTypes
  BY DEF Init, DataTypes, Untold, Notices, Severities, Away, Evaluations, Places
<1>4. OneOpen
  BY DEF Init, OneOpen, Open, IsOpen
<1>5. EnginesOK
  BY DEF Init, EnginesOK, EngineOK, At, Away
<1>6. RowsOK
  BY DEF Init, RowsOK, ExplainedAt, AnnouncedAt
<1> QED BY <1>1, <1>2, <1>3, <1>4, <1>5, <1>6 DEF IInv, DInv

\* Every step of an engine keeps it.
LEMMA EngineStep ==
  ASSUME IInv, NEW r \in Replicas, Engine(r) \/ StatementFails(r) \/ AddEvidenceFails(r) \/ NotifyFails(r)
  PROVE  IInv'
<1> USE DEF IInv
<1>1. EnvTypes'
  BY DEF EnvTypes, alertVars, Engine, TickBegins, Lookup, Create, Bump, AddEvidence, Notify,
         StatementFails, AddEvidenceFails, NotifyFails
<1>2. LeaderTypeOK'
  <2>1. CASE Engine(r)
    BY <2>1 DEF LeaderTypeOK, leaderVars, Engine, TickBegins, Lookup, Create, Bump, AddEvidence, Notify
  <2>2. CASE StatementFails(r) \/ AddEvidenceFails(r) \/ NotifyFails(r)
    BY <2>2, FaultTypes DEF StatementFails, AddEvidenceFails, NotifyFails
  <2> QED BY <2>1, <2>2
<1>3. DInv'
  <2>1. CASE StatementFails(r)
    BY <2>1, SkipDInv DEF StatementFails
  <2> QED BY <2>1, TickDInv, LookupDInv, CreateDInv, BumpDInv, AddEvidenceDInv, NotifyDInv,
             AddEvidenceFailsDInv, NotifyFailsDInv DEF Engine
<1> QED BY <1>1, <1>2, <1>3

\* Nothing that the proofs look at changes.
LEMMA SameDInv == ASSUME DInv, UNCHANGED <<rows, engine, told, lost>> PROVE DInv'
<1>1. DataTypes'
  BY DEF DInv, DataTypes
<1> QED BY <1>1, QuietStep

\* The invariant is inductive.
LEMMA NextIInv == IInv /\ [Next]_vars => IInv'
<1> SUFFICES ASSUME IInv, [Next]_vars PROVE IInv'
  OBVIOUS
<1>1. CASE UNCHANGED vars
  <2>1. LeaderTypeOK' /\ EnvTypes'
    BY <1>1 DEF IInv, vars, leaderVars, alertVars, LeaderTypeOK, EnvTypes
  <2> QED BY <1>1, <2>1, SameDInv DEF IInv, vars
<1>2. CASE Election
  <2> DEFINE D == up \ up'
  <2>1. LeaderTypeOK' /\ D \subseteq Replicas
    BY <1>2, ElectionTypes DEF Election, IInv, LeaderTypeOK
  <2>2. EnvTypes' /\ UNCHANGED <<rows, told>>
    BY <1>2 DEF Election, IInv, EnvTypes, alertVars
  <2>3. DInv'
    BY <1>2, <2>1, <2>2, DeathDInv DEF Election, IInv
  <2> QED BY <2>1, <2>2, <2>3 DEF IInv
<1>3. CASE TimePasses \/ \E a \in Alerts : AlertFires(a) \/ AckAlert(a)
  <2>1. UNCHANGED <<leaderVars, rows, engine, told, lost>>
    BY <1>3 DEF TimePasses, AlertFires, AckAlert
  <2>2. LeaderTypeOK'
    BY <2>1 DEF IInv, leaderVars, LeaderTypeOK
  <2> QED BY <1>3, <2>1, <2>2, AlertsEnv, SameDInv DEF IInv
<1>4. ASSUME NEW r \in Replicas, Drains(r) PROVE IInv'
  <2>1. LeaderTypeOK'
    BY <1>4, ElectionTypes DEF Drains, LeaderNext, IInv
  <2>2. EnvTypes'
    BY <1>4 DEF Drains, IInv, EnvTypes, alertVars
  <2> QED BY <1>4, <2>1, <2>2, SameDInv DEF Drains, IInv
<1>5. ASSUME NEW r \in Replicas, Killed(r) PROVE IInv'
  <2>1. LeaderTypeOK'
    BY <1>5 DEF Killed, leaderVars, IInv, LeaderTypeOK
  <2>2. EnvTypes' /\ UNCHANGED <<rows, told>>
    BY <1>5 DEF Killed, IInv, EnvTypes, alertVars
  <2>3. engine' = [q \in Replicas |-> IF q \in {r} THEN Away ELSE engine[q]]
    BY <1>5 DEF Killed, IInv, DInv, DataTypes
  <2>4. lost' = lost \cup UNION {LostWith(q) : q \in {r}}
    BY <1>5 DEF Killed
  <2>5. DInv'
    BY <2>2, <2>3, <2>4, DeathDInv DEF IInv
  <2> QED BY <2>1, <2>2, <2>5 DEF IInv
<1>6. ASSUME NEW i \in Ids, NEW s \in {"open", "investigating", "resolved", "closed"}, SetStatus(i, s)
      PROVE  IInv'
  <2>1. LeaderTypeOK'
    BY <1>6 DEF SetStatus, leaderVars, IInv, LeaderTypeOK
  <2>2. EnvTypes'
    BY <1>6, EngineAssumption DEF EngineAssumption, SetStatus, alertVars, IInv, EnvTypes
  <2> QED BY <1>6, <2>1, <2>2, SetStatusDInv DEF IInv
<1> QED BY <1>1, <1>2, <1>3, <1>4, <1>5, <1>6, EngineStep DEF Next

\* It holds throughout.
LEMMA Invariant == Spec => []IInv
  BY InitIInv, NextIInv, PTL DEF Spec

-----------------------------------------------------------------------------
(* What follows from it.                                                   *)

\* Type correctness: the election, the incidents and the engines keep to their types,
\* there is at most one open incident for each rule (the unique index of migration
\* 0018), and an engine only ever writes to an incident that exists.
THEOREM TypeCorrect == Spec => []TypeOK
<1>1. IInv => TypeOK
  <2> SUFFICES ASSUME IInv PROVE TypeOK
    OBVIOUS
  <2> USE DEF IInv, DInv
  <2>1. ASSUME NEW n \in Rules PROVE Cardinality(Open(n)) <= 1
    <3>1. CASE Open(n) = {}
      BY <3>1, FS_EmptySet
    <3>2. CASE \E i : Open(n) = {i}
      <4>1. PICK i : Open(n) = {i}
        BY <3>2
      <4>2. Cardinality({i}) = 1
        BY FS_Singleton
      <4> QED BY <4>1, <4>2
    <3> QED BY <3>1, <3>2 DEF OneOpen
  <2>2. \A i \in Ids : rows[i] # NoRow => rows[i] \in Row
    BY AttachedType
  <2>3. ASSUME NEW r \in Replicas
        PROVE  /\ engine[r].at \in {"away", "lookup", "create", "bump", "evidence", "notify"}
               /\ engine[r].todo \subseteq Match /\ engine[r].left \subseteq Alerts
               /\ At(r, "away") <=> engine[r].todo = {}
               /\ engine[r].at \in {"bump", "evidence", "notify"} => rows[engine[r].id] # NoRow
    BY DEF DataTypes, Evaluations, Places, EnginesOK, EngineOK
  <2> QED BY <2>1, <2>2, <2>3 DEF TypeOK, EnvTypes, DataTypes, Notices, Severities
<1> QED BY <1>1, Invariant, PTL

\* No incident is more severe or riskier than its evidence explains, however many
\* evaluations, leaders and operators have worked on it, unless a piece of that
\* evidence was lost to an error or a crash.
THEOREM SeverityExplained == Spec => []Explained
<1>1. IInv => Explained
  BY DEF IInv, DInv, RowsOK, Explained, ExplainedAt, Attached
<1> QED BY <1>1, Invariant, PTL

\* Every rise of an incident is announced or about to be, unless a fault took the
\* notice.
THEOREM RisesAnnounced == Spec => []Announced
<1>1. IInv => Announced
  BY DEF IInv, DInv, RowsOK, Announced, AnnouncedAt, Told, Tells
<1> QED BY <1>1, Invariant, PTL
=============================================================================
