----------------------------- MODULE IncidentRules -----------------------------
(***************************************************************************)
(* The five fixed rules of the incident engine (internal/incident/rules.go)*)
(* for the alert events of one agent: which alerts a rule takes as its     *)
(* evidence, and the severity and risk it gives them.  Times matter only   *)
(* by their distance, so an alert has an age;  the windows are inclusive.   *)
(***************************************************************************)
EXTENDS Integers, FiniteSets, FiniteSetsExt

CONSTANTS
  Alerts, Kind, Severity,   \* alert events, and what they say
  Rules,                    \* the rules looked at, of 1..5
  Short, Long, Rule5Min     \* Config

ASSUME RulesAssumption ==
  /\ IsFiniteSet(Alerts)
  /\ Rules \subseteq 1..5
  /\ Short \in Nat /\ Long \in Nat /\ Short <= Long /\ Rule5Min \in Nat /\ Rule5Min >= 2
  /\ Severity \in [Alerts -> {"info", "warn", "crit"}]

Gone == Long + 1   \* the age of an alert that left the long window, or never was
Ages == [Alerts -> 0..Gone]

-----------------------------------------------------------------------------

sevRank(s) == IF s = "crit" THEN 3 ELSE IF s = "warn" THEN 2 ELSE 1
maxSev(s, t) == IF sevRank(s) >= sevRank(t) THEN s ELSE t

suspiciousKinds == {"proc", "port", "target", "ioc", "anomaly", "bw", "iface_util"}

\* What a rule looks for: two kinds within a window, the first pair that is there.
Window(rule) == IF rule \in {1, 2, 4} THEN Short ELSE Long
Pairs(rule) ==
  CASE rule = 1 -> <<<<"proc", "target">>, <<"proc", "ioc">>>>
    [] rule = 2 -> <<<<"proc", "port">>>>
    [] rule = 3 -> <<<<"target", "bw">>, <<"ioc", "bw">>>>
    [] rule = 4 -> <<<<"anomaly", "bw">>>>

Near(ages, a, k, w) ==
  {c \in Alerts : ages[c] # Gone /\ Kind[c] = k /\ ages[c] - ages[a] \in -w..w}

\* The most severe of S, then the newest; a keeps its place unless another is better.
Better(ages, c, d) ==
  \/ sevRank(Severity[c]) > sevRank(Severity[d])
  \/ Severity[c] = Severity[d] /\ ages[c] < ages[d]
Best(ages, a, S) ==
  LET T == {c \in S : \A d \in S : ~Better(ages, d, c)}
  IN IF a \in T THEN {a} ELSE T

\* has: the evidence comes from around the oldest alert that has both kinds near it.
has(ages, k, l, w) ==
  LET viable == {a \in Alerts : /\ ages[a] # Gone /\ Kind[a] \in {k, l}
                                /\ Near(ages, a, k, w) # {} /\ Near(ages, a, l, w) # {}}
      first == {a \in viable : \A b \in viable : ages[a] >= ages[b]}
  IN UNION { {{x, y} : x \in Best(ages, a, Near(ages, a, k, w)),
                       y \in Best(ages, a, Near(ages, a, l, w))} : a \in first }

\* clusterInWindow: alerts read together lie within the long window of each other.
clusterInWindow(ages) == {a \in Alerts : ages[a] # Gone /\ Kind[a] \in suspiciousKinds}

\* matchRules: the evidence a rule may find in alerts of these ages (the order of
\* alerts with equal times is not fixed); none if it does not match.
Evidence(rule, ages) ==
  IF rule = 5
    THEN IF Cardinality(clusterInWindow(ages)) >= Rule5Min THEN {clusterInWindow(ages)} ELSE {}
    ELSE LET Of(i) == has(ages, Pairs(rule)[i][1], Pairs(rule)[i][2], Window(rule))
             found == {i \in DOMAIN Pairs(rule) : Of(i) # {}}
         IN IF found = {} THEN {} ELSE Of(Min(found))

\* All of it, once and for all: the rules are fixed.
Found == UNION { {[rule |-> n, ages |-> f, evs |-> E] : E \in Evidence(n, f)} :
                 n \in Rules, f \in Ages }
FoundBy(n, ages) == {m.evs : m \in {x \in Found : x.rule = n /\ x.ages = ages}}

\* One match for each rule that finds evidence.
Matches(ages) ==
  LET here == {[rule |-> x.rule, evs |-> x.evs] : x \in {y \in Found : y.ages = ages}}
  IN {M \in SUBSET here : \A x \in here : Cardinality({m \in M : m.rule = x.rule}) = 1}

-----------------------------------------------------------------------------
(* mk.                                                                     *)

\* The floor of the rule, or the worst alert.
SevOf(rule, E) ==
  IF \/ rule \in {1, 2}
     \/ rule = 3 /\ \E a \in E : Kind[a] = "ioc"
     \/ rule = 5 /\ Cardinality(E) >= Rule5Min + 2
     \/ \E a \in E : Severity[a] = "crit"
    THEN "crit" ELSE "warn"

AtMost(n, x) == IF x > n THEN n ELSE x

\* The base of the rule, the severity, each piece of evidence after the second (20 at
\* most), each critical one.
riskScore(rule, E) ==
  LET extra == Cardinality(E) - 2
      crits == Cardinality({a \in E : Severity[a] = "crit"})
  IN AtMost(100, <<55, 55, 40, 35, 30>>[rule]
                 + (IF SevOf(rule, E) = "crit" THEN 25 ELSE 10)
                 + (IF extra > 0 THEN AtMost(20, 5 * extra) ELSE 0)
                 + 5 * crits)
-----------------------------------------------------------------------------
(* Facts about the rules: TLC evaluates them, and IncidentProofs proves    *)
(* the second one.                                                         *)

\* A rule of two kinds finds evidence exactly when two alerts of these kinds lie
\* within its window; the pair it shows, one alert of each kind, may then be twice
\* as far apart (rules.go:44-81).
Together(n, ages, x, y) ==
  /\ ages[x] # Gone /\ ages[y] # Gone /\ ages[x] - ages[y] \in -Window(n)..Window(n)
  /\ \E i \in DOMAIN Pairs(n) : Pairs(n)[i] = <<Kind[x], Kind[y]>>
RulesAsWritten ==
  \A n \in Rules \ {5}, ages \in Ages :
    /\ Evidence(n, ages) # {} <=> \E x, y \in Alerts : Together(n, ages, x, y)
    /\ \A E \in Evidence(n, ages) : \E x, y \in Alerts :
         /\ E = {x, y} /\ \E i \in DOMAIN Pairs(n) : Pairs(n)[i] = <<Kind[x], Kind[y]>>
         /\ ages[x] - ages[y] \in -(2 * Window(n))..(2 * Window(n))

\* Neither the severity nor the risk falls when evidence is added (rules.go:83-88,
\* 130-134, 174-201).
ScoreGrows ==
  \A n \in Rules, D, E \in SUBSET Alerts :
    D \subseteq E => /\ sevRank(SevOf(n, D)) <= sevRank(SevOf(n, E))
                    /\ riskScore(n, D) <= riskScore(n, E)
=============================================================================
