--------------------------- MODULE MCIncidentEngine ---------------------------
\* Instance of IncidentEngine for TLC: two replicas, and the third rule with a new
\* target, a critical IOC match and high traffic, which find each other in turn.
EXTENDS IncidentEngine

MCAlerts == {"t", "i", "b"}
MCKind == [a \in MCAlerts |-> CASE a = "t" -> "target" [] a = "i" -> "ioc" [] a = "b" -> "bw"]
MCSeverity == [a \in MCAlerts |-> CASE a = "t" -> "info" [] a = "i" -> "crit" [] a = "b" -> "warn"]
MCIds == 1..(Cardinality(Rules) + MaxOps)

\* Bound: a behaviour has a fault or a status change.
Bound == faults = 0 \/ ops = 0

\* For IncidentWindow.cfg: two processes and an IOC match.
RuleAlerts == {"p", "q", "i"}
RuleKind == [a \in RuleAlerts |-> IF a = "i" THEN "ioc" ELSE "proc"]
RuleSeverity == [a \in RuleAlerts |-> IF a = "p" THEN "crit" ELSE "info"]

ASSUME RulesAsWritten /\ ScoreGrows
=============================================================================
