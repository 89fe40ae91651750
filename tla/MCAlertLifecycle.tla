-------------------------- MODULE MCAlertLifecycle --------------------------
\* Instances of AlertLifecycle for TLC: two replicas, a condition of each kind.
EXTENDS AlertLifecycle, TLC

Symmetry == Permutations(Replicas)

\* Where k has left a trace: in the network, in the database, in a replica.
Traces(r) == engine[r].todo \cup {engine[r].key} \cup cool[r] \cup clearing[r] \cup cache[r]
InUse ==
  {k \in Keys : \/ k \in cond \cup exempt \cup silences
                \/ \E i \in Ids : rows[i] # NoRow /\ rows[i].key = k
                \/ \E r \in Replicas : k \in Traces(r) \/ (k \in Counted /\ count[r][k] # 0)}

\* Bound: the conditions do not come at the same time.
OneKey == Cardinality(InUse) <= 1

\* Bound: while there is a maintenance window, or a replica still knows one,
\* nothing fails or at most one replica runs.
Windows == silences # {} \/ \E r \in Replicas : cache[r] # {}
Bound == OneKey /\ (Windows => Cardinality(up) <= 1 \/ faults = 0)

\* Bound: no fault while a counted condition is there.
TakeoverBound == OneKey /\ (InUse \cap Counted # {} => faults = 0)
=============================================================================
