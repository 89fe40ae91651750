SPECIFICATION Spec
CONSTANTS
  Replicas = {r1}
  None = None
  Orphan = Orphan
  MaxFaults = 1
  Alerts <- RuleAlerts
  Kind <- RuleKind
  Severity <- RuleSeverity
  Silenceable = {"i"}
  Rules = {1}
  Short = 1
  Long = 2
  Rule5Min = 2
  Ids <- MCIds
  NoRow = NoRow
  MaxOps = 1
CONSTRAINT Bound
INVARIANT WithinWindow
