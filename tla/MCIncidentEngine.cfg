SPECIFICATION Spec
CONSTANTS
  Replicas = {r1, r2}
  None = None
  Orphan = Orphan
  MaxFaults = 1
  Alerts <- MCAlerts
  Kind <- MCKind
  Severity <- MCSeverity
  Silenceable = {"i"}
  Rules = {3}
  Short = 0
  Long = 0
  Rule5Min = 2
  Ids <- MCIds
  NoRow = NoRow
  MaxOps = 1
CONSTRAINT Bound
INVARIANTS TypeOK Explained Announced
PROPERTY Correlated
