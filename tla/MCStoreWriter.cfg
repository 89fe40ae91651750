CONSTANTS
  Workers = {w1, w2}
  t1 = t1
  f1 = f1
  Telemetry = {t1}
  Flows = {f1}
  NParts <- MCNParts
  MaxDeliver = 3
  FetchSize = 2
  None = None
SPECIFICATION Spec
INVARIANTS
  AckedIsStored
  OncePerDelivery
  LossTakesTwo
PROPERTY Settles
CHECK_DEADLOCK FALSE
