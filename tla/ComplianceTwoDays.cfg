SPECIFICATION Spec
CONSTANTS
  Replicas = {r1}
  None = None
  HoursPerDay = 2
  PruneHour = 1
  Retention = 9
  MaxHour = 5
  MaxRecords = 3
  MaxFaults = 0
  MaxSetBacks = 0
INVARIANT TwoDaysVerify
CHECK_DEADLOCK FALSE
