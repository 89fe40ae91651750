SPECIFICATION Spec
CONSTANTS
  Replicas = {r1, r2}
  None = None
  HoursPerDay = 2
  PruneHour = 1
  Retention = 2
  MaxHour = 4
  MaxRecords = 3
  MaxFaults = 1
  MaxSetBacks = 1
CONSTRAINT Bound
INVARIANTS TypeOK ChainLinks RootsMatch HoursSealed FirstDayVerifies
SYMMETRY Symmetry
CHECK_DEADLOCK FALSE
