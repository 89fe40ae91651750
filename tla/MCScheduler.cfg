SPECIFICATION Spec
CONSTANTS
  Replicas = {r1, r2}
  None = None
  Orphan = Orphan
  Deleted = Deleted
  MaxFaults = 1
  Nightly = TRUE
  Period = 2
  MaxTime = 3
  MaxJobs = 2
INVARIANTS TypeOK NoBurst
PROPERTIES NothingMissed
CHECK_DEADLOCK FALSE
