SPECIFICATION LeaderSpec
CONSTANTS
  Replicas = {r1, r2, r3}
  None = None
  Orphan = Orphan
  MaxFaults = 3
INVARIANT StaleOnlyIfBroken
PROPERTY SettlesOnOne
