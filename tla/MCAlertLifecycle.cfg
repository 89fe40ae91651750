SPECIFICATION AlertSpec
CONSTANTS
  Replicas = {r1, r2}
  None = None
  Orphan = Orphan
  MaxFaults = 1
  Keys = {k1, k2}
  Bandwidth = {k2}
  AgentBandwidth = {}
  Need = 1
  Silenceable = {k1}
  Ids = {1, 2}
  NoRow = NoRow
CONSTRAINT Bound
SYMMETRY Symmetry
INVARIANTS AlertTypeOK DuplicatesExcused
