SPECIFICATION AlertSpec
CONSTANTS
  Replicas = {r1, r2}
  None = None
  Orphan = Orphan
  MaxFaults = 1
  Keys = {k1, k2, k3}
  Bandwidth = {k2}
  AgentBandwidth = {k3}
  Need = 2
  Silenceable = {}
  Ids = {1}
  NoRow = NoRow
CONSTRAINT TakeoverBound
PROPERTIES Reported AutoResolves
