SPECIFICATION Spec
CONSTANTS
  MaxCalls = 3
  Contexts <- MCContexts
  Mixes <- MCMixes
  Slots = {s1, s2}
  RingSize = 1
  MaxKeys = 2
  MaxSamples = 1
  MaxFaults = 1
  None = None
INVARIANTS TypeOK ExactButForRaces
PROPERTIES BytesLedger AnswersLedger
CHECK_DEADLOCK FALSE
