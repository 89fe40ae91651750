CONSTANTS
  r1 = r1
  r2 = r2
  t1 = t1
  m1 = m1
  Requests = {r1, r2}
  Tokens = {t1}
  Static = static
  MaxUses <- MCMaxUses
  Machines = {m1}
  NoMachine = none_m
  None = None
  MaxRows = 2
  MaxSecrets = 2
SPECIFICATION Spec
SYMMETRY Symmetry
INVARIANTS
  AtMostMaxUses
PROPERTIES
  RevokedBuysNothing
  DeletedStaysDeleted
CHECK_DEADLOCK FALSE
