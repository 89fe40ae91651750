CONSTANTS
  Pool = 2
  ReenrollAfter = 3
  MaxFaults = 2
SPECIFICATION IdentitySpec
INVARIANTS
  IdentityTypeOK
  DiskMatchesMemory
  RowsBounded
PROPERTY SelfHeals
