CONSTANTS
  Pool = 2
  MaxQueuedBatches = 2
  Horizon = 4
  MaxFaults = 1
SPECIFICATION Spec
INVARIANTS
  TypeOK
  QueueInOrder
  LossIsCounted
PROPERTY QueueDrains
