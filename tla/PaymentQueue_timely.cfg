SPECIFICATION Spec
CONSTANTS
  None = None
  Items = {i1, i2}
  Cycles = {c1, c2}
  Admins = {a1}
  MaxAttempts = 2
  BatchSize = 2
  SlowCycles = FALSE
  AsyncSwitch = FALSE
  MaxFaults = 2
  i1 = i1
  i2 = i2
  c1 = c1
  c2 = c2
  a1 = a1
SYMMETRY QueueSymmetry
INVARIANTS TypeOK ExclusiveClaim OneCondition CommittedIsSettled
PROPERTIES ImplementsLedger
CHECK_DEADLOCK FALSE
