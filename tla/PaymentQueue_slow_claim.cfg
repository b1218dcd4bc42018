SPECIFICATION Spec
CONSTANTS
  None = None
  Items = {i1, i2}
  Cycles = {c1, c2}
  Admins = {a1}
  MaxAttempts = 2
  BatchSize = 2
  SlowCycles = TRUE
  AsyncSwitch = FALSE
  MaxFaults = 0
  i1 = i1
  i2 = i2
  c1 = c1
  c2 = c2
  a1 = a1
SYMMETRY QueueSymmetry
INVARIANTS ExclusiveClaim
CHECK_DEADLOCK FALSE
