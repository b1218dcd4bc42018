SPECIFICATION FairSpec
CONSTANTS
  None = None
  Items = {i1}
  Cycles = {c1}
  Admins = {a1}
  MaxAttempts = 2
  BatchSize = 1
  SlowCycles = FALSE
  AsyncSwitch = FALSE
  MaxFaults = 0
  i1 = i1
  i2 = i2
  c1 = c1
  c2 = c2
  a1 = a1

PROPERTIES InitiatedIsProcessed
CHECK_DEADLOCK FALSE
