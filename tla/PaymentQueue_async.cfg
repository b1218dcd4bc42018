SPECIFICATION FairSpec
CONSTANTS
  None = None
  Items = {i1, i2}
  Cycles = {c1, c2}
  Admins = {a1}
  MaxAttempts = 2
  BatchSize = 1
  SlowCycles = FALSE
  AsyncSwitch = TRUE
  MaxFaults = 1
  i1 = i1
  i2 = i2
  c1 = c1
  c2 = c2
  a1 = a1
INVARIANTS MirrorBacked
PROPERTIES CommittedIsFinal QueuedIsDecided
CHECK_DEADLOCK FALSE
