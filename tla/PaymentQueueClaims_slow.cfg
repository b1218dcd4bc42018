SPECIFICATION ClaimsSpec
CONSTANTS
  None = "none"
  Items = {"i1"}
  Cycles = {"c1", "c2"}
  Admins = {"a1", "a2"}
  MaxAttempts = 2
  BatchSize = 2
  SlowCycles = TRUE
  AsyncSwitch = FALSE
  MaxFaults = 2
INVARIANTS ExclusiveUnlessOutrun
CHECK_DEADLOCK FALSE
