SPECIFICATION FairSpec
CONSTANTS
  Payments = {"p1"}
  Handlers = {"h1", "h2"}
  Drainers = {"d1"}
  Rows = {"r1", "r2"}
  MaxAttempts = 2
  MaxFaults = 1
PROPERTIES RetrySettles
CHECK_DEADLOCK FALSE
