SPECIFICATION FairSpec
CONSTANTS
  Payments = {"p1"}
  MaxRestarts = 1
  Careful = TRUE
PROPERTIES RestartFailsClosed
CHECK_DEADLOCK FALSE
