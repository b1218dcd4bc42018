SPECIFICATION FairSpec
CONSTANTS
  Payments = {"p1"}
  MaxRestarts = 0
  Careful = TRUE
PROPERTIES AbortReleases
CHECK_DEADLOCK FALSE
