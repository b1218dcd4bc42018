SPECIFICATION Spec
CONSTANTS
  r1 = r1
  r2 = r2
  Calls = {r1, r2}
  Overlap = TRUE
  Entries <- OverlapEntries
  EngineTargets <- OverlapTargets
  Lanes = {"blue"}
  MaxPayments = 0
SYMMETRY CallSymmetry
PROPERTIES ClearanceIsEarned StatusFollowsTable
CHECK_DEADLOCK FALSE
