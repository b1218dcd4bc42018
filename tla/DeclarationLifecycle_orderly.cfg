SPECIFICATION Spec
CONSTANTS
  r1 = r1
  r2 = r2
  Calls = {r1, r2}
  Overlap = FALSE
  Entries <- OrderlyEntries
  EngineTargets <- OrderlyTargets
  Lanes <- Lane
  MaxPayments = 2
SYMMETRY CallSymmetry
INVARIANTS TypeOK HoldDischarged ReviewRecorded
CHECK_DEADLOCK FALSE
