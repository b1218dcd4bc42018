SPECIFICATION Spec
CONSTANTS
  r1 = r1
  r2 = r2
  Calls = {r1, r2}
  Overlap = TRUE
  Entries <- OpenEntries
  EngineTargets = {}
  Lanes = {"red"}
  MaxPayments = 0
SYMMETRY CallSymmetry
INVARIANTS ReviewHadExamination ClearedWasAssessed
CHECK_DEADLOCK FALSE
