SPECIFICATION Spec
CONSTANTS
  r1 = r1
  r2 = r2
  Calls = {r1, r2}
  Overlap = TRUE
  Entries = {"submit", "assessDuty", "updateStatus"}
  EngineTargets = {}
  Lanes <- Lane
  MaxPayments = 0
INVARIANT ReviewRecorded
CHECK_DEADLOCK FALSE
