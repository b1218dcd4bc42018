SPECIFICATION Spec
CONSTANTS
  r1 = r1
  r2 = r2
  Calls = {r1, r2}
  Overlap = FALSE
  Entries = {"submit", "ogaCallback", "bulkApprove"}
  EngineTargets = {}
  Lanes <- Lane
  MaxPayments = 0
INVARIANT HoldDischarged
CHECK_DEADLOCK FALSE
