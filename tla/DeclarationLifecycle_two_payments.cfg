SPECIFICATION Spec
CONSTANTS
  r1 = r1
  r2 = r2
  Calls = {r1, r2}
  Overlap = FALSE
  Entries = {"submit", "assessDuty", "initiate"}
  EngineTargets = {}
  Lanes <- Lane
  MaxPayments = 2
INVARIANT OnePayment
CHECK_DEADLOCK FALSE
