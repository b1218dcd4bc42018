SPECIFICATION Spec
CONSTANTS
  r1 = r1
  r2 = r2
  Calls = {r1, r2}
  Overlap = TRUE
  Entries = {"submit", "cancel"}
  EngineTargets = {}
  Lanes <- Lane
  MaxPayments = 0
PROPERTY TerminalIsFinal
CHECK_DEADLOCK FALSE
