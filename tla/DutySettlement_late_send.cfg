SPECIFICATION Spec
CONSTANTS
  Payments = {"p1"}
  Handlers = {"h1"}
  Drainers = {"d1", "d2"}
  Rows = {"r1"}
  MaxAttempts = 2
  MaxFaults = 1
PROPERTIES ClosedEventsAreQuiet
CHECK_DEADLOCK FALSE
