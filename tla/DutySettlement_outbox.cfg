SPECIFICATION FairSpec
CONSTANTS
  Payments = {"p1"}
  Handlers = {"h1", "h2"}
  Drainers = {"d1", "d2"}
  Rows = {"r1", "r2"}
  MaxAttempts = 3
  MaxFaults = 2
INVARIANTS TypeOK EventsAreBacked CompletedHasEvent SendsAreCounted
PROPERTIES ImplementsOutbox EventsLeaveOutbox CommittedLeavesFlight
CHECK_DEADLOCK FALSE
