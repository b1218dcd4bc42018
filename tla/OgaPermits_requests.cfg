SPECIFICATION Spec
CONSTANTS
  a1 = a1
  a2 = a2
  o1 = o1
  o2 = o2
  Agencies = {a1, a2}
  MaxRounds = 1
  Deliveries = {d1}
  Payloads <- RequestPayloads
  Officers = {o1, o2}
  Entries <- AllEntries
SYMMETRY OfficerSymmetry
INVARIANT ClearanceBacked
PROPERTIES DecidedIsFinal
CHECK_DEADLOCK FALSE
