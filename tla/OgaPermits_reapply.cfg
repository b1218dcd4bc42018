SPECIFICATION Spec
CONSTANTS
  a1 = a1
  a2 = a2
  o1 = o1
  o2 = o2
  Agencies = {a1}
  MaxRounds = 2
  Deliveries = {}
  Payloads <- RequestPayloads
  Officers = {}
  Entries <- CallbackEntries
INVARIANT ReapplicationCounts
CHECK_DEADLOCK FALSE
