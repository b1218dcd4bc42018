SPECIFICATION FairSpec
CONSTANTS
  a1 = a1
  a2 = a2
  o1 = o1
  o2 = o2
  Agencies = {a1, a2}
  MaxRounds = 1
  Deliveries = {d1, d2}
  Payloads <- CallbackPayloads
  Officers = {}
  Entries <- CallbackEntries
INVARIANTS TypeOK AppliedOnce
PROPERTIES DeliveryAcknowledged
CHECK_DEADLOCK FALSE
