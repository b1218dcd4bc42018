SPECIFICATION SwitchSpec
CONSTANTS
  t1 = t1
  t2 = t2
  d1 = d1
  d2 = d2
  d3 = d3
  Transfers = {t1, t2}
  KeyOf <- SameKey
  Deliveries = {d1, d2}
  TransferOf <- OnFirst
  MaxFaults = 0
INVARIANT DuplicateRejected
CHECK_DEADLOCK FALSE
