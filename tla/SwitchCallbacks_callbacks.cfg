SPECIFICATION SwitchFairSpec
CONSTANTS
  t1 = t1
  t2 = t2
  d1 = d1
  d2 = d2
  d3 = d3
  Transfers = {t1, t2}
  KeyOf <- SameKey
  Deliveries = {d1, d2, d3}
  TransferOf <- TwoOnFirst
  MaxFaults = 1
INVARIANTS SwitchTypeOK SettlementIsBacked
PROPERTIES ImplementsSettlement CommittedIsRecorded
CHECK_DEADLOCK FALSE
