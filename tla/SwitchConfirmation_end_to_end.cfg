SPECIFICATION Spec
CONSTANTS
  t1 = t1
  d1 = d1
  d2 = d2
  None = None
  Transfers = {t1}
  KeyOf <- OneKey
  Deliveries = {d1, d2}
  TransferOf <- OnOne
  MaxFaults = 1
  Payments = {"p1"}
  Requests = {"r1", "r2"}
INVARIANTS SubmissionIsPaid
PROPERTIES ImplementsConfirmation NeverTakenBack
CHECK_DEADLOCK FALSE
