SPECIFICATION Spec
CONSTANTS
  None = None
  Transfers = {t1, t2}
  Payments = {p1}
  Requests = {r1, r2}
PROPERTY CancelledNotSubmitted
CHECK_DEADLOCK FALSE
