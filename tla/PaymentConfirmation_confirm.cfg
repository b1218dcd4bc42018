SPECIFICATION Spec
CONSTANTS
  None = None
  Transfers = {t1, t2}
  Payments = {p1}
  Requests = {r1, r2, r3}
SYMMETRY RequestSymmetry
INVARIANTS TypeOK SubmittedOnce SubmissionBacked
CHECK_DEADLOCK FALSE
