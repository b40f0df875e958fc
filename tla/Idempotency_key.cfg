\* Four requests on one key, past its expiry.
CONSTANTS
  q1 = q1
  q2 = q2
  q3 = q3
  q4 = q4
  b1 = b1
  b2 = b2
  none = none
  None = none
  Requests <- FourRequests
  Bodies <- TwoBodies
  Lease = 1
  Ttl = 3
  Horizon = 5
SPECIFICATION Spec
INVARIANTS
  TypeOK
  OneEmailPerRecord
  SentStands
  AnswersExist
SYMMETRY RequestSymmetry
\* Every request has been answered.
CHECK_DEADLOCK FALSE
