\* Two passes with two workers each on two rows.
CONSTANTS
  p1 = p1
  p2 = p2
  Deliveries <- TwoRows
  Passes <- TwoPasses
  Lease = 2
  Budget = 1
  PassTime = 1
  IdlePoll = 2
  StaleAfter = 1
  Concurrency = 2
  MaxAttempts = 1
  RetryDelay <- Ladder
  RetryAfters <- TwoWaits
  AutoDisableAfter = 1
  MaxFailures = 1
  MaxToggles = 0
SPECIFICATION Spec
INVARIANTS
  TypeOK
  LeaseExclusive
  CountsEveryAnswer
PROPERTIES
  WaitsRespected
SYMMETRY PassSymmetry
