\* One row, passes that die with it, and lost jobs.
CONSTANTS
  p1 = p1
  p2 = p2
  Deliveries <- OneRow
  Passes <- OnePass
  Lease = 2
  Budget = 1
  PassTime = 1
  IdlePoll = 2
  StaleAfter = 1
  Concurrency = 1
  MaxAttempts = 2
  RetryDelay <- Ladder
  RetryAfters <- OneWait
  AutoDisableAfter = 1
  MaxFailures = 2
  MaxToggles = 1
SPECIFICATION FairSpec
PROPERTIES
  NextPost
