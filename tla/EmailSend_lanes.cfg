\* One email, two lanes on it at once, no clock: every time guard is open.
CONSTANTS
  e1 = e1
  l1 = l1
  l2 = l2
  d1 = d1
  r1 = r1
  r2 = r2
  none = none
  NoEmail = none
  Emails <- OneEmail
  Lanes <- TwoLanes
  Drains <- NoDrain
  Recipients <- OneMailbox
  Horizon = 0
  DayLength = 1
  StaleAfter = 1
  RetryLimit = 1
  Ceiling = 1
  MaxPostpones = 1
  MaxExpiries = 1
  MaxMoves = 0
  MaxUnnamed = 0
  EventStatuses <- Feedback
  ScheduleTimes <- AnySchedule
SPECIFICATION Spec
INVARIANTS
  TypeOK
  ClaimInv
  AtMostOneSend
  ToldOnce
  EndedUnsent
  FailedUnsent
PROPERTIES
  NeverBack
  KeepsPromise
SYMMETRY LaneSymmetry
\* Nothing is left to do once every email is settled and no event is due.
CHECK_DEADLOCK FALSE
