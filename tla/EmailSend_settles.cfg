\* One email and one lane over two days: mail queued ahead is charged ahead, and everything queued leaves the queue.
CONSTANTS
  e1 = e1
  l1 = l1
  l2 = l2
  d1 = d1
  r1 = r1
  r2 = r2
  none = none
  NoEmail = none
  Emails <- OneEmail
  Lanes <- OneLane
  Drains <- NoDrain
  Recipients <- OneMailbox
  Horizon = 1
  DayLength = 1
  StaleAfter = 1
  RetryLimit = 1
  Ceiling = 1
  MaxPostpones = 1
  MaxExpiries = 1
  MaxMoves = 1
  MaxUnnamed = 0
  EventStatuses <- Delivery
  ScheduleTimes <- AnySchedule
SPECIFICATION FairSpec
INVARIANTS
  ChargedAhead
PROPERTIES
  Settles
\* Nothing is left to do once every email is settled and no event is due.
CHECK_DEADLOCK FALSE
