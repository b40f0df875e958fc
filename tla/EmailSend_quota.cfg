\* One message to two mailboxes, a lane, a drain, the clock and reschedules: the reservations
\* of a message that shrinks, and of one SES takes without naming it.
CONSTANTS
  e1 = e1
  l1 = l1
  l2 = l2
  d1 = d1
  r1 = r1
  r2 = r2
  none = none
  NoEmail = none
  Emails <- OneEmail
  Lanes <- OneLane
  Drains <- OneDrain
  Recipients <- TwoMailboxes
  Horizon = 1
  DayLength = 1
  StaleAfter = 1
  RetryLimit = 0
  Ceiling = 2
  MaxPostpones = 0
  MaxExpiries = 0
  MaxMoves = 2
  MaxUnnamed = 1
  EventStatuses <- NoFeedback
  ScheduleTimes <- AnySchedule
SPECIFICATION Spec
INVARIANTS
  ReservationsCovered
SYMMETRY MailboxSymmetry
\* Nothing is left to do once every email is settled and no event is due.
CHECK_DEADLOCK FALSE
