\* Two messages larger than a burst of two, a small one, and two lanes.
CONSTANTS
  e1 = e1
  e2 = e2
  e3 = e3
  l1 = l1
  l2 = l2
  NoEmail = none
  Emails <- ThreeEmails
  Cost <- OneSmall
  Window = 2
  Most = 3
  Lanes <- TwoLanes
  Slack = 1
  Horizon = 4
SPECIFICATION Spec
INVARIANTS
  TypeOK
  BookedOnce
  PassesPaced
SYMMETRY Symmetry
\* Sent mail leaves nothing to do.
CHECK_DEADLOCK FALSE
