\* An audience of two pages that changes under the walk; one death, of a walk, a lane or a caller.
CONSTANTS
  w1 = w1
  w2 = w2
  l1 = l1
  l2 = l2
  c1 = c1
  d1 = d1
  Api = api
  Contacts <- TwoContacts
  Batch = 1
  Walkers <- OneWalker
  Lanes <- OneLane
  Crons <- OneCron
  Drains <- NoDrain
  MaxDeaths = 1
  MaxChanges = 1
SPECIFICATION Spec
INVARIANTS
  TypeOK
  EveryoneReached
PROPERTIES
  StopHolds
\* A broadcast that ended leaves nothing to do.
CHECK_DEADLOCK FALSE
