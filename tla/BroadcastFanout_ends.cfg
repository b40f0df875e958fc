\* A broadcast that nobody stops, with its crons and its drain.
CONSTANTS
  w1 = w1
  w2 = w2
  l1 = l1
  l2 = l2
  c1 = c1
  d1 = d1
  Api = api
  Contacts <- OneContact
  Batch = 1
  Walkers <- OneWalker
  Lanes <- OneLane
  Crons <- OneCron
  Drains <- OneDrain
  MaxDeaths = 0
  MaxChanges = 0
SPECIFICATION FairSpec
PROPERTIES
  Finishes
\* A broadcast that ended leaves nothing to do.
CHECK_DEADLOCK FALSE
