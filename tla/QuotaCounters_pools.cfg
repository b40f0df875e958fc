SPECIFICATION Spec
CONSTANTS
  t1 = t1
  t2 = t2
  a = a
  b = b
  x1 = x1
  x2 = x2
  Teams <- TwoTeams
  Days <- TwoDays
  Today = 1
  Keys <- TwoDomains
  Txs <- TwoTxs
  Batches <- Spanning
  Plans <- AnyPlans
  TeamCeiling <- Ceilings
  PoolCeiling = 2
  Included = 2
  WarmPool = 2
  WarmCap = 1
  MaxTx = 4
  MaxMoves = 1
SYMMETRY Symmetry
INVARIANTS
  TypeOK
  ChargedOnce
  PoolCovers
  WarmTogether
  WithinCaps
  NoDeadlock
\* Nothing is left to do once MaxTx transactions have run.
CHECK_DEADLOCK FALSE
