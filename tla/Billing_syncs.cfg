\* Two syncs, a run and a caller that ends the subscription; two subscriptions, one failure.
CONSTANTS
  x1 = x1
  x2 = x2
  r1 = r1
  e1 = e1
  Nobody = nobody
  Subs <- TwoSubs
  Syncs <- TwoSyncs
  Runs <- OneRun
  Enders <- OneEnder
  Included = 0
  MaxAccepted = 2
  MaxTurns = 2
  MaxFailures = 1
SPECIFICATION Spec
INVARIANTS
  TypeOK
  Converges
  BilledOnce
  ReportedIsMetered
PROPERTIES
  NeverOlder
SYMMETRY Symmetry
