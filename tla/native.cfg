\* One ask of any kind, or two whose audit requests meet in the queue.
CONSTANTS
  a1 = a1
  a2 = a2
  r1 = r1
  r2 = r2
  w1 = w1
  w2 = w2
  NoResource = NoResource
  NoStatus = NoStatus
  Asks = {a1, a2}
  Resources = {r1, r2}
  Prequeries = {1, 2, 3}
  MaxConcurrent = 2
  Workloads <- AllWorkloads
  Words <- MCWords
  MaxTries = 2
  MayFinish = TRUE
SPECIFICATION FairSpec
INVARIANT TypeOK
INVARIANT FindsMatchPrefilter
INVARIANT ResourceAskStays
INVARIANT NoFindLeftBehind
INVARIANT AuditsWhole
INVARIANT AuditTellsMainQuery
INVARIANT PublishedInOrder
PROPERTY AuditsDrain
PROPERTY NativeKeepsContract
CHECK_DEADLOCK FALSE
