\* Prefilters and the graph strategy in one ask.
CONSTANTS
  a1 = a1
  a2 = a2
  r1 = r1
  r2 = r2
  w1 = w1
  w2 = w2
  NoResource = NoResource
  NoStatus = NoStatus
  Asks = {a1}
  Resources = {r1, r2}
  Prequeries = {1, 2}
  MaxConcurrent = 2
  Workloads <- OneAsk
  Words <- MCWords
  MaxTries = 2
  MayFinish = FALSE
SPECIFICATION Spec
INVARIANT ResultsMatchPrefilter
CHECK_DEADLOCK FALSE
