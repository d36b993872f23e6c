\* A websocket and two MCP requests over configurations that change once.
CONSTANTS
  k1 = k1
  k2 = k2
  d1 = d1
  d2 = d2
  d3 = d3
  r1 = r1
  r2 = r2
  ann = ann
  bob = bob
  Documents = {d1, d2, d3}
  KbOf <- MCKbOf
  Configurations <- MCConfigurations
  InitiallySaved <- MCInitiallySaved
  NoConfiguration = NoConfiguration
  Failure = Failure
  NoFilter = NoFilter
  NoFilters = NoFilters
  NoAsk = NoAsk
  NoDocument = NoDocument
  Sessions <- MCSessions
  MaxSaves = 1
  MaxMessages = 2
  Requests = {r1, r2}
  Callers = {ann, bob}
  Capacity = 1
  Workloads <- MCWorkloads
SPECIFICATION Spec
INVARIANT ReceiverStopped
INVARIANT CallsStayInKb
INVARIANT SearchesNarrow
CHECK_DEADLOCK FALSE
