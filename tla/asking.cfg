\* One question end to end: client, API, topic and agentic server, with
\* failing publications and subscriptions and usage reports that raise.
CONSTANTS
  s1 = s1
  q1 = q1
  v1 = v1
  Questions = {q1}
  Sessions = {s1}
  SessionOf <- MCSessionOf
  LearningIds = {l1}
  NoId = NoId
  Servers = {v1}
  Assignments <- MCAssignments
  NoMemory = NoMemory
  MaxEmitted = 2
  BrokerMayFail = TRUE
  MayEvict = FALSE
  UsageMayFail = TRUE
  Requests <- AllRequests
SPECIFICATION FairSpec
INVARIANT HeaderNamesCall
PROPERTY KeepsContract
PROPERTY RequestsEnd
PROPERTY LoopsEnd
CHECK_DEADLOCK FALSE
