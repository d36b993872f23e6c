\* Two processes of the agentic server: two questions of one session, failing publications,
\* evictions, restarts and failed saves, nobody reading.
CONSTANTS
  s1 = s1
  q1 = q1
  v1 = v1
  Questions = {q1, q2}
  Sessions = {s1}
  SessionOf <- MCSessionOf
  LearningIds = {}
  NoId = NoId
  Servers = {v1, v2}
  Assignments <- MCAssignments
  NoMemory = NoMemory
  MaxEmitted = 1
  BrokerMayFail = TRUE
  MayEvict = TRUE
  UsageMayFail = FALSE
  Requests <- Streamed
SPECIFICATION ServerSpec
INVARIANT TypeOK
INVARIANT OutcomeClosesTopic
INVARIANT AnsweredLeavesNothingOpen
PROPERTY FollowUpSeesSaved
PROPERTY QuestionsEnd
CHECK_DEADLOCK FALSE
