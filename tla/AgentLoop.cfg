SPECIFICATION FairSpec
CONSTANTS
  Tools = {"read", "write"}
  MaxIterations = 8
  CompactionEnabled = TRUE
  TurnThreshold = 4
  KeepRecentPairs = 2
\* A run ends.
CHECK_DEADLOCK FALSE
INVARIANTS
  AgentTypeOK
  RequestIsWellFormed
  NothingIsForgotten
  HistoryIsBounded
  AnswerFollowsFromLog
  CompactionsKeepApart
PROPERTIES
  EveryRunEnds
