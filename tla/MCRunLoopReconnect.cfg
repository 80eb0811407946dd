\* A saved token that can be revoked twice: three runs of the bridge.
CONSTANTS
  none = none
  chatA = chatA
  chatB = chatB
  tokA = tokA
  tokB = tokB
  Absent = none
  Arrivals = 3
  Inbound <- OneChatAndAnother
  MaxSessions = 2
  QueueSize = 2
  MaxBatch = 2
  SendErrorReply = TRUE
  LongPoll = TRUE
  ExplicitToken = FALSE
  MaxRuns = 3
SPECIFICATION FairRunSpec
PROPERTIES
  OldWorkersEnd
  SignalEndsTheProcess
CHECK_DEADLOCK FALSE
