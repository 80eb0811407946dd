\* Three conversations, two worker slots, queues of one message.
CONSTANTS
  none = none
  chatB = chatB
  tokA = tokA
  Absent = none
  Arrivals = 4
  Inbound <- ThreeChats
  MaxSessions = 2
  QueueSize = 1
  MaxBatch = 3
  SendErrorReply = TRUE
  LongPoll = TRUE
SPECIFICATION FairSpec
INVARIANTS
  TypeOK
  OneWorkerPerKey
  LiveWorkersWithinCap
  WaitingIsReachable
PROPERTIES
  DiscardHasACause
  ImplementsConversationService
  EveryMessageSettles
  ShutdownEndsEverything
  FatalErrorEndsTheLoop
CHECK_DEADLOCK FALSE
