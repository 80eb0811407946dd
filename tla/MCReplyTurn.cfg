\* A body of up to five characters in parts of three, two partials, one retry.
CONSTANTS
  MaxPartials = 2
  MaxBody = 5
  ChunkChars = 3
  MaxTries = 1
  SendErrorReply = TRUE
SPECIFICATION FairSpec
INVARIANTS
  AnswerComplete
  SessionRidesLast
  PartialsInOrder
  ColdRetryInvisible
  AnsweredOnce
PROPERTIES
  TurnEnds
CHECK_DEADLOCK FALSE
