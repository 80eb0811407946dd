\* Three messages of two chats, two transports, a table of two req ids; the second
\* turn has up to two replies.
CONSTANTS
  chatA = chatA
  chatB = chatB
  Arrivals = 3
  ChatOf <- TwoChats
  MaxGens = 2
  MaxReplies <- OneOfTwo
  MapMax = 2
SPECIFICATION Spec
INVARIANTS
  TypeOK
  RepliesOnceInOrder
  ReplyFindsItsChat
  CleanMeansSaved
PROPERTIES
  SpacedTurnsResume
CHECK_DEADLOCK FALSE
