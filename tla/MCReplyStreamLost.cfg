\* Every send succeeds, and yet a streamed answer is not shown whole.
CONSTANTS
  MaxPartials = 2
  MaxBody = 2
  ChunkChars = 3
  MaxTries = 1
  SendErrorReply = TRUE
SPECIFICATION Spec
INVARIANTS
  SuppressedBodyWasShown
CHECK_DEADLOCK FALSE
