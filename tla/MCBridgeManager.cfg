\* Two files whose stems give the same id, three edits, one failure.
CONSTANTS
  bot = bot
  File = {1, 2}
  BaseId <- OneName
  MaxEdits = 3
  MaxFailures = 1
SPECIFICATION Spec
INVARIANTS
  OneProcessPerFile
  NoGhost
PROPERTIES
  FilesAreFollowed
  ExitedChildComesBack
CHECK_DEADLOCK FALSE
