\* Every channel and every sequence of four lines of any form.
CONSTANTS
  MaxLines = 4
SPECIFICATION Spec
INVARIANTS AnsweredInOrder LoudFailure
CHECK_DEADLOCK FALSE
