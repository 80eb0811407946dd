\* Every built-in profile: two texts, a result anywhere among them, two requests.
CONSTANTS
  MaxTexts = 2
  MaxReports = 1
  MaxAsks = 2
  None = None
  Old = Old
  Fresh = Fresh
SPECIFICATION Spec
INVARIANTS
  PartialsAsSaid
  OneStamp
  AnswersMatch
PROPERTIES
  RequestsSettle
CHECK_DEADLOCK FALSE
