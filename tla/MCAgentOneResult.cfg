\* A turn of any built-in profile that resumes a session.
CONSTANTS
  MaxTexts = 1
  MaxReports = 1
  MaxAsks = 0
  None = None
  Old = Old
  Fresh = Fresh
SPECIFICATION Spec
INVARIANTS
  OneResult
CHECK_DEADLOCK FALSE
