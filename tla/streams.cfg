CONSTANTS
  Runs <- TheRuns
  Media = 2
  Back = 1
  Buffer = 1
SPECIFICATION Spec
INVARIANTS TypeOK PassIsEarned BlameIsFair NothingAfterFailedCheck
PROPERTY CallsEnd
CHECK_DEADLOCK FALSE
