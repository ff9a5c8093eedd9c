SPECIFICATION Spec
CONSTANTS
  Sessions = {ms}
  Viewers = {}
  None = None
  MaxKeys = 2
  MaxUid = 3
  AppendDeleted = FALSE
INVARIANT AppendAnswersOwnUid
