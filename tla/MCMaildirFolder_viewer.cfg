SPECIFICATION Spec
CONSTANTS
  Sessions = {ms}
  Viewers = {wa}
  None = None
  MaxKeys = 2
  MaxUid = 3
  AppendDeleted = FALSE
INVARIANT UidsNeverReused
 
