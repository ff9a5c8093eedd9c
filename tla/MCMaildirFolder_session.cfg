SPECIFICATION Spec
CONSTANTS
  Sessions = {ms}
  Viewers = {}
  None = None
  MaxKeys = 3
  MaxUid = 4
  AppendDeleted = FALSE
INVARIANT TypeOK
INVARIANT UidsNeverReused
 
 
 
