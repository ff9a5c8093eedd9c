SPECIFICATION FairSpec
CONSTANTS
  Users = {u1}
  Clients = {c1, c2}
  Entries = {e1, e2}
  None = None
  MaxReaps = 2
INVARIANT TypeOK
INVARIANT RefCountsTokens
PROPERTY KilledOnlyWhenIdle
CHECK_DEADLOCK FALSE
PROPERTY IdleSessionIsReaped
