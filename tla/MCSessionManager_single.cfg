SPECIFICATION Spec
CONSTANTS
  Users = {u1}
  Clients = {c1, c2}
  Entries = {e1, e2, e3}
  None = None
  MaxReaps = 2
INVARIANT OneSessionPerUser
CHECK_DEADLOCK FALSE
