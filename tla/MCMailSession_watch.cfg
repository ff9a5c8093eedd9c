SPECIFICATION Spec
CONSTANTS
  Inbox = INBOX
  Folders = {INBOX, Sent}
  Bodies = {b1, b2}
  Pops = {p1}
  Watches = {w1}
  None = None
  MaxUid = 2
  MaxOpen = 1
  MaxCrashes = 1
SYMMETRY Symmetry
INVARIANT WatchReportsArrivals
