SPECIFICATION FairSpec
CONSTANTS
  m1 = m1
  m2 = m2
  a1 = a1
  a2 = a2
  b1 = b1
  Msgs = {m1}
  Envs = {a1}
  MsgOf <- MCMsgOf0
  RcptDomain <- MCDomain0
  Procs = {p1, p2}
  NoMsg = NoMsg
  MessagesPerHour = 1
  Burst = 1
  MaxFaults = 2
INVARIANT TypeOK
 
