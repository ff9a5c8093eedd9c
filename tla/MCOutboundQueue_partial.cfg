SPECIFICATION Spec
CONSTANTS
  m1 = m1
  m2 = m2
  a1 = a1
  a2 = a2
  b1 = b1
  Msgs = {m1, m2}
  Envs = {a1, b1}
  MsgOf <- MCMsgOf2
  RcptDomain <- MCDomain2
  Procs = {p1}
  NoMsg = NoMsg
  MessagesPerHour = 0
  Burst = 0
  MaxFaults = 0
INVARIANT QueueNeverSeesPartialState
