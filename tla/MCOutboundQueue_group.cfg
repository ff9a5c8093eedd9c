SPECIFICATION Spec
CONSTANTS
  m1 = m1
  m2 = m2
  a1 = a1
  a2 = a2
  b1 = b1
  Msgs = {m1}
  Envs = {a1, a2}
  MsgOf <- MCMsgOf1
  RcptDomain <- MCDomain1
  Procs = {p1, p2}
  NoMsg = NoMsg
  MessagesPerHour = 0
  Burst = 0
  MaxFaults = 1
INVARIANT RemovedOnlyAfterReport
 
INVARIANT OutcomesBoundedByFaults
INVARIANT BodyOutlivesEnvelopes
SYMMETRY Symmetry
