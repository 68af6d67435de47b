SPECIFICATION HubSpec
CONSTANTS
  a = a
  b = b
  c1 = c1
  c2 = c2
  c3 = c3
  s1 = s1
  s2 = s2
  m1 = m1
  m2 = m2
  m3 = m3
  None = None
  Nodes = {a, b}
  Clients = {c1, c2, c3}
  Home <- TwoNodesHome
  SubOf <- OneSub
  Messages = {}
  To <- Addressed
  SendBuffer = 1
  HubBuffer = 1
  Readers = {}
  MaxFaults = 0
INVARIANT OnlineWhileConnected
CHECK_DEADLOCK FALSE
