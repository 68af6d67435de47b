SPECIFICATION HubSpec
CONSTANTS
  a = a
  b = b
  c1 = c1
  c2 = c2
  c3 = c3
  s1 = s1
  s2 = s2
  m1 = m1
  m2 = m2
  m3 = m3
  None = None
  Nodes = {a, b}
  Clients = {c1, c2, c3}
  Home <- TwoNodesHome
  SubOf <- TwoSubs
  Messages = {m1, m2}
  To <- Addressed
  SendBuffer = 1
  HubBuffer = 1
  Readers = {}
  MaxFaults = 1
INVARIANTS NoSendAfterClose InPublishOrder OfflineWhenAllGone
CHECK_DEADLOCK FALSE
