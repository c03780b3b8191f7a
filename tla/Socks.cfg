SPECIFICATION FairSpec
CONSTANTS
  Endpoint = {direct, trojan}
  Sources <- MCOneSource
  MaxRoutes = 1
  FirstToken = 2
  MaxUsize = 3
  DrainLimit = 1
  Fault = Fault
  Nothing = Nothing
  Sender = {a, b, x}
  ControlIp = {a, b}
  Target = {d1, p1}
  Malformed = Malformed
  Plan <- MCPlan
  Reject = Reject
  UdpEndpoint = {direct, trojan}
  PeerChecked = {direct}
  MaxPeers = 1
  MaxPending = 1
  Burst = 1
  EventCapacity = 4
  ControlReads = 1
  IdleTimeout = 1
  QueueBound = 1
  ControlBound = 1
  NoClient = NoClient
  NoToken = NoToken
  direct = direct
  trojan = trojan
  web = web
  d1 = d1
  p1 = p1
  w1 = w1
  no1 = no1
INVARIANTS OnlyClientServed NoSleepOnReplies
PROPERTIES EndsForAReason AssociationEnds
