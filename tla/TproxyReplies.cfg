SPECIFICATION FairSpec
CONSTANTS
  direct = direct
  trojan = trojan
  web = web
  d1 = d1
  d2 = d2
  p1 = p1
  no1 = no1
  Endpoint = {direct, trojan}
  Target = {d1, d2, p1, no1}
  Client = {c1, c2}
  Sources <- MCOneSource
  Plan <- MCPlan
  UdpEndpoint <- MCUdpEndpoint
  PeerChecked = {direct}
  Deliverable <- MCDeliverable
  Reject = Reject
  Fault = Fault
  Nothing = Nothing
  NoClient = NoClient
  Absent = Absent
  MaxRoutes = 1
  FirstToken = 1
  MaxUsize = 3
  DrainLimit = 1
  MaxClients = 1
  MaxReplySockets = 2
  MaxPeers = 1
  Burst = 1
  EventCapacity = 1
  IdleTimeout = 1
  ReplyTimeout = 2
  QueueBound = 1
INVARIANTS Bounded
PROPERTIES OnlyContactedSourcesSpeak IdleClientsReleased
