SPECIFICATION Spec
CONSTANTS
  direct = direct
  trojan = trojan
  web = web
  d1 = d1
  d2 = d2
  p1 = p1
  no1 = no1
  Endpoint = {direct, trojan}
  Target = {d1, p1}
  Client = {c1, c2}
  Sources <- MCSources
  Plan <- MCPlan
  UdpEndpoint <- MCUdpEndpoint
  PeerChecked = {direct}
  Deliverable = {}
  Reject = Reject
  Fault = Fault
  Nothing = Nothing
  NoClient = NoClient
  Absent = Absent
  MaxRoutes = 2
  FirstToken = 1
  MaxUsize = 4
  DrainLimit = 1
  MaxClients = 2
  MaxReplySockets = 1
  MaxPeers = 1
  Burst = 1
  EventCapacity = 1
  IdleTimeout = 1
  ReplyTimeout = 1
  QueueBound = 1
SYMMETRY ClientSymmetry
INVARIANTS OwnersAreLive TokensNotShared AnswersAreDispatched ServedClientsAreLive
PROPERTIES ActiveClientsKept
