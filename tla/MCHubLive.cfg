SPECIFICATION FairSpec
CONSTANTS
  c1 = c1  c2 = c2  c3 = c3
  u1 = u1  u2 = u2  g1 = g1  ip1 = ip1  ip2 = ip2
  p1 = p1  p2 = p2  None = None
  Client = {c1}
  User = {u1, u2}
  Group = {g1}
  IP = {ip1, ip2}
  Talker = {c1}
  Post = {p1, p2}
  UserOf <- MCUserOf
  GroupOf <- MCGroupOf
  IPOf <- MCIPOf
  Route <- MCRoute
  SendBuffer = 1
  MaxTotal = 2
  MaxPerUser = 2
  MaxPerIP = 2
CHECK_DEADLOCK FALSE
INVARIANTS NoSilentLoss
PROPERTIES DeadPeerUnregistered ClosedSocketWindsDown PublishEnds DrainReachesEveryone
