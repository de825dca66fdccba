SPECIFICATION HistorySpec
CONSTANTS
  c1 = c1
  c2 = c2
  a1 = a1
  None = None
  Conns = {c1, c2}
  Addrs = {a1}
  PeerAddr <- MCPeerAddr
  StrikeWindow = 1
  DdosWindow = 1
  BanTime = 2
  PurgeAfter = 3
  ConnStrikeLimit = 1
  MaxU8 = 2
  MaxTime = 4
  MaxQueue = 1
  Burst = 4
INVARIANTS TypeOK LiveIsServed BanServed RateLimited
CHECK_DEADLOCK FALSE
