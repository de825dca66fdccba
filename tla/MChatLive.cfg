SPECIFICATION FairSpec
CONSTANTS
  c1 = c1
  c2 = c2
  a1 = a1
  a2 = a2
  None = None
  Conns = {c1, c2}
  Addrs = {a1}
  PeerAddr <- SharedAddr
  StrikeWindow = 1
  DdosWindow = 1
  BanTime = 1
  PurgeAfter = 1
  ConnStrikeLimit = 1
  MaxU8 = 2
  MaxTime = 1
  MaxQueue = 2
PROPERTIES GuestSettled QuitNoticed
CHECK_DEADLOCK FALSE
