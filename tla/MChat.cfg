SPECIFICATION Spec
CONSTANTS
  c1 = c1
  c2 = c2
  a1 = a1
  a2 = a2
  None = None
  Conns = {c1, c2}
  Addrs = {a1, a2}
  PeerAddr <- OwnAddr
  StrikeWindow = 1
  DdosWindow = 1
  BanTime = 1
  PurgeAfter = 2
  ConnStrikeLimit = 1
  MaxU8 = 2
  MaxTime = 2
  MaxQueue = 2
SYMMETRY Swap
INVARIANTS StrikesCovered NoStrikePanic AudienceAdmitted
CHECK_DEADLOCK FALSE
