SPECIFICATION FairSpec
CONSTANTS
  Me = me
  me = me
  u = u
  Others = {u}
  a = a
  b = b
  Channels = {a, b}
  NoChannel = NoChannel
  maxTries = 2
  MaxSent = 1
  MaxTyped = 3
INVARIANTS TypeOK  CurrentIsListed
PROPERTY PingAnswered
CHECK_DEADLOCK FALSE
