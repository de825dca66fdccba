SPECIFICATION FairSpec
CONSTANTS
  w = w
  x = x
  y = y
  z = z
  Clients = {w, x, y}
  Listener = Listener
  Empty = Empty
  Capacity = 4
PROPERTY ConcurrentConnections
CHECK_DEADLOCK FALSE
