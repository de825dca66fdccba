SPECIFICATION FairSpec
CONSTANTS
  w = w
  x = x
  y = y
  z = z
  Clients = {w, x, y, z}
  Listener = Listener
  Empty = Empty
  Capacity = 4
INVARIANTS TypeOK EachOnce WaitsBehindTheEnd
PROPERTY OneServedOrStuck
CHECK_DEADLOCK FALSE
