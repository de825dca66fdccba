SPECIFICATION FairSpec
CONSTANTS
  x = x
  y = y
  None = None
  Clients = {x, y}
  Resetting = {y}
  Fds = {1, 2}
  NumBackends = 1
  MaxTries = 1
  MaxRetries = 2
  MaxSent <- Requests
INVARIANTS TypeOK RegistryConsistent NoRequestLost
 
CHECK_DEADLOCK FALSE
