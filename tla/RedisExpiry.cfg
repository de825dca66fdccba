SPECIFICATION Spec
CONSTANTS
  None = None
  Words = {word}
  Numbers = {hundred}
  Empty = Empty
  EX = EX
  PX = PX
  Dangling = Dangling
  MaxElements = 4
INVARIANT ExpiryKept
CHECK_DEADLOCK FALSE
