SPECIFICATION DatabaseSpec
CONSTANTS
  a = a
  b = b
  word = word
  oneMore = oneMore
  Null = Null
  Keys = {a, b}
  Strings = {word, oneMore}
  Numeral <- Reads
  IntMax = 1
  PerMs = 2
  MaxTime = 3
SYMMETRY Swap
INVARIANT DatabaseTypeOK
PROPERTY ImplementsStore
