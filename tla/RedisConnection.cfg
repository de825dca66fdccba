SPECIFICATION ConnectionSpec
CONSTANTS
  None = None
  npos = npos
  c1 = c1
  c2 = c2
  someKey = someKey
  long = long
  three = three
  setName = setName
  getName = getName
  existsName = existsName
  incrName = incrName
  pingName = pingName
  helloName = helloName
  delName = delName
  Stack = 40
  BufferSize = 1024
  Bytes <- MCBytes
  Keys <- MCKeys
  Strings <- MCStrings
  Numeral <- MCNumeral
  Null = None
  PerMs = 1
  MaxTime = 0
  Clients = {c1, c2}
  Torn = torn
  Words <- MCWords
  Numbers = {three}
  Empty = Empty
  EX = EX
  PX = PX
  Dangling = Dangling
  MaxElements = 5
  IntMax = 7
  Cut = {c2}
  Requests <- MCRequests
  Spelling <- MCSpelling
  Names <- MCNames
  IntOf <- MCIntOf
  MaxAsked <- MCMaxAsked
INVARIANTS ConnectionTypeOK FirstTwo InStep   NeverTruncated
CHECK_DEADLOCK FALSE
