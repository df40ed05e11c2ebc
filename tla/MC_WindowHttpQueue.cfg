CONSTANTS
  h1 = h1
  h2 = h2
  null = null
  Transfers <- MCTransfers
  Null <- null
  Linger = 2
  MaxNodes = 3
SPECIFICATION Spec
INVARIANT EraseFindsNode
INVARIANT NoDanglingHttp
INVARIANT ShownWhileListed
