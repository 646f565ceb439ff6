SPECIFICATION SearchSpec
CONSTANTS
  Relays <- MCRelays
  LaterRelays <- TwoWays
  AskedType = "UNSET"
  ConnectionBound = 2
INVARIANTS
  BestTypeIsFound
  CodecsWork
CHECK_DEADLOCK FALSE
