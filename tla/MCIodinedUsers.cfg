SPECIFICATION MCSpec
VIEW MCView
CONSTANTS
  p1 = p1
  p2 = p2
  Packet = {p1, p2}
  PacketLen <- MCPacketLen
  NoPacket = NoPacket
  Destination <- MCDestination
  QueueLen = 1
  ResendLimit = 1
  FragSizes = {1}
  FragSize = 1
  DnscacheLen = 1
  QmemLen = 1
  MaxQueries = 3
  MaxDups = 0
  MaxAsked = 2
  USERS = 2
  NetSizes = {8}
  Timeout = 1
  Host = {1}
  check_ip = TRUE
  MaxSessions = 3
INVARIANTS
  EveryUserHasItsAddress
  NothingIsInherited
  NoUserWaitsBesideQuery
