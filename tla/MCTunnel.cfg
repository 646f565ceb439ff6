SPECIFICATION Spec
CONSTANTS
  Packet <- MCPacket
  PacketLen <- MCPacketLen
  NoPacket = NoPacket
  QueueLen = 2
  ResendLimit = 1
  FragSizes = {1}
  FragSize = 1
  ChunkLen = 1
  DataResends = 1
  DnscacheLen = 1
  QmemLen = 2
  MaxQueries = 5
  MaxDups = 1
  MaxLag = 2
  Scenarios <- MCScenarios
INVARIANTS
  AckedUpFragmentsHeld
  NoPacketWaitsBesideQuery
  AckedMeansDelivered
PROPERTIES
  NoQueryIsDropped
  PutOffForOneIteration
  ImplementsUpLine
  ImplementsDownLine
