SPECIFICATION MCSpec
CONSTANTS
  p1 = p1
  p2 = p2
  p3 = p3
  Packet = {p1, p2, p3}
  PacketLen <- MCPacketLen
  NoPacket = NoPacket
  QueueLen = 2
  ResendLimit = 1
  FragSizes = {1, 2}
INVARIANTS
  TypeOK
  QueueOnlyBehindPacket
  NoByteSkipped
PROPERTIES
  ImplementsFifo
  EveryPacketLeaves
