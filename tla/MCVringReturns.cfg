CONSTANTS
  Num = 2
  Packets = {p1}
  NoPacket = NoPacket
SPECIFICATION FairSpec
PROPERTY ProcessUsedReturns
