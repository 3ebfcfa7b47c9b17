CONSTANTS
  Num = 3
  Packets = {p1, p2}
  NoPacket = NoPacket
SPECIFICATION Spec
INVARIANTS
  TypeOK
  OneOwner
  IndicesInOrder
  NoDescLost
  OutstandingIntact
  UsedInOrder
  StuckPastNum
PROPERTY ImplementsChannel
