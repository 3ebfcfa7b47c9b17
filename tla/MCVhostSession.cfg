CONSTANTS
  MaxClients = 2
  MaxPackets = 2
  FdListSize = 5
  Addrs = {a1, a2}
SPECIFICATION FairSpec
INVARIANTS
  TypeOK
  HandlersNeverBlock
  FirstClientSafe
  NoLostKickOnceStarted
  KickListened
  HarmOnlyByEarlyKick
PROPERTIES
  ReplyComes
  ClosedIsDropped
CHECK_DEADLOCK FALSE
