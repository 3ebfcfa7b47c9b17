CONSTANTS
  MaxClients = 1
  MaxPackets = 1
  FdListSize = 5
  Addrs = {a1, a2}
SPECIFICATION Spec
INVARIANT SurvivesFailedReply
CHECK_DEADLOCK FALSE
