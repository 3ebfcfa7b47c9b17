CONSTANTS
  MaxClients = 2
  MaxPackets = 1
  FdListSize = 5
  Addrs = {a1, a2}
SPECIFICATION Spec
INVARIANT AddressesMapped
CHECK_DEADLOCK FALSE
