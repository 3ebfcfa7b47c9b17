SPECIFICATION Spec
CONSTANTS
  Num = 3
  Cap = 4
  Hdr = 1
  Chains <- MCChains
  MaxPackets = 5
INVARIANTS
  TypeOK
  PrefixDelivered
  MixedOnlyAfterWrongEntry
  UsedNamesPacket
CHECK_DEADLOCK FALSE
