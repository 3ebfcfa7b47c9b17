SPECIFICATION Spec
CONSTANTS
  Modes <- MCModes
  Room = 2
  MaxPackets = 3
  MaxStops = 2
INVARIANTS
  TypeOK
  NothingSkipped
  RepeatedOnlyIfLate
  UsedFollowsAvail
PROPERTIES
  TxServed
