SPECIFICATION FairSpec
CONSTANTS
  Servers = {1, 2}
  Clients = {3, 4}
  NoOne = 0
  MaxKills = 1
INVARIANTS
  TypeOK
  ReachableUnlessContested
  OneKeepsThePath
  NameIsOfUnfinished
  RingsAreOwn
PROPERTIES
  WaitEnds
CHECK_DEADLOCK FALSE
