SPECIFICATION Spec
CONSTANTS
  Servers = {1, 2}
  Clients = {}
  NoOne = 0
  MaxKills = 0
PROPERTY RemovesOwnPath
CHECK_DEADLOCK FALSE
