SPECIFICATION Spec
CONSTANTS
  Modes <- MCModes
  Room = 2
  MaxPackets = 1
  MaxStops = 1
PROPERTY StoppedRingIsLeft
