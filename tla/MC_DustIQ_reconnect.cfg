CONSTANTS
  ExpectedFrames = 4
  Unnamed = {3}
  Marker = 800
  NoSlave = 0
  Devices <- MCAlone
  Readings = {0}
  Rounds = 5
  MaxCorrupt = 0
  MaxRepeat = 0
  MaxDrop = 1
SPECIFICATION Spec
INVARIANT Aligned
