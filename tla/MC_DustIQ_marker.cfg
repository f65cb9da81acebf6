CONSTANTS
  ExpectedFrames = 4
  Unnamed = {3}
  Marker = 800
  NoSlave = 0
  Devices <- MCAlone
  Readings = {0, 800}
  Rounds = 5
  MaxCorrupt = 0
  MaxRepeat = 0
  MaxDrop = 0
SPECIFICATION Spec
PROPERTY EventuallyStored
