CONSTANTS
  ExpectedFrames = 4
  Unnamed = {3}
  Marker = 800
  NoSlave = 0
  Devices <- MCShared
  Readings = {0}
  Rounds = 6
  MaxCorrupt = 2
  MaxRepeat = 1
  MaxDrop = 1
SPECIFICATION Spec
INVARIANTS TypeOK OneDevice OneLossAligned OneLossOneRound CycleBounded
PROPERTY EventuallyStored
