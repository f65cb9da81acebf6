CONSTANTS
  NPort <- MCNPort
  TickRate = 1000
  Pause = 1
  Silence = 3
  MaxLength = 3
  Messages = 3
  MaxUnread = 4
  MaxDelay = 4
  MaxDrop = 1
SPECIFICATION Spec
INVARIANTS TypeOK NothingLost WholeFrames FrameBounded
PROPERTY EveryFrameEnds
