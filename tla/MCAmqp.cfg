SPECIFICATION FairSpec
CONSTANTS
  p1 = p1
  p2 = p2
  Publishers <- TwoPublishers
  Reader = Reader
  Beater = Beater
  Shutdown = Shutdown
  None = None
  MaxBeats = 2
  MaxFaults = 2
INVARIANTS FramesTogether ResultsTruthful
PROPERTIES CallsReturn LocksComeFree
CHECK_DEADLOCK FALSE
