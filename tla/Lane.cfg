SPECIFICATION FairSpec
CONSTANTS
  s1 = s1
  c1 = c1
  Submits <- OneSubmit
  Coins <- OneCoin
  MaxSignals = 3
  MaxFrames = 1
  MaxEvents = 1
CHECK_DEADLOCK FALSE
INVARIANTS LaneInv FramesMeetAConnection PendingCoinsKept
PROPERTIES LaneComesToRest
