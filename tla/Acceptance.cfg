SPECIFICATION FairTrackerSpec
CONSTANTS
  g = g a2 = a2 b5 = b5 a8 = a8 t1 = t1
  None = None
  Blocks <- MCBlocks
  Genesis = g
  Chain <- MCChain
  Score <- MCScore
  Txids = {t1}
  Accepts <- MCAccepts
  Terminal = 3
  PageCap = 1
  MaxPages = 4
  MaxFaults <- OneFault
  MaxRefused = 1
INVARIANTS TrackerInv AgreesWithChain CursorCovers
PROPERTIES HoldHeals
