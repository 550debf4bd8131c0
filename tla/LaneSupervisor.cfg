SPECIFICATION FairSpec
CONSTANTS
  MaxCalls = 2
  LaneRebuilds = 1
  Reannounces = 1
  MaxFaults = 2
  MaxTimeouts = 1
CHECK_DEADLOCK FALSE
INVARIANTS SupervisorInv
PROPERTIES DeathsAreServed DarkEnds
