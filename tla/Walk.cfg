SPECIFICATION FairSpec
CONSTANTS
  PageSize = 1
  MaxPages = 2
  MaxFailed = 2
  MaxTip = 4
  MaxEpoch = 3
  MaxDeaths = 1
INVARIANTS WalkInv
PROPERTIES CursorNeverGoesBack BudgetSkipsOnlyAbsence WalkEnds
