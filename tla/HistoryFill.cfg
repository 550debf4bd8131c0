SPECIFICATION FillSpec
CONSTANTS
  c1 = c1
  d1 = d1
  None = None
  Rows <- MCRows
  Owner = "own"
  Addresses = {"addr"}
  Contacts = {c1, d1}
  LaneOf <- MCLaneOf
  TimeOf <- MCTimeOf
  About <- MCAbout
  Foreign = {4}
  PageLimit = 2
  PageBudget = 2
  MaxTime = 1
  MaxRuns = 2
  MaxErases = 1
  MaxFaults = 1
INVARIANTS
  FillInv
  ErasedStaysErased
CHECK_DEADLOCK FALSE
