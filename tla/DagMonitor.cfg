SPECIFICATION Spec
CONSTANTS
  n1 = n1
  n2 = n2
  Nodes = {n1, n2}
  None = None
  Rounds = 2
  Stranded = 1
  MaxGen = 2
  MaxActs = 2
CHECK_DEADLOCK FALSE
SYMMETRY Symmetry
INVARIANTS MonitorInv DarkIsHunted
PROPERTIES LinkFallsForAReason TapLeaves
