SPECIFICATION Spec
CONSTANTS
  None = None
  c1 = c1
  c2 = c2
  word = word
  digits = digits
  runs = runs
  w1 = w1
  w2 = w2
  Calls = {c1, c2}
  Secrets = {word, digits, runs}
  Pins = {digits, runs}
  Weak = {runs}
  Seeds = {w1, w2}
  FreeAttempts = 1
  BaseDelay = 1
  MaxDelay = 1
  MaxTime = 1
  MaxCalls = 3
  MaxLocks = 1
  MaxFaults = 1
SYMMETRY Symmetric
CHECK_DEADLOCK FALSE
INVARIANTS VaultInv LockWins LockoutHolds
