SPECIFICATION Spec
CONSTANTS
  size = 2
  msize = 3
  maxfev = 4
  MaxCalls = 9
INVARIANTS TypeOK PairsAreTheNewest GivesUpAtTheBest
CHECK_DEADLOCK FALSE
