SPECIFICATION MIRASpec
CONSTANTS
  x_size = 3
  maxitr = 6
  ShrinkingSizes = {1, 2, 3}
  Outcomes <- AnyOutcome
INVARIANTS ConvergedOnAll LeftOutIsEarned
CHECK_DEADLOCK FALSE
