SPECIFICATION TrainingSpec
CONSTANTS
  Corpora <- MCCorpora
  ThreadNums = {1}
  maxitr = 4
  MaxSentences = 2
  size = 1
  msize = 2
  maxfev = 3
INVARIANT OkIsNoFailure
CHECK_DEADLOCK FALSE
