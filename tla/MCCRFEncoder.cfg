SPECIFICATION Spec
CONSTANTS
  Corpora <- MCCorpora
  ThreadNums = {1, 2, 3}
  maxitr = 4
  MaxSentences = 5
INVARIANTS LatticesStayWhole GradientIsWhole SentencesAreDeleted
PROPERTY Terminates
CHECK_DEADLOCK FALSE
