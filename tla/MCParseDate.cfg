SPECIFICATION Spec
CONSTANTS
  Kinds <- TokenKinds
  Inputs <- MCInputs
  Parse <- MCParse
  Date <- MCDate
  LooseDate <- MCLooseDate
  SyncsChoices = TRUE
  MaxWords = 3
  Words <- MCWords
  MaxTwice = 4
  TwiceWords <- MCTwiceWords
  ReadSlice <- MCReadSlice
INVARIANTS CallsShrink LeftToRight CutAtSeparators
PROPERTIES Terminates ImplementsDateScan
CHECK_DEADLOCK FALSE
