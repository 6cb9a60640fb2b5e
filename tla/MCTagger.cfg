SPECIFICATION Spec
CONSTANTS
  MaxOpened = 2
  Words <- MCWords
  ysize = 2
  NodeScore <- MCNodeScore
  PathScore <- MCPathScore
  Texts <- MCTexts
  Penalties <- MCPenalties
  MaxNBest = 1
INVARIANTS TypeOK NoneIsLost DeletesItsOwn
PROPERTIES ImplementsNBest Returns
CHECK_DEADLOCK FALSE
