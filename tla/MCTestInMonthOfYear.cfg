SPECIFICATION Spec
CONSTANTS
  Kinds <- SentenceKinds
  Inputs <- InMonthOfYear
  Parse <- GrammarParse
  SyncsChoices = TRUE
INVARIANT OneDateForOnePhrase
CHECK_DEADLOCK FALSE
