SPECIFICATION SavedSpec
CONSTANTS
  Keys = {1, 2, 3, 4, 5, 6}
  Unigrams <- MCUnigrams
  ysize = 2
  Corpora <- MCCorpora
  Freqs = {1, 2, 3}
  size = 7
  MaxByte = 4
  Spellings <- MCSpellings
  Texts <- MCTexts
INVARIANTS TypeOK WeightsAreTheirOwn ListsAreOfTheirKeys FrequentKeysStay DecoderFindsTheIds
CHECK_DEADLOCK FALSE
