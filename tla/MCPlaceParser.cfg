SPECIFICATION EntitySpec
CONSTANTS
  null <- MCnull
  airportNameToAirportCode <- MCairportNames
  airportCodeToCityCode <- MCairportCodes
  cityNameToCityCode <- MCcityNames
  cityCodeToCountryCode <- MCcityCodes
  countryNameToCountryCode <- MCcountryNames
  wordsToIgnore <- MCignored
  Texts <- MCTexts
  Triptypes <- MCTriptypes
  keywords <- MCkeywords
  Letters = {"a", "b"}
  MaxLength = 8
INVARIANTS MostSpecific LongestMatch PlacesAreAccountedFor RangesAreTheWords InnerTripIsLater KeywordsAreAccountedFor
CHECK_DEADLOCK FALSE
