---- MODULE PlaceDataSource ----
(***************************************************************************)
(* PlaceDataSource and PlaceInfo: the tables of airports, cities and       *)
(* countries, and what a piece of text is looked up as.  A table is a      *)
(* function on the keys it has; a code is a key too, and a PlaceInfo is    *)
(* reduced to the three codes that isEmpty and isGeneralization read.      *)
(***************************************************************************)

CONSTANTS
  null,
  airportNameToAirportCode, airportCodeToCityCode, cityNameToCityCode,
  cityCodeToCountryCode, countryNameToCountryCode, wordsToIgnore

PlaceInfo(airport, city, country) ==
  [airportCode |-> airport, cityCode |-> city, countryCode |-> country]

Nowhere == PlaceInfo(null, null, null)

Lookup(table, key) == IF key \in DOMAIN table THEN table[key] ELSE key

\* What the tables have.
Keys ==
  UNION {DOMAIN table : table \in {airportNameToAirportCode, airportCodeToCityCode,
           cityNameToCityCode, cityCodeToCountryCode, countryNameToCountryCode}}

\* getPlaceInfo: the key goes through the tables, and stays what it is where a
\* table does not have it.
AsAirportOrCity(text) ==
  LET airport == Lookup(airportNameToAirportCode, text)
      city    == Lookup(airportCodeToCityCode, airport)
  IN  PlaceInfo(IF airport \in DOMAIN airportCodeToCityCode THEN airport ELSE null,
                IF city \in DOMAIN cityCodeToCountryCode THEN city ELSE null,
                IF city \in DOMAIN cityCodeToCountryCode THEN cityCodeToCountryCode[city] ELSE null)

\* Only when nothing was found: the key is the airport code the text may have named.
AsCityOrCountryName(text) ==
  LET key  == Lookup(airportNameToAirportCode, text)
      city == Lookup(cityNameToCityCode, key)
  IN  IF city \in DOMAIN cityCodeToCountryCode
        THEN PlaceInfo(null, city, cityCodeToCountryCode[city])
      ELSE IF city \in DOMAIN countryNameToCountryCode
        THEN PlaceInfo(null, null, countryNameToCountryCode[city])
      ELSE Nowhere

getPlaceInfo(text) ==
  IF text \in wordsToIgnore THEN Nowhere
  ELSE IF AsAirportOrCity(text) # Nowhere THEN AsAirportOrCity(text)
  ELSE AsCityOrCountryName(text)

\* Whether b is a more specific form of the place a, or the same place.
isGeneralization(a, b) ==
  /\ a.countryCode # null /\ a.countryCode = b.countryCode
  /\ a.cityCode \in {null, b.cityCode}
  /\ a.airportCode \in {null, b.airportCode}
====
