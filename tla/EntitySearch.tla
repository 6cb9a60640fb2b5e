---- MODULE EntitySearch ----
(***************************************************************************)
(* GeneralParser.parse after the dates: the places of the text are looked  *)
(* up, then the kinds of trip, in n-grams of the same words.               *)
(***************************************************************************)
EXTENDS PlaceParser, FiniteSets

CONSTANTS Triptypes, keywords(_)

\* The kinds are the keys of a map.
ASSUME TriptypesAssumption ==
  Len(Triptypes) \in Nat /\ \A p, q \in 1..Len(Triptypes) : Triptypes[p] = Triptypes[q] => p = q

\* "direct", "one way flight": no word of a keyword is a single letter.
ASSUME KeywordsAssumption ==
  \A p \in 1..Len(Triptypes) : \A keyword \in keywords(Triptypes[p]) : FoundInPlace(keyword)

VARIABLES entry, igram, triptypeResults

\* generateNGrams of up to three words makes the first of those of up to four.
Shorter    == {k \in 1..Len(ngrams) : ngrams[k].last - ngrams[k].first < 3}
TripNGrams == [k \in 1..Cardinality(Shorter) |-> ngrams[k]]

Trip == INSTANCE TriptypeParser WITH ngrams <- TripNGrams

entityVars == <<placeVars, entry, igram, triptypeResults>>

EntityInit == PlaceInit /\ Trip!TripInit

Places == PlaceNext /\ UNCHANGED <<entry, igram, triptypeResults>>
Trips  == ~Looking /\ Trip!TripNext /\ UNCHANGED placeVars

EntityNext == Places \/ Trips

EntitySpec == EntityInit /\ [][EntityNext]_entityVars

--------------------------------------------------------------------------
\* A trip lies within another only when it is of a kind looked up later: of "direct"
\* and "direct flight" one is reported, but a keyword of the second kind stays inside
\* a longer one of the first (TriptypeParser looks up the kinds one after the other).
InnerTripIsLater == Trip!InnerIsLater

\* When the trips have been looked up every keyword of the text is reported, or a
\* keyword that covers it, of its kind or another: what a result takes out of the
\* list it stands for.
KeywordsAreAccountedFor == Trip!AccountedFor
====
