---- MODULE PlaceParser ----
(***************************************************************************)
(* PlaceParser.extractPlaces: which n-grams of a text are reported as      *)
(* places.  The n-grams are looked up one by one, the short ones first; a  *)
(* place takes the results its text contains out of the list, and those it *)
(* is a more specific form of, and stays out itself when the list has a    *)
(* more specific form of it.                                               *)
(*                                                                         *)
(* A result is the index of its n-gram.  Results are only ever added at    *)
(* the end, so the list is the set kept in the order of its indices.       *)
(***************************************************************************)
EXTENDS Integers, Sequences, PlaceDataSource, KeywordEntityParserUtils, Request

CONSTANTS
  Texts   \* the texts parsed

VARIABLES
  ngrams,       \* its n-grams: value, first and last word, start and stop index
  next,         \* the n-gram looked up next
  kept          \* placeResults

placeVars == <<text, ngrams, next, kept>>

\* A text is a list of characters.
ASSUME TextsAssumption == \A t \in Texts : t \in Seq({t[k] : k \in DOMAIN t})

\* The names and codes in the tables ("laayoune hassan i" is the only one that ends in
\* a single letter).
ASSUME NamesAssumption == \A name \in Keys : FoundInPlace(name)

--------------------------------------------------------------------------
Info(k)    == getPlaceInfo(ngrams[k].value)
IsPlace(k) == Info(k) # Nowhere

\* findOverlayResults: the text of j lies within the text of k.
Covers(k, j) ==
  ngrams[k].start <= ngrams[j].start /\ ngrams[j].stop <= ngrams[k].stop

Generalizes(j, k) == isGeneralization(Info(j), Info(k))

\* Mutants of Unrelated: one of the two lists is not removed, or the more specific
\* results are in place of the less specific ones.
UnrelatedButCovered(k)     == {j \in kept : ~Generalizes(j, k)}
UnrelatedButGeneral(k)     == {j \in kept : ~Covers(k, j)}
UnrelatedButSpecific(k)    == {j \in kept : ~Covers(k, j) /\ ~Generalizes(k, j)}

\* The results that neither lie within n-gram k nor are less specific.
Unrelated(k) == {j \in kept : ~Covers(k, j) /\ ~Generalizes(j, k)}

Specifications(k) == {j \in Unrelated(k) : Generalizes(k, j)}

Looking == next <= Len(ngrams)

PlaceInit ==
  /\ text \in Texts
  /\ ngrams = generateNGrams(text, 4)
  /\ next = 1
  /\ kept = {}

Unknown ==
  /\ Looking /\ ~IsPlace(next)
  /\ next' = next + 1
  /\ UNCHANGED <<text, ngrams, kept>>

Add ==
  /\ Looking /\ IsPlace(next) /\ Specifications(next) = {}
  /\ kept' = Unrelated(next) \cup {next}
  /\ next' = next + 1
  /\ UNCHANGED <<text, ngrams>>

\* The results the place contains are removed all the same.
LeaveOut ==
  /\ Looking /\ IsPlace(next) /\ Specifications(next) # {}
  /\ kept' = Unrelated(next)
  /\ next' = next + 1
  /\ UNCHANGED <<text, ngrams>>

PlaceNext == Unknown \/ Add \/ LeaveOut

PlaceSpec == PlaceInit /\ [][PlaceNext]_placeVars

--------------------------------------------------------------------------
\* The list of results holds places only, each looked up already.
PlaceTypeOK ==
  /\ text \in Texts
  /\ next \in 1..(Len(ngrams) + 1)
  /\ kept \in SUBSET {k \in 1..(next - 1) : IsPlace(k)}

\* No result is a less specific form of another, or the same place again: of
\* "france" and "paris" only Paris is reported, in whichever order they stand.
MostSpecific ==
  \A j, k \in kept : j # k => ~Generalizes(j, k)

\* No result lies within the text of another: of "york" and "new york" only New
\* York is reported.
LongestMatch ==
  \A j, k \in kept : j # k => ~Covers(j, k)

Refines(k, j) == k = j \/ Generalizes(j, k)

Seen == {k \in 1..(next - 1) : IsPlace(k)}

\* A place that was looked up is reported, or a more specific form of it; or that
\* more specific form lies within a longer place that came after it.  The last
\* case is how "france" is lost in "from france to paris texas": Paris takes its
\* place before the longer name takes Paris out.
PlacesAreAccountedFor ==
  \A j \in Seen : \E k \in Seen :
    Refines(k, j) /\ (k \in kept \/ \E h \in Seen : h > k /\ Covers(h, k))

\* The n-grams places and trips are looked up in have the index ranges of their words,
\* however often these words, or parts of them, occur in the text.
RangesAreTheWords ==
  ~Looking => \A k \in 1..Len(ngrams) : RangeFits(text, ngrams[k])
====
