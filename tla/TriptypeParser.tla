---- MODULE TriptypeParser ----
(***************************************************************************)
(* TriptypeParser.parse: which n-grams of a text are reported as a kind of *)
(* trip.  Each kind has a file of keywords.  The kinds are taken one after *)
(* the other and, for each, the n-grams of the text from the short ones    *)
(* on; a keyword takes the results its text covers out of the list.        *)
(*                                                                         *)
(* A result is its kind and the index of its n-gram.  Results are only     *)
(* ever added at the end, so the list is the set kept in this order.       *)
(***************************************************************************)
EXTENDS Integers, Sequences

CONSTANTS
  Triptypes,       \* the kinds, in the order of the map: direct, oneway
  keywords(_)      \* the keywords of a kind

VARIABLES
  ngrams,          \* the n-grams of the text
  entry,           \* the kind whose keywords are looked up
  igram,           \* the n-gram looked up next
  triptypeResults  \* the kind and the n-gram of each result

trip == <<entry, igram, triptypeResults>>

TripInit == entry = 1 /\ igram = 1 /\ triptypeResults = {}

\* findOverlayResults, of n-grams.
Covers(k, j) ==
  ngrams[k].start <= ngrams[j].start /\ ngrams[j].stop <= ngrams[k].stop

\* Mutant of Uncovered: the results that cover the new one are removed.
UncoveredBy(k) == {r \in triptypeResults : ~Covers(r.n, k)}

\* The results left when those that lie within n-gram k are removed, from the last
\* one to the first, so that the index of none has changed when its turn comes.
Uncovered(k) == {r \in triptypeResults : ~Covers(k, r.n)}

Searching == entry <= Len(Triptypes) /\ igram <= Len(ngrams)
IsKeyword == ngrams[igram].value \in keywords(Triptypes[entry])

Keyword ==
  /\ Searching /\ IsKeyword
  /\ triptypeResults' = Uncovered(igram) \cup {[triptype |-> Triptypes[entry], n |-> igram]}
  /\ igram' = igram + 1
  /\ UNCHANGED entry

OtherWords ==
  /\ Searching /\ ~IsKeyword
  /\ igram' = igram + 1
  /\ UNCHANGED <<entry, triptypeResults>>

NextTriptype ==
  /\ entry <= Len(Triptypes) /\ igram > Len(ngrams)
  /\ entry' = entry + 1 /\ igram' = 1
  /\ UNCHANGED triptypeResults

TripNext == Keyword \/ OtherWords \/ NextTriptype

--------------------------------------------------------------------------
Place(triptype) == CHOOSE p \in 1..Len(Triptypes) : Triptypes[p] = triptype

\* A result lies within another only when it is of a kind looked up later: of
\* "direct" and "direct flight" one is reported, but a keyword of the second kind
\* stays inside a longer one of the first.
InnerIsLater ==
  \A r, s \in triptypeResults :
    r # s /\ Covers(r.n, s.n) => Place(s.triptype) > Place(r.triptype)

\* When the search is over every keyword of the text is reported, or a keyword that
\* covers it.
AccountedFor ==
  entry > Len(Triptypes) =>
    \A p \in 1..Len(Triptypes) : \A k \in 1..Len(ngrams) :
      ngrams[k].value \in keywords(Triptypes[p]) =>
        \E r \in triptypeResults : Covers(r.n, k)
====
