---- MODULE GeneralParserProofs ----
(***************************************************************************)
(* Proofs about a request, for every text.  Which places and trips are     *)
(* reported, for all tables and keywords (EntitySearch); and for every     *)
(* list of results what the recursion over the shared list does to the     *)
(* text, and which tokens the loop gives the results their roles from      *)
(* (GeneralParser).                                                        *)
(***************************************************************************)
EXTENDS GeneralParser, EntitySearch, WordsProofs

--------------------------------------------------------------------------
(* The search for places and trips. *)

\* The n-grams of a text have index ranges.
LEMMA NGramsHaveRanges ==
  ASSUME NEW t \in Texts
  PROVE  LET g == generateNGrams(t, 4)
         IN  Len(g) \in Nat /\ \A k \in 1..Len(g) : g[k].start \in Int /\ g[k].stop \in Int
<1>. DEFINE C == {t[k] : k \in DOMAIN t}
<1>1. t \in Seq(C)
  BY TextsAssumption
<1>. HIDE DEF C
<1>. DEFINE words == textTokanization(t)
            g == generateNGrams(t, 4)
<1>2. Len(g) \in Nat /\ \A k \in 1..Len(g) : AtWords(words, Begins(t), g[k])
  BY <1>1, NGramsAre
<1>3. words \in Seq(Seq(C)) /\ Sited(t, words, Begins(t))
  BY <1>1, WordsAreSited
<1>. HIDE DEF words, g
<1>4. ASSUME NEW k \in 1..Len(g) PROVE g[k].start \in Int /\ g[k].stop \in Int
  <2>1. g[k].first \in 1..Len(words) /\ g[k].start \in 0..Begins(t)[g[k].first] /\ g[k].stop \in Int
    BY <1>2 DEF AtWords
  <2>. QED BY <2>1
<1>. QED BY <1>2, <1>4 DEF g

\* What is found in place and is looked up later is not within what was looked up before,
\* but for the same range.
LEMMA LongerLater ==
  ASSUME NEW t \in Texts,
         NEW j \in 1..Len(generateNGrams(t, 4)), NEW k \in 1..Len(generateNGrams(t, 4)), j < k,
         FoundInPlace(generateNGrams(t, 4)[j].value), FoundInPlace(generateNGrams(t, 4)[k].value),
         generateNGrams(t, 4)[j].start <= generateNGrams(t, 4)[k].start,
         generateNGrams(t, 4)[k].stop <= generateNGrams(t, 4)[j].stop
  PROVE  /\ generateNGrams(t, 4)[k].start <= generateNGrams(t, 4)[j].start
         /\ generateNGrams(t, 4)[j].stop <= generateNGrams(t, 4)[k].stop
BY TextsAssumption, LongerIsLater

\* Only what the tables have is a place.
LEMMA PlacesAreKeys ==
  ASSUME NEW v, getPlaceInfo(v) # Nowhere
  PROVE  v \in Keys
BY DEF getPlaceInfo, AsAirportOrCity, AsCityOrCountryName, Lookup, PlaceInfo, Nowhere, Keys

\* What the properties rest on: the n-grams stay those of the text.
PlaceIInv ==
  /\ PlaceTypeOK
  /\ ngrams = generateNGrams(text, 4)
  /\ MostSpecific /\ LongestMatch /\ PlacesAreAccountedFor

\* More specific than something more specific is more specific.
LEMMA GeneralizationIsTransitive ==
  ASSUME NEW a, NEW b, NEW c, isGeneralization(a, b), isGeneralization(b, c)
  PROVE  isGeneralization(a, c)
BY DEF isGeneralization

\* The n-grams of the text have index ranges.
LEMMA RangesAreNumbers ==
  ASSUME PlaceIInv
  PROVE  /\ Len(ngrams) \in Nat
         /\ \A k \in 1..Len(ngrams) : ngrams[k].start \in Int /\ ngrams[k].stop \in Int
BY NGramsHaveRanges DEF PlaceIInv, PlaceTypeOK

\* What a step does to the looked-up n-grams: the next one joins them, and those
\* that were there keep their places.
LEMMA SeenGrows ==
  ASSUME PlaceIInv, Looking, next' = next + 1, UNCHANGED <<text, ngrams>>
  PROVE  /\ Seen' = Seen \cup (IF IsPlace(next) THEN {next} ELSE {})
         /\ next \in Nat /\ next \in 1..Len(ngrams)
         /\ \A j \in Seen : j \in Nat /\ j < next /\ j \in 1..Len(ngrams)
         /\ kept \subseteq Seen
         /\ \A j, k : Generalizes(j, k)' = Generalizes(j, k)
         /\ \A j, k : Covers(j, k)' = Covers(j, k)
<1>1. /\ Len(ngrams) \in Nat /\ next \in 1..Len(ngrams)
  BY RangesAreNumbers DEF PlaceIInv, PlaceTypeOK, Looking
<1>2. \A k : IsPlace(k)' = IsPlace(k)
  BY DEF IsPlace, Info
<1>3. \A j, k : Generalizes(j, k)' = Generalizes(j, k)
  BY DEF Generalizes, Info
<1>4. \A j, k : Covers(j, k)' = Covers(j, k)
  BY DEF Covers
<1>5. Seen' = Seen \cup (IF IsPlace(next) THEN {next} ELSE {})
  <2>1. (1..(next - 1))' = 1..next
    BY <1>1
  <2>2. 1..next = 1..(next - 1) \cup {next}
    BY <1>1
  <2>. QED BY <1>2, <2>1, <2>2 DEF Seen
<1>6. \A j \in Seen : j \in Nat /\ j < next /\ j \in 1..Len(ngrams)
  BY <1>1 DEF Seen
<1>7. kept \subseteq Seen
  BY DEF PlaceIInv, PlaceTypeOK, Seen
<1>. QED BY <1>1, <1>3, <1>4, <1>5, <1>6, <1>7

\* A place that joins the results, or finds a more specific one among them, keeps
\* everything of the invariant; the results it removes are accounted for by its
\* own text, or by it or the more specific one.
LEMMA PlaceKeeps ==
  ASSUME PlaceIInv, Add \/ LeaveOut
  PROVE  PlaceIInv'
<1>1. /\ Looking /\ IsPlace(next) /\ next' = next + 1 /\ UNCHANGED <<text, ngrams>>
  BY DEF Add, LeaveOut
<1>2. /\ Seen' = Seen \cup {next}
      /\ next \in Nat /\ next \in 1..Len(ngrams)
      /\ \A j \in Seen : j \in Nat /\ j < next /\ j \in 1..Len(ngrams)
      /\ kept \subseteq Seen
      /\ \A j, k : Generalizes(j, k)' = Generalizes(j, k)
      /\ \A j, k : Covers(j, k)' = Covers(j, k)
  BY <1>1, SeenGrows
<1>3. /\ kept' \subseteq Unrelated(next) \cup {next}
      /\ Unrelated(next) \subseteq kept'
      /\ next \in kept' => Specifications(next) = {}
      /\ next \notin kept' => Specifications(next) # {}
  <2>1. next \notin Unrelated(next)
    BY <1>2 DEF Unrelated
  <2>. QED BY <2>1 DEF Add, LeaveOut
<1>4. Unrelated(next) \subseteq kept
  BY DEF Unrelated
<1>5. PlaceTypeOK'
  <2>1. next' \in 1..(Len(ngrams') + 1) /\ text' \in Texts
    BY <1>1, <1>2, RangesAreNumbers DEF PlaceIInv, PlaceTypeOK
  <2>2. kept' \subseteq Seen'
    BY <1>2, <1>3, <1>4
  <2>. QED BY <2>1, <2>2 DEF PlaceTypeOK, Seen
<1>6. MostSpecific'
  <2>. SUFFICES ASSUME NEW j \in kept', NEW k \in kept', j # k
                PROVE  ~Generalizes(j, k)
    BY <1>2 DEF MostSpecific
  <2>1. CASE j \in kept /\ k \in kept
    BY <2>1 DEF PlaceIInv, MostSpecific
  <2>2. CASE k = next
    BY <1>3, <2>2 DEF Unrelated
  <2>3. CASE j = next
    <3>1. k \in Unrelated(next) /\ Specifications(next) = {}
      BY <1>3, <2>3
    <3>. QED BY <2>3, <3>1 DEF Specifications
  <2>. QED BY <1>3, <1>4, <2>1, <2>2, <2>3
<1>7. LongestMatch'
  <2>. SUFFICES ASSUME NEW j \in kept', NEW k \in kept', j # k
                PROVE  ~Covers(j, k)
    BY <1>2 DEF LongestMatch
  <2>1. CASE j \in kept /\ k \in kept
    BY <2>1 DEF PlaceIInv, LongestMatch
  <2>2. CASE j = next
    BY <1>3, <2>2 DEF Unrelated
  <2>3. CASE k = next
    <3>1. j \in Unrelated(next) /\ j \in Seen
      BY <1>2, <1>3, <1>4, <2>3
    <3>2. ~Covers(next, j)
      BY <3>1 DEF Unrelated
    <3>3. IsPlace(j) /\ j < next /\ j \in 1..Len(ngrams)
      BY <1>2, <3>1 DEF Seen
    <3>4. Covers(j, next) => Covers(next, j)
      <4>1. FoundInPlace(ngrams[j].value) /\ FoundInPlace(ngrams[next].value)
        BY <1>1, <3>3, PlacesAreKeys, NamesAssumption DEF IsPlace, Info
      <4>2. text \in Texts /\ ngrams = generateNGrams(text, 4)
        BY DEF PlaceIInv, PlaceTypeOK
      <4>. QED BY <1>2, <3>3, <4>1, <4>2, LongerLater DEF Covers
    <3>. QED BY <2>3, <3>2, <3>4
  <2>. QED BY <1>3, <1>4, <2>1, <2>2, <2>3
<1>8. PlacesAreAccountedFor'
  <2>1. ASSUME NEW j, NEW k \in Seen, Refines(k, j), k \in kept
        PROVE  \E r \in Seen \cup {next} :
                 Refines(r, j) /\ (r \in kept' \/ \E h \in Seen \cup {next} : h > r /\ Covers(h, r))
    <3>1. CASE k \in Unrelated(next)
      BY <1>3, <2>1, <3>1
    <3>2. CASE Covers(next, k)
      BY <1>2, <2>1, <3>2
    <3>3. CASE Generalizes(k, next)
      <4>1. Refines(next, j)
        BY <2>1, <3>3, GeneralizationIsTransitive DEF Refines, Generalizes
      <4>2. CASE next \in kept'
        BY <4>1, <4>2
      <4>3. CASE next \notin kept'
        <5>1. PICK s \in Specifications(next) : TRUE
          BY <1>3, <4>3
        <5>2. s \in kept' /\ s \in Seen /\ Generalizes(next, s)
          BY <1>2, <1>3, <1>4, <5>1 DEF Specifications
        <5>3. Generalizes(k, s)
          BY <3>3, <5>2, GeneralizationIsTransitive DEF Generalizes
        <5>4. Refines(s, j)
          BY <2>1, <5>3, GeneralizationIsTransitive DEF Refines, Generalizes
        <5>. QED BY <5>2, <5>4
      <4>. QED BY <4>2, <4>3
    <3>. QED BY <2>1, <3>1, <3>2, <3>3 DEF Unrelated
  <2>2. ASSUME NEW j \in Seen
        PROVE  \E r \in Seen \cup {next} :
                 Refines(r, j) /\ (r \in kept' \/ \E h \in Seen \cup {next} : h > r /\ Covers(h, r))
    <3>1. PICK k \in Seen : Refines(k, j) /\ (k \in kept \/ \E h \in Seen : h > k /\ Covers(h, k))
      BY DEF PlaceIInv, PlacesAreAccountedFor
    <3>2. CASE k \in kept
      BY <2>1, <3>1, <3>2
    <3>3. CASE k \notin kept
      BY <3>1, <3>3
    <3>. QED BY <3>2, <3>3
  <2>3. \E r \in Seen \cup {next} : Refines(r, next) /\ r \in kept'
    <3>1. CASE next \in kept'
      BY <3>1 DEF Refines
    <3>2. CASE next \notin kept'
      BY <1>2, <1>3, <1>4, <3>2 DEF Specifications, Refines
    <3>. QED BY <3>1, <3>2
  <2>4. \A r, j : Refines(r, j)' = Refines(r, j)
    BY <1>2 DEF Refines
  <2>5. \A j \in Seen \cup {next} : \E r \in Seen \cup {next} :
          Refines(r, j) /\ (r \in kept' \/ \E h \in Seen \cup {next} : h > r /\ Covers(h, r))
    BY <2>2, <2>3
  <2>. QED BY <1>2, <2>4, <2>5 DEF PlacesAreAccountedFor
<1>. QED BY <1>1, <1>5, <1>6, <1>7, <1>8 DEF PlaceIInv

\* An n-gram that is no place changes no result.
LEMMA UnknownKeeps ==
  ASSUME PlaceIInv, Unknown
  PROVE  PlaceIInv'
<1>1. /\ Looking /\ ~IsPlace(next) /\ next' = next + 1
      /\ UNCHANGED <<text, ngrams>> /\ kept' = kept
  BY DEF Unknown
<1>2. /\ Seen' = Seen
      /\ next \in 1..Len(ngrams) /\ kept \subseteq Seen
      /\ \A j, k : Generalizes(j, k)' = Generalizes(j, k)
      /\ \A j, k : Covers(j, k)' = Covers(j, k)
  BY <1>1, SeenGrows
<1>3. PlaceTypeOK'
  <2>1. next' \in 1..(Len(ngrams') + 1) /\ text' \in Texts
    BY <1>1, <1>2, RangesAreNumbers DEF PlaceIInv, PlaceTypeOK
  <2>2. kept' \subseteq Seen'
    BY <1>1, <1>2
  <2>. QED BY <2>1, <2>2 DEF PlaceTypeOK, Seen
<1>4. MostSpecific' /\ LongestMatch'
  BY <1>1, <1>2 DEF PlaceIInv, MostSpecific, LongestMatch
<1>5. PlacesAreAccountedFor'
  <2>1. \A r, j : Refines(r, j)' = Refines(r, j)
    BY <1>2 DEF Refines
  <2>. QED BY <1>1, <1>2, <2>1 DEF PlaceIInv, PlacesAreAccountedFor
<1>. QED BY <1>1, <1>3, <1>4, <1>5 DEF PlaceIInv

\* No n-gram looked up yet, no result.
LEMMA PlaceInitIInv == PlaceInit => PlaceIInv
<1>. SUFFICES ASSUME PlaceInit PROVE PlaceIInv
  OBVIOUS
<1>1. text \in Texts /\ ngrams = generateNGrams(text, 4) /\ next = 1 /\ kept = {}
  BY DEF PlaceInit
<1>2. Len(ngrams) \in Nat
  BY <1>1, NGramsHaveRanges
<1>3. Seen = {}
  BY <1>1 DEF Seen
<1>. QED BY <1>1, <1>2, <1>3
     DEF PlaceIInv, PlaceTypeOK, MostSpecific, LongestMatch, PlacesAreAccountedFor

\* The invariant holds of the whole loop.
THEOREM PlaceInvariance == PlaceSpec => []PlaceIInv
<1>1. PlaceIInv /\ [PlaceNext]_placeVars => PlaceIInv'
  <2>. SUFFICES ASSUME PlaceIInv, [PlaceNext]_placeVars PROVE PlaceIInv'
    OBVIOUS
  <2>1. CASE PlaceNext
    BY <2>1, PlaceKeeps, UnknownKeeps DEF PlaceNext
  <2>2. CASE UNCHANGED placeVars
    <3>1. \A k : IsPlace(k)' = IsPlace(k)
      BY <2>2 DEF IsPlace, Info, placeVars
    <3>2. \A j, k : Generalizes(j, k)' = Generalizes(j, k) /\ Refines(j, k)' = Refines(j, k)
      BY <2>2 DEF Generalizes, Refines, Info, placeVars
    <3>3. \A j, k : Covers(j, k)' = Covers(j, k)
      BY <2>2 DEF Covers, placeVars
    <3>4. Seen' = Seen
      BY <2>2, <3>1 DEF Seen, placeVars
    <3>. QED BY <2>2, <3>1, <3>2, <3>3, <3>4
         DEF PlaceIInv, PlaceTypeOK, MostSpecific, LongestMatch, PlacesAreAccountedFor, placeVars
  <2>. QED BY <2>1, <2>2
<1>. QED BY PlaceInitIInv, <1>1, PTL DEF PlaceSpec

\* The results are n-grams that are places, each looked up before.
THEOREM PlaceTypeCorrect == PlaceSpec => []PlaceTypeOK
<1>1. PlaceIInv => PlaceTypeOK
  BY DEF PlaceIInv
<1>. QED BY <1>1, PlaceInvariance, PTL

\* Whatever the tables hold, no result is a less specific form of another.
THEOREM ResultsAreMostSpecific == PlaceSpec => []MostSpecific
<1>1. PlaceIInv => MostSpecific
  BY DEF PlaceIInv
<1>. QED BY <1>1, PlaceInvariance, PTL

\* No result lies within another, as long as no place is looked up after one its
\* text lies within.
THEOREM ResultsAreLongest == PlaceSpec => []LongestMatch
<1>1. PlaceIInv => LongestMatch
  BY DEF PlaceIInv
<1>. QED BY <1>1, PlaceInvariance, PTL

\* Every place of the text is accounted for, however long the chains are in which
\* results replace one another.
THEOREM AllPlacesAreAccountedFor == PlaceSpec => []PlacesAreAccountedFor
<1>1. PlaceIInv => PlacesAreAccountedFor
  BY DEF PlaceIInv
<1>. QED BY <1>1, PlaceInvariance, PTL

--------------------------------------------------------------------------
\* Trips: the n-grams they are looked up in, and those that are keywords of a kind.
Kinds        == 1..Len(Triptypes)
TripIndices  == 1..Len(TripNGrams)
IsWord(p, k) == TripNGrams[k].value \in keywords(Triptypes[p])

LookedUp(p, k) == p < entry \/ (p = entry /\ k < igram)

TripResult(p, k) == [triptype |-> Triptypes[p], n |-> k]

\* The inductive invariant of the search for trips.
TripIInv ==
  /\ text \in Texts /\ ngrams = generateNGrams(text, 4)
  /\ entry \in Nat \ {0} /\ igram \in Nat \ {0}
  /\ \A r \in triptypeResults : \E p \in Kinds, k \in TripIndices :
       r = TripResult(p, k) /\ LookedUp(p, k) /\ IsWord(p, k)
  /\ InnerTripIsLater
  /\ \A p \in Kinds, k \in TripIndices :
       LookedUp(p, k) /\ IsWord(p, k) => \E r \in triptypeResults : Trip!Covers(r.n, k)

\* The n-grams for trips are those of up to three words.
LEMMA TripNGramsAre ==
  ASSUME text \in Texts, ngrams = generateNGrams(text, 4)
  PROVE  /\ TripNGrams = generateNGrams(text, 3)
         /\ Len(TripNGrams) \in Nat /\ Len(TripNGrams) <= Len(ngrams)
         /\ TripNGrams = [k \in 1..Len(TripNGrams) |-> ngrams[k]]
<1>. DEFINE C == {text[k] : k \in DOMAIN text}
            old == generateNGrams(text, 3)
            a == Len(old)
<1>1. text \in Seq(C) /\ 3 \in Nat /\ 3 + 1 = 4
  BY TextsAssumption
<1>. HIDE DEF C
<1>2. /\ a \in Nat /\ Len(ngrams) \in Nat /\ a <= Len(ngrams)
      /\ old = [k \in 1..a |-> ngrams[k]]
      /\ \A k \in 1..Len(ngrams) : MoreWords(ngrams[k]) < 3 <=> k <= a
  BY <1>1, ShorterFirst
<1>. HIDE DEF a, old
<1>3. Shorter = 1..a
  <2>1. Shorter = {k \in 1..Len(ngrams) : k <= a}
    BY <1>2 DEF Shorter, MoreWords
  <2>. QED BY <1>2, <2>1
<1>4. Cardinality(1..a) = a
  <2>1. a \in Int /\ 1 \in Int /\ a >= 0
    BY <1>2
  <2>2. Cardinality(1..a) = IF 1 > a THEN 0 ELSE a - 1 + 1
    BY <2>1, FS_Interval
  <2>. QED BY <2>1, <2>2
<1>5. TripNGrams = old
  BY <1>2, <1>3, <1>4 DEF TripNGrams
<1>. QED BY <1>2, <1>5 DEF a, old

LEMMA TripNGramsAreNGrams ==
  ASSUME text \in Texts, ngrams = generateNGrams(text, 4)
  PROVE  /\ Len(TripNGrams) \in Nat
         /\ \A k \in TripIndices : /\ k \in 1..Len(ngrams) /\ TripNGrams[k] = ngrams[k]
                                   /\ ngrams[k].start \in Int /\ ngrams[k].stop \in Int
<1>1. Len(ngrams) \in Nat /\ \A k \in 1..Len(ngrams) : ngrams[k].start \in Int /\ ngrams[k].stop \in Int
  BY NGramsHaveRanges
<1>. DEFINE n == Len(TripNGrams)
<1>2. n \in Nat /\ n <= Len(ngrams) /\ TripNGrams = [k \in 1..n |-> ngrams[k]]
  BY TripNGramsAre
<1>. HIDE DEF n
<1>. QED BY <1>1, <1>2 DEF TripIndices, n

\* To cover is an order on index ranges.
LEMMA CoveringIsTransitive ==
  ASSUME text \in Texts, ngrams = generateNGrams(text, 4),
         NEW h \in TripIndices, NEW j \in TripIndices, NEW k \in TripIndices
  PROVE  /\ Trip!Covers(k, k)
         /\ Trip!Covers(h, j) /\ Trip!Covers(j, k) => Trip!Covers(h, k)
<1>1. \A n \in TripIndices : TripNGrams[n].start \in Int /\ TripNGrams[n].stop \in Int
  BY TripNGramsAreNGrams
<1>. QED BY <1>1 DEF Trip!Covers

\* A keyword is not within one of its kind looked up before it, but for one of the
\* same text.
LEMMA KeywordsComeLater ==
  ASSUME text \in Texts, ngrams = generateNGrams(text, 4), NEW p \in Kinds,
         NEW j \in TripIndices, NEW k \in TripIndices, j < k,
         IsWord(p, j), IsWord(p, k), Trip!Covers(j, k)
  PROVE  Trip!Covers(k, j)
<1>1. /\ j \in 1..Len(ngrams) /\ k \in 1..Len(ngrams)
      /\ TripNGrams[j] = ngrams[j] /\ TripNGrams[k] = ngrams[k]
  BY TripNGramsAreNGrams
<1>2. /\ ngrams[j].value \in keywords(Triptypes[p]) /\ ngrams[k].value \in keywords(Triptypes[p])
      /\ ngrams[j].start <= ngrams[k].start /\ ngrams[k].stop <= ngrams[j].stop
  BY <1>1 DEF IsWord, Trip!Covers
<1>3. ngrams[k].start <= ngrams[j].start /\ ngrams[j].stop <= ngrams[k].stop
  <2>1. FoundInPlace(ngrams[j].value) /\ FoundInPlace(ngrams[k].value)
    BY <1>2, KeywordsAssumption DEF Kinds
  <2>. QED BY <1>1, <1>2, <2>1, LongerLater
<1>. QED BY <1>1, <1>3 DEF Trip!Covers

\* The place of a kind is its index.
LEMMA PlaceOfKind == ASSUME NEW p \in Kinds PROVE Trip!Place(Triptypes[p]) = p
BY TriptypesAssumption DEF Trip!Place, Kinds

\* A step that leaves the n-grams alone leaves alone what is said of them.
LEMMA NGramsStay ==
  ASSUME UNCHANGED <<text, ngrams>>
  PROVE  /\ TripNGrams' = TripNGrams /\ TripIndices' = TripIndices
         /\ \A p, k : IsWord(p, k)' = IsWord(p, k)
         /\ \A j, k : Trip!Covers(j, k)' = Trip!Covers(j, k)
<1>1. TripNGrams' = TripNGrams
  BY DEF TripNGrams, Shorter
<1>. QED BY <1>1 DEF TripIndices, IsWord, Trip!Covers

\* A keyword takes out what it covers and stands for it from then on; a result that
\* covers it is of a kind before its own.
LEMMA KeywordKeeps ==
  ASSUME TripIInv, Trip!Keyword, UNCHANGED <<text, ngrams>>
  PROVE  TripIInv'
<1>1. /\ text \in Texts /\ ngrams = generateNGrams(text, 4)
      /\ entry \in Kinds /\ igram \in TripIndices /\ IsWord(entry, igram)
      /\ triptypeResults' = {r \in triptypeResults : ~Trip!Covers(igram, r.n)} \cup {TripResult(entry, igram)}
      /\ igram' = igram + 1 /\ entry' = entry
      /\ igram \in Nat /\ entry \in Nat
  <2>1. /\ text \in Texts /\ ngrams = generateNGrams(text, 4) /\ entry \in Nat \ {0} /\ igram \in Nat \ {0}
    BY DEF TripIInv
  <2>2. Len(TripNGrams) \in Nat /\ Len(Triptypes) \in Nat
    BY <2>1, TripNGramsAreNGrams, TriptypesAssumption
  <2>3. entry \in Kinds /\ igram \in TripIndices
    BY <2>1, <2>2 DEF Trip!Keyword, Trip!Searching, Kinds, TripIndices
  <2>. QED BY <2>1, <2>3 DEF Trip!Keyword, Trip!IsKeyword, Trip!Uncovered, IsWord, TripResult
<1>. DEFINE new == TripResult(entry, igram)
<1>2. new.n = igram /\ new.triptype = Triptypes[entry]
  BY DEF TripResult
<1>. HIDE DEF new
<1>3. \A p \in Kinds, k \in TripIndices :
        LookedUp(p, k)' <=> LookedUp(p, k) \/ (p = entry /\ k = igram)
  BY <1>1 DEF LookedUp, Kinds, TripIndices
<1>4. \A r \in triptypeResults : \E p \in Kinds, k \in TripIndices :
        r = TripResult(p, k) /\ LookedUp(p, k) /\ IsWord(p, k)
  BY DEF TripIInv
<1>5. \A r \in triptypeResults' : \E p \in Kinds, k \in TripIndices :
        r = TripResult(p, k) /\ LookedUp(p, k)' /\ IsWord(p, k)
  <2>. SUFFICES ASSUME NEW r \in triptypeResults'
                PROVE  \E p \in Kinds, k \in TripIndices :
                         r = TripResult(p, k) /\ LookedUp(p, k)' /\ IsWord(p, k)
    OBVIOUS
  <2>1. CASE r = new
    BY <1>1, <1>3, <2>1 DEF new
  <2>2. CASE r \in triptypeResults
    BY <1>3, <1>4, <2>2
  <2>. QED BY <1>1, <2>1, <2>2 DEF new
<1>6. ASSUME NEW r \in triptypeResults', NEW s \in triptypeResults', r # s, Trip!Covers(r.n, s.n)
      PROVE  Trip!Place(s.triptype) > Trip!Place(r.triptype)
  <2>1. CASE r \in triptypeResults /\ s \in triptypeResults
    BY <1>6, <2>1 DEF TripIInv, InnerTripIsLater, Trip!InnerIsLater
  <2>2. CASE r = new
    BY <1>1, <1>2, <1>6, <2>2 DEF new
  <2>3. CASE s = new /\ r \in triptypeResults /\ r # new
    <3>1. ~Trip!Covers(igram, r.n)
      BY <1>1, <2>3 DEF new
    <3>2. PICK p \in Kinds, k \in TripIndices : r = TripResult(p, k) /\ LookedUp(p, k) /\ IsWord(p, k)
      BY <1>4, <2>3
    <3>3. r.n = k /\ r.triptype = Triptypes[p]
      BY <3>2 DEF TripResult
    <3>4. p \in Nat /\ k \in Nat
      BY DEF Kinds, TripIndices
    <3>5. p # entry
      <4>1. SUFFICES ASSUME p = entry PROVE FALSE
        OBVIOUS
      <4>2. k < igram
        BY <1>1, <3>2, <3>4, <4>1 DEF LookedUp
      <4>3. Trip!Covers(igram, k)
        BY <1>1, <1>2, <1>6, <2>3, <3>2, <3>3, <4>1, <4>2, KeywordsComeLater
      <4>. QED BY <3>1, <3>3, <4>3
    <3>6. p < entry
      BY <1>1, <3>2, <3>4, <3>5 DEF LookedUp
    <3>. QED BY <1>1, <1>2, <2>3, <3>3, <3>6, PlaceOfKind
  <2>. QED BY <1>1, <2>1, <2>2, <2>3 DEF new
<1>7. ASSUME NEW p \in Kinds, NEW k \in TripIndices, LookedUp(p, k)', IsWord(p, k)
      PROVE  \E r \in triptypeResults' : Trip!Covers(r.n, k)
  <2>0. new \in triptypeResults'
    BY <1>1 DEF new
  <2>1. CASE p = entry /\ k = igram
    BY <1>1, <1>2, <2>0, <2>1, CoveringIsTransitive
  <2>2. CASE LookedUp(p, k)
    <3>1. PICK r \in triptypeResults : Trip!Covers(r.n, k)
      BY <1>7, <2>2 DEF TripIInv
    <3>2. CASE Trip!Covers(igram, r.n)
      <4>1. r.n \in TripIndices
        BY <1>4 DEF TripResult
      <4>. QED BY <1>1, <1>2, <2>0, <3>1, <3>2, <4>1, CoveringIsTransitive
    <3>3. CASE ~Trip!Covers(igram, r.n)
      BY <1>1, <3>1, <3>3
    <3>. QED BY <3>2, <3>3
  <2>. QED BY <1>3, <1>7, <2>1, <2>2
<1>8. /\ TripNGrams' = TripNGrams /\ TripIndices' = TripIndices
      /\ \A p, k : IsWord(p, k)' = IsWord(p, k)
      /\ \A j, k : Trip!Covers(j, k)' = Trip!Covers(j, k)
  BY NGramsStay
<1>9. InnerTripIsLater'
  BY <1>6, <1>8 DEF InnerTripIsLater, Trip!InnerIsLater, Trip!Place
<1>10. text' \in Texts /\ ngrams' = generateNGrams(text', 4) /\ entry' \in Nat \ {0} /\ igram' \in Nat \ {0}
  BY <1>1 DEF TripIInv
<1>. QED BY <1>5, <1>7, <1>8, <1>9, <1>10 DEF TripIInv, TripResult

\* Other steps change no result; every n-gram has been looked up when the next kind is taken.
LEMMA OtherTripStepsKeep ==
  ASSUME TripIInv, UNCHANGED <<text, ngrams, triptypeResults>>,
         Trip!OtherWords \/ Trip!NextTriptype \/ UNCHANGED <<entry, igram>>
  PROVE  TripIInv'
<1>1. /\ text \in Texts /\ ngrams = generateNGrams(text, 4) /\ entry \in Nat \ {0} /\ igram \in Nat \ {0}
      /\ Len(TripNGrams) \in Nat
  BY TripNGramsAreNGrams DEF TripIInv
<1>2. /\ TripNGrams' = TripNGrams /\ TripIndices' = TripIndices
      /\ \A p, k : IsWord(p, k)' = IsWord(p, k)
      /\ \A j, k : Trip!Covers(j, k)' = Trip!Covers(j, k)
  BY NGramsStay
<1>3. entry' \in Nat \ {0} /\ igram' \in Nat \ {0}
  BY <1>1 DEF Trip!OtherWords, Trip!NextTriptype
<1>4. ASSUME NEW p \in Kinds, NEW k \in TripIndices
      PROVE  /\ LookedUp(p, k) => LookedUp(p, k)'
             /\ LookedUp(p, k)' /\ IsWord(p, k) => LookedUp(p, k)
  <2>1. p \in Nat /\ k \in Nat /\ k <= Len(TripNGrams)
    BY <1>1 DEF Kinds, TripIndices
  <2>2. CASE Trip!OtherWords
    <3>1. igram' = igram + 1 /\ entry' = entry /\ ~IsWord(entry, igram)
      BY <2>2 DEF Trip!OtherWords, Trip!IsKeyword, IsWord
    <3>2. LookedUp(p, k)' <=> LookedUp(p, k) \/ (p = entry /\ k = igram)
      BY <1>1, <2>1, <3>1 DEF LookedUp
    <3>. QED BY <3>1, <3>2
  <2>3. CASE Trip!NextTriptype
    <3>1. entry' = entry + 1 /\ igram' = 1 /\ igram > Len(TripNGrams)
      BY <2>3 DEF Trip!NextTriptype
    <3>2. k >= 1
      BY DEF TripIndices
    <3>. QED BY <1>1, <2>1, <3>1, <3>2 DEF LookedUp
  <2>4. CASE UNCHANGED <<entry, igram>>
    BY <2>4 DEF LookedUp
  <2>. QED BY <2>2, <2>3, <2>4
<1>5. InnerTripIsLater'
  BY <1>2 DEF TripIInv, InnerTripIsLater, Trip!InnerIsLater, Trip!Place
<1>6. \A r \in triptypeResults : \E p \in Kinds, k \in TripIndices :
        r = TripResult(p, k) /\ LookedUp(p, k)' /\ IsWord(p, k)
  BY <1>4 DEF TripIInv
<1>7. \A p \in Kinds, k \in TripIndices :
        LookedUp(p, k)' /\ IsWord(p, k) => \E r \in triptypeResults : Trip!Covers(r.n, k)
  BY <1>4 DEF TripIInv
<1>8. text' \in Texts /\ ngrams' = generateNGrams(text', 4)
  BY <1>1
<1>. QED BY <1>2, <1>3, <1>5, <1>6, <1>7, <1>8 DEF TripIInv, TripResult

\* What is proved of places holds while trips are looked up as well.
THEOREM PlacesComeFirst == EntitySpec => PlaceSpec
<1>1. EntityInit => PlaceInit
  BY DEF EntityInit
<1>2. [EntityNext]_entityVars => [PlaceNext]_placeVars
  BY DEF EntityNext, Places, Trips, entityVars
<1>. QED BY <1>1, <1>2, PTL DEF EntitySpec, PlaceSpec

\* The results are keywords that have been looked up, and stand for all of these.
THEOREM TripInvariance == EntitySpec => []TripIInv
<1>1. EntityInit => TripIInv
  <2>. SUFFICES ASSUME EntityInit PROVE TripIInv
    OBVIOUS
  <2>1. /\ text \in Texts /\ ngrams = generateNGrams(text, 4)
        /\ entry = 1 /\ igram = 1 /\ triptypeResults = {}
    BY DEF EntityInit, PlaceInit, Trip!TripInit
  <2>2. \A p \in Kinds, k \in TripIndices : ~LookedUp(p, k)
    BY <2>1 DEF LookedUp, Kinds, TripIndices
  <2>. QED BY <2>1, <2>2 DEF TripIInv, InnerTripIsLater, Trip!InnerIsLater
<1>2. TripIInv /\ [EntityNext]_entityVars => TripIInv'
  <2>. SUFFICES ASSUME TripIInv, [EntityNext]_entityVars PROVE TripIInv'
    OBVIOUS
  <2>1. CASE Places
    <3>1. UNCHANGED <<text, ngrams, triptypeResults, entry, igram>>
      BY <2>1 DEF Places, PlaceNext, Unknown, Add, LeaveOut
    <3>. QED BY <3>1, OtherTripStepsKeep
  <2>2. CASE Trips
    <3>1. UNCHANGED <<text, ngrams>>
      BY <2>2 DEF Trips, placeVars
    <3>2. CASE Trip!Keyword
      BY <3>1, <3>2, KeywordKeeps
    <3>3. CASE Trip!OtherWords \/ Trip!NextTriptype
      <4>1. UNCHANGED triptypeResults
        BY <3>3 DEF Trip!OtherWords, Trip!NextTriptype
      <4>. QED BY <3>1, <3>3, <4>1, OtherTripStepsKeep
    <3>. QED BY <2>2, <3>2, <3>3 DEF Trips, Trip!TripNext
  <2>3. CASE UNCHANGED entityVars
    <3>1. UNCHANGED <<text, ngrams, triptypeResults, entry, igram>>
      BY <2>3 DEF entityVars, placeVars
    <3>. QED BY <3>1, OtherTripStepsKeep
  <2>. QED BY <2>1, <2>2, <2>3 DEF EntityNext
<1>. QED BY <1>1, <1>2, PTL DEF EntitySpec

\* For all keywords and all n-grams, a trip lies within another only when it is of a kind
\* that is looked up later.
THEOREM InnerTripIsAlwaysLater == EntitySpec => []InnerTripIsLater
<1>1. TripIInv => InnerTripIsLater
  BY DEF TripIInv
<1>. QED BY <1>1, TripInvariance, PTL

\* No keyword of the text is lost without one that covers it, through any number of
\* replacements.
THEOREM KeywordsAreAlwaysAccountedFor == EntitySpec => []KeywordsAreAccountedFor
<1>1. ASSUME TripIInv PROVE KeywordsAreAccountedFor
  <2>. SUFFICES ASSUME entry > Len(Triptypes), NEW p \in Kinds, NEW k \in TripIndices, IsWord(p, k)
                PROVE  \E r \in triptypeResults : Trip!Covers(r.n, k)
    BY DEF KeywordsAreAccountedFor, Trip!AccountedFor, Kinds, TripIndices, IsWord
  <2>1. LookedUp(p, k)
    BY <1>1, TriptypesAssumption DEF LookedUp, Kinds, TripIInv
  <2>. QED BY <1>1, <2>1 DEF TripIInv
<1>. QED BY <1>1, TripInvariance, PTL

--------------------------------------------------------------------------

\* The n-grams places and trips are looked up in have the ranges of their words, for
\* every text however long and however often its words occur in it.
THEOREM RangesAreAlwaysTheWords == EntitySpec => []RangesAreTheWords
<1>1. ASSUME TripIInv PROVE RangesAreTheWords
  <2>1. text \in Seq({text[k] : k \in DOMAIN text}) /\ ngrams = generateNGrams(text, 4)
    BY <1>1, TextsAssumption DEF TripIInv
  <2>. QED BY <2>1, RangesFit DEF RangesAreTheWords
<1>. QED BY <1>1, TripInvariance, PTL

\* The n-grams that trips are looked up in, the first of those for places, are those
\* TriptypeParser makes anew.
THEOREM TripsHaveTheirNGrams == EntitySpec => [](TripNGrams = generateNGrams(text, 3))
<1>1. TripIInv => TripNGrams = generateNGrams(text, 3)
  BY TripNGramsAre DEF TripIInv
<1>. QED BY <1>1, TripInvariance, PTL

--------------------------------------------------------------------------
(* What is left to do, as what it is: the parts of the text and the labels *)
(* in w, the results put, and those that wait to be used; n is the length  *)
(* of the text.                                                            *)

PartRecord == [id : {None}, start : Nat, stop : Nat]
Items      == PartRecord \cup Result

PartsOf(w) == {k \in DOMAIN w : w[k].id = None}
Waiting    == {unused[k] : k \in DOMAIN unused}

Apart(r, s) == r.stop < s.start \/ s.stop < r.start

\* Each part ends behind its start, at the end of the text or where a used result
\* starts; the parts are in order; no used result reaches into one, or meets another.
Ordered(w, put, n) ==
  /\ \A k \in PartsOf(w) :
       w[k].start <= w[k].stop /\ (w[k].stop = n \/ \E r \in put : r.start = w[k].stop)
  /\ \A j, k \in PartsOf(w) : j < k => w[j].stop < w[k].start
  /\ \A r \in put : \A k \in PartsOf(w) : r.stop < w[k].start \/ w[k].stop <= r.start
  /\ \A r, s \in put : r # s => Apart(r, s)

\* The first character behind a part, or a label.
End(x) == IF x.id = None THEN x.stop ELSE x.stop + 1

\* Each begins where the one before it ends, and the last ends with the text.
Chained(w, n) ==
  /\ \A k \in DOMAIN w : k < Len(w) => End(w[k]) = w[k + 1].start
  /\ w # <<>> => End(w[Len(w)]) = n

\* How far the text is tagged.
Position(w, n) == IF w = <<>> THEN n ELSE w[1].start

\* The first n pieces of the text s.
Pieces(s, put, n) == FlattenSeq([p \in 1..n |-> Piece(s, put, p - 1)])

\* What waits meets a used result, or lies in a part that is still to be tagged.
Accounted(w, put, waiting) ==
  \A r \in waiting :
    (\E s \in put : ~Apart(r, s)) \/ (\E k \in PartsOf(w) : Fits(r, w[k]))

Shape ==
  /\ text \in Seq(STRING) /\ tagged \in Seq(STRING)
  /\ results \in Seq(Result) /\ unused \in Seq(Result) /\ work \in Seq(Items)
  /\ \A r \in Listed : r.start <= r.stop /\ r.stop < Len(text)
  /\ Waiting \subseteq Listed
  /\ \A j, k \in DOMAIN unused : unused[j] = unused[k] => j = k
  /\ \A k \in DOMAIN work :
       work[k].stop <= Len(text) /\ (work[k].id # None => work[k] \in Put)
  /\ phase = "walking" => work = <<>>

\* The inductive invariant.
IInv ==
  /\ Shape
  /\ Accounted(work, Put, Waiting)
  /\ EndsApart => /\ Ordered(work, Put, Len(text))
                  /\ Chained(work, Len(text))
                  /\ tagged = Pieces(text, Put, Position(work, Len(text)))

--------------------------------------------------------------------------
(* The pieces of the text. *)

\* A piece is text: a label, nothing, or a character.
LEMMA PieceIsText ==
  ASSUME NEW s \in Seq(STRING), NEW put \in SUBSET Result, NEW p \in 0..(Len(s) - 1)
  PROVE  Piece(s, put, p) \in Seq(STRING)
<1>. DEFINE starts == {r \in put : r.start = p}
<1>1. starts # {} => (CHOOSE r \in starts : TRUE).id \in STRING
  <2>1. \A r \in starts : r.id \in STRING
    BY DEF Result
  <2>. HIDE DEF starts
  <2>. QED BY <2>1
<1>2. p + 1 \in 1..Len(s)
  OBVIOUS
<1>3. s[p + 1] \in STRING
  BY <1>2
<1>. DEFINE c == CHOOSE r \in starts : TRUE
            in == \E r \in put : p \in Chars(r)
<1>4. Piece(s, put, p) = IF starts # {} THEN <<c.id>> ELSE IF in THEN <<>> ELSE <<s[p + 1]>>
  BY DEF Piece
<1>. HIDE DEF starts, c, in
<1>5. starts # {} => <<c.id>> \in Seq(STRING)
  BY <1>1 DEF c
<1>6. <<>> \in Seq(STRING) /\ <<s[p + 1]>> \in Seq(STRING)
  BY <1>3
<1>. QED BY <1>4, <1>5, <1>6

\* One piece more: it comes behind the others.
LEMMA PiecesGrow ==
  ASSUME NEW s \in Seq(STRING), NEW put \in SUBSET Result, NEW m \in 0..(Len(s) - 1)
  PROVE  /\ Pieces(s, put, m + 1) = Pieces(s, put, m) \o Piece(s, put, m)
         /\ Pieces(s, put, m) \in Seq(STRING)
<1>. DEFINE g == [p \in 1..(m + 1) |-> Piece(s, put, p - 1)]
            g0 == [p \in 1..m |-> Piece(s, put, p - 1)]
<1>1. m \in Nat /\ (m + 1) - 1 = m /\ m + 1 \in 1..(m + 1)
  OBVIOUS
<1>2. \A p \in 1..(m + 1) : Piece(s, put, p - 1) \in Seq(STRING)
  <2>1. \A p \in 1..(m + 1) : p - 1 \in 0..(Len(s) - 1)
    OBVIOUS
  <2>. QED BY <2>1, PieceIsText
<1>3. /\ g \in [1..(m + 1) -> Seq(STRING)] /\ g0 \in [1..m -> Seq(STRING)]
      /\ \A p \in 1..m : g0[p] = g[p]
      /\ g[m + 1] = Piece(s, put, m)
  BY <1>1, <1>2
<1>4. Pieces(s, put, m + 1) = FlattenSeq(g) /\ Pieces(s, put, m) = FlattenSeq(g0)
  BY DEF Pieces
<1>. HIDE DEF g, g0
<1>5. FlattenSeq(g) = FlattenSeq(g0) \o g[m + 1] /\ FlattenSeq(g0) \in Seq(STRING)
  BY <1>1, <1>3, FlattenLast
<1>. QED BY <1>3, <1>4, <1>5

\* There is nothing before the first piece.
LEMMA NoPieces ==
  ASSUME NEW s, NEW put
  PROVE  Pieces(s, put, 0) = <<>>
<1>. DEFINE g == [p \in 1..0 |-> Piece(s, put, p - 1)]
<1>1. g = <<>>
  OBVIOUS
<1>2. Pieces(s, put, 0) = FlattenSeq(g)
  BY DEF Pieces
<1>. HIDE DEF g
<1>. QED BY <1>1, <1>2 DEF FlattenSeq

\* The same pieces make the same text.
LEMMA PiecesAgree ==
  ASSUME NEW s, NEW put, NEW put2, NEW m \in Nat,
         \A p \in 0..(m - 1) : Piece(s, put, p) = Piece(s, put2, p)
  PROVE  Pieces(s, put, m) = Pieces(s, put2, m)
<1>1. \A p \in 1..m : Piece(s, put, p - 1) = Piece(s, put2, p - 1)
  <2>1. \A p \in 1..m : p - 1 \in 0..(m - 1)
    OBVIOUS
  <2>. QED BY <2>1
<1>2. [p \in 1..m |-> Piece(s, put, p - 1)] = [p \in 1..m |-> Piece(s, put2, p - 1)]
  BY <1>1
<1>. QED BY <1>2 DEF Pieces

\* Where every piece is its character, the text is copied.
LEMMA PiecesCopied ==
  ASSUME NEW s \in Seq(STRING), NEW put \in SUBSET Result,
         NEW a \in 0..Len(s), NEW b \in a..Len(s),
         \A p \in a..(b - 1) : Piece(s, put, p) = <<s[p + 1]>>,
         Pieces(s, put, a) \in Seq(STRING)
  PROVE  Pieces(s, put, b) = Pieces(s, put, a) \o SubSeq(s, a + 1, b)
<1>. DEFINE P == {n \in Nat : Pieces(s, put, a + n) = Pieces(s, put, a) \o SubSeq(s, a + 1, a + n)}
<1>1. 0 \in P
  <2>1. SubSeq(s, a + 1, a + 0) = <<>> /\ a + 0 = a
    <3>1. a + 0 = a /\ a + 1 \in Int /\ a \in Int /\ a < a + 1
      OBVIOUS
    <3>. QED BY <3>1, SubSeqEmpty
  <2>. QED BY <2>1
<1>2. ASSUME NEW n \in 0..((b - a) - 1), n \in P PROVE n + 1 \in P
  <2>1. /\ a + n \in a..(b - 1) /\ a + n \in 0..(Len(s) - 1) /\ a + (n + 1) = (a + n) + 1
        /\ (a + n) + 1 \in 1..Len(s) /\ a + 1 \in 1..Len(s) /\ (a + n) + 1 \in (a + 1)..Len(s)
        /\ ((a + n) + 1) - 1 = a + n
    OBVIOUS
  <2>2. Pieces(s, put, (a + n) + 1) = Pieces(s, put, a + n) \o <<s[(a + n) + 1]>>
    BY <2>1, PiecesGrow
  <2>3. SubSeq(s, a + 1, (a + n) + 1) = SubSeq(s, a + 1, a + n) \o <<s[(a + n) + 1]>>
    BY <2>1, SubSeqRecursiveSecond
  <2>4. SubSeq(s, a + 1, a + n) \in Seq(STRING)
    <3>1. a + 1 \in Int /\ a + n \in Int /\ \A p \in (a + 1)..(a + n) : p \in 1..Len(s)
      BY <2>1
    <3>2. \A p \in (a + 1)..(a + n) : s[p] \in STRING
      BY <3>1
    <3>. QED BY <3>1, <3>2, SubSeqProperties
  <2>5. <<s[(a + n) + 1]>> \in Seq(STRING)
    BY <2>1
  <2>. DEFINE x == Pieces(s, put, a)
              y == SubSeq(s, a + 1, a + n)
              z == <<s[(a + n) + 1]>>
  <2>6. Pieces(s, put, a + n) = x \o y
    BY <1>2
  <2>. HIDE DEF x, y, z
  <2>7. (x \o y) \o z = x \o (y \o z)
    <3>1. x \in Seq(STRING) /\ y \in Seq(STRING) /\ z \in Seq(STRING)
      BY <2>4, <2>5 DEF x, y, z
    <3>. QED BY ONLY <3>1
  <2>8. Pieces(s, put, a + (n + 1)) = Pieces(s, put, a) \o SubSeq(s, a + 1, a + (n + 1))
    BY <2>1, <2>2, <2>3, <2>6, <2>7 DEF x, y, z
  <2>9. n + 1 \in Nat
    OBVIOUS
  <2>. QED BY <2>8, <2>9
<1>3. b - a \in P
  <2>. HIDE DEF P
  <2>1. P \in SUBSET Nat /\ b - a \in Nat
    BY DEF P
  <2>2. \A n \in 0..(b - a) : n \in P
    BY <1>1, <1>2, <2>1, UpTo
  <2>3. b - a \in 0..(b - a)
    BY <2>1
  <2>. QED BY <2>2, <2>3
<1>4. a + (b - a) = b
  OBVIOUS
<1>. QED BY <1>3, <1>4

\* Where every piece is empty, nothing is.
LEMMA PiecesLeftOut ==
  ASSUME NEW s \in Seq(STRING), NEW put \in SUBSET Result,
         NEW a \in 0..Len(s), NEW b \in a..Len(s),
         \A p \in a..(b - 1) : Piece(s, put, p) = <<>>
  PROVE  Pieces(s, put, b) = Pieces(s, put, a)
<1>. DEFINE P == {n \in Nat : Pieces(s, put, a + n) = Pieces(s, put, a)}
<1>1. 0 \in P
  <2>1. a + 0 = a
    OBVIOUS
  <2>. QED BY <2>1
<1>2. ASSUME NEW n \in 0..((b - a) - 1), n \in P PROVE n + 1 \in P
  <2>1. /\ a + n \in a..(b - 1) /\ a + n \in 0..(Len(s) - 1) /\ a + (n + 1) = (a + n) + 1
    OBVIOUS
  <2>2. /\ Pieces(s, put, (a + n) + 1) = Pieces(s, put, a + n) \o <<>>
        /\ Pieces(s, put, a + n) \in Seq(STRING)
    BY <2>1, PiecesGrow
  <2>3. Pieces(s, put, a + (n + 1)) = Pieces(s, put, a + n)
    BY <2>1, <2>2, ConcatEmptySeq
  <2>. QED BY <1>2, <2>3
<1>3. b - a \in P
  <2>. HIDE DEF P
  <2>1. P \in SUBSET Nat /\ b - a \in Nat
    BY DEF P
  <2>2. \A n \in 0..(b - a) : n \in P
    BY <1>1, <1>2, <2>1, UpTo
  <2>3. b - a \in 0..(b - a)
    BY <2>1
  <2>. QED BY <2>2, <2>3
<1>4. a + (b - a) = b
  OBVIOUS
<1>. QED BY <1>3, <1>4

--------------------------------------------------------------------------
(* What is left to do, as results are used and what is done is dropped. *)

\* What is left to do is at numbers; what is no part is a result.
LEMMA ItemFields ==
  ASSUME NEW x \in Items
  PROVE  x.start \in Nat /\ x.stop \in Nat /\ (x.id # None => x \in Result)
BY DEF Items, PartRecord, Result

\* So are results, which have a label.
LEMMA ResultFields ==
  ASSUME NEW r \in Result
  PROVE  r.start \in Nat /\ r.stop \in Nat /\ r.id # None /\ r \in Items
BY DEF Items, Result

\* A part is one.
LEMMA PartFields ==
  ASSUME NEW a \in Nat, NEW b \in Nat
  PROVE  Part(a, b) \in Items /\ Part(a, b).id = None /\ Part(a, b).start = a /\ Part(a, b).stop = b
BY DEF Items, PartRecord, Part

\* What is done is dropped.
LEMMA Dropped ==
  ASSUME NEW w \in Seq(Items), w # <<>>
  PROVE  /\ Tail(w) \in Seq(Items) /\ Len(w) \in Nat /\ Len(w) >= 1 /\ Len(Tail(w)) = Len(w) - 1
         /\ DOMAIN w = 1..Len(w) /\ DOMAIN Tail(w) = 1..(Len(w) - 1)
         /\ \A k \in 1..(Len(w) - 1) : Tail(w)[k] = w[k + 1] /\ k + 1 \in DOMAIN w
         /\ Head(w) = w[1] /\ 1 \in DOMAIN w /\ w[1] \in Items
<1>1. Len(w) \in Nat /\ Len(w) >= 1 /\ DOMAIN w = 1..Len(w)
  BY EmptySeq, LenProperties
<1>2. Tail(w) \in Seq(Items) /\ Len(Tail(w)) = Len(w) - 1
  BY HeadTailProperties
<1>3. DOMAIN Tail(w) = 1..(Len(w) - 1)
  BY <1>2, LenProperties
<1>4. \A k \in 1..(Len(w) - 1) : Tail(w)[k] = w[k + 1] /\ k + 1 \in DOMAIN w
  BY <1>1, <1>2, HeadTailProperties
<1>5. Head(w) = w[1] /\ 1 \in DOMAIN w /\ w[1] \in Items
  BY <1>1
<1>. QED BY <1>1, <1>2, <1>3, <1>4, <1>5

\* What is left is in order, and begins where what is done ended.
LEMMA DroppedKeeps ==
  ASSUME NEW w \in Seq(Items), w # <<>>, NEW put, NEW n, Ordered(w, put, n), Chained(w, n)
  PROVE  /\ Ordered(Tail(w), put, n) /\ Chained(Tail(w), n)
         /\ Position(w, n) = w[1].start /\ Position(Tail(w), n) = End(w[1])
<1>. DEFINE v == Tail(w)
<1>1. /\ v \in Seq(Items) /\ Len(w) \in Nat /\ Len(w) >= 1 /\ Len(v) = Len(w) - 1
      /\ DOMAIN w = 1..Len(w) /\ DOMAIN v = 1..(Len(w) - 1)
      /\ \A k \in 1..(Len(w) - 1) : v[k] = w[k + 1] /\ k + 1 \in DOMAIN w
  BY Dropped
<1>. HIDE DEF v
<1>2. \A k \in PartsOf(v) : k \in Nat /\ k + 1 \in PartsOf(w) /\ v[k] = w[k + 1]
  BY <1>1 DEF PartsOf
<1>3. Ordered(v, put, n)
  <2>1. \A j, k \in PartsOf(v) : j < k => j + 1 < k + 1
    BY <1>2
  <2>. QED BY <1>2, <2>1 DEF Ordered
<1>4. Chained(v, n)
  <2>1. ASSUME NEW k \in DOMAIN v, k < Len(v) PROVE End(v[k]) = v[k + 1].start
    <3>1. k \in 1..(Len(w) - 1) /\ k + 1 \in 1..(Len(w) - 1) /\ k + 1 < Len(w) /\ k + 1 \in DOMAIN w
      BY <1>1, <2>1
    <3>2. v[k] = w[k + 1] /\ v[k + 1] = w[(k + 1) + 1]
      BY <1>1, <3>1
    <3>. QED BY <3>1, <3>2 DEF Chained
  <2>2. ASSUME v # <<>> PROVE End(v[Len(v)]) = n
    <3>1. Len(v) >= 1
      BY <1>1, <2>2, EmptySeq
    <3>2. Len(v) \in 1..(Len(w) - 1) /\ Len(v) + 1 = Len(w)
      BY <1>1, <3>1
    <3>3. v[Len(v)] = w[Len(w)]
      BY <1>1, <3>2
    <3>. QED BY <3>3 DEF Chained
  <2>. QED BY <2>1, <2>2 DEF Chained
<1>5. Position(v, n) = End(w[1])
  <2>1. CASE v = <<>>
    <3>1. Len(v) = 0
      BY <2>1
    <3>2. Len(w) = 1
      BY <1>1, <3>1
    <3>. QED BY <2>1, <3>2 DEF Position, Chained
  <2>2. CASE v # <<>>
    <3>1. Len(v) >= 1
      BY <1>1, <2>2, EmptySeq
    <3>2. 1 \in 1..(Len(w) - 1) /\ 1 \in DOMAIN w /\ 1 < Len(w) /\ 1 + 1 = 2
      BY <1>1, <3>1
    <3>3. v[1] = w[1 + 1]
      BY <1>1, <3>2
    <3>. QED BY <2>2, <3>2, <3>3 DEF Position, Chained
  <2>. QED BY <2>1, <2>2
<1>6. Position(w, n) = w[1].start
  BY DEF Position
<1>. QED BY <1>3, <1>4, <1>5, <1>6 DEF v

\* A result u is used: what is done first becomes the part before it, its label, and the
\* part behind it.
IsSplit(v, w, u) ==
  /\ v \in Seq(Items) /\ Len(v) = Len(w) + 2 /\ DOMAIN v = 1..(Len(w) + 2)
  /\ v[1] = Part(w[1].start, u.start) /\ v[2] = u /\ v[3] = Behind(u, w[1])
  /\ \A k \in 2..Len(w) : v[k + 2] = w[k]

\* That is what UseResult makes of the work.
LEMMA Split ==
  ASSUME NEW w \in Seq(Items), w # <<>>, NEW u \in Result
  PROVE  IsSplit(<<Part(w[1].start, u.start), u, Behind(u, w[1])>> \o Tail(w), w, u)
<1>. DEFINE front == <<Part(w[1].start, u.start), u, Behind(u, w[1])>>
            rest  == Tail(w)
            v     == front \o rest
<1>1. /\ Len(w) \in Nat /\ Len(w) >= 1 /\ rest \in Seq(Items) /\ Len(rest) = Len(w) - 1
      /\ \A k \in 1..(Len(w) - 1) : rest[k] = w[k + 1]
      /\ w[1].start \in Nat /\ w[1].stop \in Nat
  BY Dropped, ItemFields
<1>2. Part(w[1].start, u.start) \in Items /\ u \in Items /\ Behind(u, w[1]) \in Items
  <2>1. u.start \in Nat /\ u.stop + 1 \in Nat /\ u \in Items
    BY ResultFields
  <2>. QED BY <1>1, <2>1, PartFields DEF Behind
<1>3. /\ front \in Seq(Items) /\ Len(front) = 3
      /\ front[1] = Part(w[1].start, u.start) /\ front[2] = u /\ front[3] = Behind(u, w[1])
  BY <1>2
<1>. HIDE DEF front, rest
<1>4. /\ v \in Seq(Items) /\ Len(v) = Len(front) + Len(rest)
      /\ \A k \in 1..(Len(front) + Len(rest)) :
           v[k] = IF k <= Len(front) THEN front[k] ELSE rest[k - Len(front)]
  BY <1>1, <1>3, ConcatProperties
<1>5. Len(v) = Len(w) + 2
  BY <1>1, <1>3, <1>4
<1>6. DOMAIN v = 1..(Len(w) + 2)
  BY <1>4, <1>5, LenProperties
<1>7. v[1] = front[1] /\ v[2] = front[2] /\ v[3] = front[3]
  <2>1. /\ 1 \in 1..(Len(front) + Len(rest)) /\ 2 \in 1..(Len(front) + Len(rest))
        /\ 3 \in 1..(Len(front) + Len(rest))
    BY <1>1, <1>3
  <2>. QED BY <1>3, <1>4, <2>1
<1>8. ASSUME NEW k \in 2..Len(w) PROVE v[k + 2] = w[k]
  <2>1. /\ k + 2 \in 1..(Len(front) + Len(rest)) /\ ~(k + 2 <= Len(front))
        /\ (k + 2) - Len(front) = k - 1
        /\ k - 1 \in 1..(Len(w) - 1) /\ (k - 1) + 1 = k
    BY <1>1, <1>3
  <2>2. v[k + 2] = rest[k - 1]
    BY <1>4, <2>1
  <2>3. rest[k - 1] = w[(k - 1) + 1]
    BY <1>1, <2>1
  <2>. QED BY <2>1, <2>2, <2>3
<1>9. IsSplit(v, w, u)
  <2>. HIDE DEF v
  <2>. QED BY <1>3, <1>4, <1>5, <1>6, <1>7, <1>8 DEF IsSplit
<1>. QED BY <1>9 DEF front, rest

\* The parts behind a split are the two new ones and those that were there.
LEMMA PartsOfSplit ==
  ASSUME NEW w \in Seq(Items), w # <<>>, NEW u \in Result, NEW v, IsSplit(v, w, u), w[1].id = None
  PROVE  /\ \A k \in PartsOf(v) :
              \/ k = 1 \/ k = 3
              \/ k \in Nat /\ k > 3 /\ k - 2 \in PartsOf(w) /\ k - 2 > 1 /\ v[k] = w[k - 2]
         /\ 1 \in PartsOf(w) /\ 1 \in PartsOf(v) /\ 3 \in PartsOf(v)
         /\ \A k \in PartsOf(w) : k # 1 => k \in Nat /\ k + 2 \in PartsOf(v) /\ v[k + 2] = w[k]
         /\ v[1].start = w[1].start /\ v[1].stop = u.start
         /\ v[3].start = u.stop + 1 /\ v[3].stop = w[1].stop
<1>1. /\ Len(w) \in Nat /\ Len(w) >= 1 /\ DOMAIN w = 1..Len(w)
      /\ w[1].start \in Nat /\ w[1].stop \in Nat
      /\ u.start \in Nat /\ u.stop \in Nat /\ u.id # None
  BY Dropped, ItemFields, ResultFields
<1>2. /\ v[1].id = None /\ v[1].start = w[1].start /\ v[1].stop = u.start
      /\ v[3].id = None /\ v[3].start = u.stop + 1 /\ v[3].stop = w[1].stop
  <2>1. v[1] = Part(w[1].start, u.start) /\ v[3] = Part(u.stop + 1, w[1].stop)
    BY DEF IsSplit, Behind
  <2>2. /\ Part(w[1].start, u.start).id = None /\ Part(w[1].start, u.start).start = w[1].start
        /\ Part(w[1].start, u.start).stop = u.start
    BY <1>1, PartFields
  <2>3. /\ Part(u.stop + 1, w[1].stop).id = None /\ Part(u.stop + 1, w[1].stop).start = u.stop + 1
        /\ Part(u.stop + 1, w[1].stop).stop = w[1].stop
    <3>1. u.stop + 1 \in Nat
      BY <1>1
    <3>. QED BY <1>1, <3>1, PartFields
  <2>. QED BY <2>1, <2>2, <2>3
<1>3. ASSUME NEW k \in PartsOf(v)
      PROVE  \/ k = 1 \/ k = 3
             \/ k \in Nat /\ k > 3 /\ k - 2 \in PartsOf(w) /\ k - 2 > 1 /\ v[k] = w[k - 2]
  <2>1. k \in 1..(Len(w) + 2) /\ v[k].id = None
    BY DEF IsSplit, PartsOf
  <2>2. k # 2
    BY <1>1, <2>1 DEF IsSplit
  <2>3. CASE k > 3
    <3>1. k - 2 \in 2..Len(w) /\ (k - 2) + 2 = k /\ k \in Nat
      BY <1>1, <2>1, <2>3
    <3>2. v[k] = w[k - 2]
      BY <3>1 DEF IsSplit
    <3>3. k - 2 \in DOMAIN w /\ k - 2 > 1
      BY <1>1, <3>1
    <3>. QED BY <2>1, <2>3, <3>1, <3>2, <3>3 DEF PartsOf
  <2>. QED BY <1>1, <2>1, <2>2, <2>3
<1>4. 1 \in PartsOf(w) /\ 1 \in PartsOf(v) /\ 3 \in PartsOf(v)
  <2>1. 1 \in 1..Len(w) /\ 1 \in 1..(Len(w) + 2) /\ 3 \in 1..(Len(w) + 2)
    BY <1>1
  <2>. QED BY <1>1, <1>2, <2>1 DEF PartsOf, IsSplit
<1>5. ASSUME NEW k \in PartsOf(w), k # 1
      PROVE  k \in Nat /\ k + 2 \in PartsOf(v) /\ v[k + 2] = w[k]
  <2>1. k \in 2..Len(w) /\ k + 2 \in 1..(Len(w) + 2) /\ w[k].id = None /\ k \in Nat
    BY <1>1, <1>5 DEF PartsOf
  <2>. QED BY <2>1 DEF IsSplit, PartsOf
<1>. QED BY <1>2, <1>3, <1>4, <1>5

\* What waits in the part that is split fits in front of the result used or behind it,
\* or meets it.
LEMMA SplitAccounts ==
  ASSUME NEW w \in Seq(Items), w # <<>>, NEW u \in Result, NEW v, IsSplit(v, w, u), w[1].id = None,
         NEW put, NEW waiting \in SUBSET Result, Accounted(w, put, waiting)
  PROVE  Accounted(v, put \cup {u}, waiting \ {u})
<1>. SUFFICES ASSUME NEW r \in waiting \ {u}, \A s \in put \cup {u} : Apart(r, s)
              PROVE  \E k \in PartsOf(v) : Fits(r, v[k])
  BY DEF Accounted
<1>1. PICK k \in PartsOf(w) : Fits(r, w[k])
  BY DEF Accounted
<1>2. CASE k # 1
  <2>1. k + 2 \in PartsOf(v) /\ v[k + 2] = w[k]
    BY <1>2, PartsOfSplit
  <2>. QED BY <1>1, <2>1
<1>3. CASE k = 1
  <2>1. /\ 1 \in PartsOf(v) /\ v[1].start = w[1].start /\ v[1].stop = u.start
        /\ 3 \in PartsOf(v) /\ v[3].start = u.stop + 1 /\ v[3].stop = w[1].stop
    BY PartsOfSplit
  <2>2. /\ r.start \in Nat /\ r.stop \in Nat /\ u.start \in Nat /\ u.stop \in Nat
        /\ w[1].start \in Nat /\ w[1].stop \in Nat
    BY ResultFields, Dropped, ItemFields
  <2>3. w[1].start <= r.start /\ r.stop <= w[1].stop /\ (r.stop < u.start \/ u.stop < r.start)
    BY <1>1, <1>3 DEF Fits, Apart
  <2>4. Fits(r, v[1]) \/ Fits(r, v[3])
    BY <2>1, <2>2, <2>3 DEF Fits
  <2>. QED BY <2>1, <2>4
<1>. QED BY <1>2, <1>3

\* A part begins where what was there began, and behind the split all is as it was.
LEMMA SplitChains ==
  ASSUME NEW w \in Seq(Items), w # <<>>, NEW u \in Result, NEW v, IsSplit(v, w, u), w[1].id = None,
         NEW n, Chained(w, n)
  PROVE  Chained(v, n) /\ Position(v, n) = Position(w, n)
<1>1. /\ Len(w) \in Nat /\ Len(w) >= 1 /\ DOMAIN w = 1..Len(w)
      /\ u.start \in Nat /\ u.stop \in Nat /\ u.id # None
      /\ w[1].start \in Nat /\ w[1].stop \in Nat
  BY Dropped, ItemFields, ResultFields
<1>2. /\ v \in Seq(Items) /\ Len(v) = Len(w) + 2 /\ DOMAIN v = 1..(Len(w) + 2) /\ v[2] = u
      /\ \A k \in 2..Len(w) : v[k + 2] = w[k]
  BY DEF IsSplit
<1>3. /\ v[1].id = None /\ v[1].start = w[1].start /\ v[1].stop = u.start
      /\ v[3].id = None /\ v[3].start = u.stop + 1 /\ v[3].stop = w[1].stop
  BY PartsOfSplit DEF PartsOf
<1>4. ASSUME NEW k \in DOMAIN v, k < Len(v) PROVE End(v[k]) = v[k + 1].start
  <2>1. k \in 1..(Len(w) + 1) /\ k \in Nat
    BY <1>1, <1>2, <1>4
  <2>2. CASE k = 1
    <3>1. k + 1 = 2
      BY <2>2
    <3>. QED BY <1>2, <1>3, <2>2, <3>1 DEF End
  <2>3. CASE k = 2
    <3>1. k + 1 = 3
      BY <2>3
    <3>. QED BY <1>1, <1>2, <1>3, <2>3, <3>1 DEF End
  <2>4. CASE k = 3
    <3>1. 2 \in 2..Len(w) /\ 2 + 2 = k + 1 /\ 1 \in DOMAIN w /\ 1 < Len(w) /\ 1 + 1 = 2
      BY <1>1, <2>1, <2>4
    <3>2. v[k + 1] = w[2]
      BY <1>2, <3>1
    <3>3. End(w[1]) = w[2].start
      BY <3>1 DEF Chained
    <3>. QED BY <1>3, <2>4, <3>2, <3>3 DEF End
  <2>5. CASE k > 3
    <3>1. /\ k - 2 \in 2..Len(w) /\ (k - 2) + 2 = k /\ k - 1 \in 2..Len(w) /\ (k - 1) + 2 = k + 1
          /\ k - 2 \in DOMAIN w /\ k - 2 < Len(w) /\ (k - 2) + 1 = k - 1
      <4>1. k \in 4..(Len(w) + 1) /\ Len(w) \in Nat
        BY <1>1, <2>1, <2>5
      <4>2. k - 2 \in 2..Len(w) /\ k - 1 \in 2..Len(w) /\ k - 2 \in 1..Len(w) /\ k - 2 < Len(w)
        BY <4>1
      <4>3. (k - 2) + 2 = k /\ (k - 1) + 2 = k + 1 /\ (k - 2) + 1 = k - 1
        BY <4>1
      <4>. QED BY <1>1, <4>2, <4>3
    <3>2. v[k] = w[k - 2] /\ v[k + 1] = w[k - 1]
      BY <1>2, <3>1
    <3>3. End(w[k - 2]) = w[k - 1].start
      BY <3>1 DEF Chained
    <3>. QED BY <3>2, <3>3
  <2>. QED BY <2>1, <2>2, <2>3, <2>4, <2>5
<1>5. End(v[Len(v)]) = n
  <2>1. CASE Len(w) = 1
    <3>1. Len(v) = 3
      BY <1>2, <2>1
    <3>2. End(w[1]) = n
      BY <2>1 DEF Chained
    <3>. QED BY <1>3, <3>1, <3>2 DEF End
  <2>2. CASE Len(w) # 1
    <3>1. Len(w) \in 2..Len(w)
      BY <1>1, <2>2
    <3>2. v[Len(v)] = w[Len(w)]
      BY <1>2, <3>1
    <3>. QED BY <3>2 DEF Chained
  <2>. QED BY <2>1, <2>2
<1>6. Position(v, n) = Position(w, n)
  <2>1. v # <<>>
    <3>1. Len(v) # 0
      BY <1>1, <1>2
    <3>. QED BY <3>1, EmptySeq
  <2>. QED BY <1>3, <2>1 DEF Position
<1>. QED BY <1>4, <1>5, <1>6 DEF Chained

\* As long as no result starts at the last character of another, what is left stays in
\* order when a result is used that fits.
LEMMA SplitKeepsOrder ==
  ASSUME NEW w \in Seq(Items), w # <<>>, NEW u \in Result, NEW v, IsSplit(v, w, u), w[1].id = None,
         NEW n \in Nat, NEW put \in SUBSET Result, Ordered(w, put, n),
         Fits(u, w[1]), u.start <= u.stop, u.stop < n,
         \A r \in put : r.start <= r.stop /\ r.start # u.stop
  PROVE  Ordered(v, put \cup {u}, n)
<1>1. /\ \A k \in PartsOf(v) :
           \/ k = 1 \/ k = 3
           \/ k \in Nat /\ k > 3 /\ k - 2 \in PartsOf(w) /\ k - 2 > 1 /\ v[k] = w[k - 2]
      /\ 1 \in PartsOf(w)
      /\ v[1].start = w[1].start /\ v[1].stop = u.start
      /\ v[3].start = u.stop + 1 /\ v[3].stop = w[1].stop
  BY PartsOfSplit
<1>2. /\ w[1].start \in Nat /\ w[1].stop \in Nat /\ u.start \in Nat /\ u.stop \in Nat
      /\ \A r \in put : r.start \in Nat /\ r.stop \in Nat
      /\ \A k \in PartsOf(w) : w[k].start \in Nat /\ w[k].stop \in Nat
  <2>1. \A k \in PartsOf(w) : w[k] \in Items
    BY Dropped, ElementOfSeq DEF PartsOf
  <2>. QED BY <1>1, <2>1, ItemFields, ResultFields
<1>3. w[1].start <= u.start /\ u.stop <= w[1].stop
  BY DEF Fits
<1>4. u.stop < w[1].stop
  <2>1. w[1].stop = n \/ \E r \in put : r.start = w[1].stop
    BY <1>1 DEF Ordered
  <2>. QED BY <1>2, <1>3, <2>1
<1>5. \A k \in PartsOf(w) : k > 1 => w[1].stop < w[k].start
  BY <1>1 DEF Ordered
<1>6. \A r \in put : r.stop < w[1].start \/ w[1].stop <= r.start
  BY <1>1 DEF Ordered
<1>7. ASSUME NEW k \in PartsOf(v)
      PROVE  v[k].start <= v[k].stop /\ (v[k].stop = n \/ \E r \in put \cup {u} : r.start = v[k].stop)
  <2>1. CASE k = 1
    BY <1>1, <1>3, <2>1
  <2>2. CASE k = 3
    <3>1. w[1].stop = n \/ \E r \in put : r.start = w[1].stop
      BY <1>1 DEF Ordered
    <3>2. v[3].start <= v[3].stop
      BY <1>1, <1>2, <1>4
    <3>. QED BY <1>1, <2>2, <3>1, <3>2
  <2>3. CASE k - 2 \in PartsOf(w) /\ v[k] = w[k - 2]
    BY <2>3 DEF Ordered
  <2>. QED BY <1>1, <2>1, <2>2, <2>3
<1>8. ASSUME NEW j \in PartsOf(v), NEW k \in PartsOf(v), j < k
      PROVE  v[j].stop < v[k].start
  <2>1. CASE j = 1 /\ k = 3
    BY <1>1, <1>2, <2>1
  <2>2. CASE (j = 1 \/ j = 3) /\ k - 2 \in PartsOf(w) /\ k - 2 > 1 /\ v[k] = w[k - 2]
    <3>1. w[1].stop < w[k - 2].start /\ w[k - 2].start \in Nat
      BY <1>2, <1>5, <2>2
    <3>2. v[j].stop \in Nat /\ v[j].stop <= w[1].stop
      <4>1. CASE j = 1
        BY <1>1, <1>2, <1>3, <4>1
      <4>2. CASE j = 3
        BY <1>1, <1>2, <4>2
      <4>. QED BY <2>2, <4>1, <4>2
    <3>. QED BY <1>2, <2>2, <3>1, <3>2
  <2>3. CASE /\ j \in Nat /\ j > 3 /\ j - 2 \in PartsOf(w) /\ v[j] = w[j - 2]
             /\ k \in Nat /\ k > 3 /\ k - 2 \in PartsOf(w) /\ v[k] = w[k - 2]
    <3>1. j - 2 < k - 2
      BY <1>8, <2>3
    <3>2. w[j - 2].stop < w[k - 2].start
      BY <2>3, <3>1 DEF Ordered
    <3>. QED BY <2>3, <3>2
  <2>4. /\ j = 1 => ~(k = 1)
        /\ j = 3 => ~(k = 1) /\ ~(k = 3)
    BY <1>8
  <2>5. j \in Nat /\ j > 3 => ~(k = 1) /\ ~(k = 3)
    BY <1>8
  <2>. QED BY <1>1, <2>1, <2>2, <2>3, <2>4, <2>5
<1>9. ASSUME NEW r \in put \cup {u}, NEW k \in PartsOf(v)
      PROVE  r.stop < v[k].start \/ v[k].stop <= r.start
  <2>1. CASE k - 2 \in PartsOf(w) /\ k - 2 > 1 /\ v[k] = w[k - 2]
    <3>1. CASE r \in put
      BY <2>1, <3>1 DEF Ordered
    <3>2. CASE r = u
      <4>1. w[1].stop < w[k - 2].start /\ w[k - 2].start \in Nat
        BY <1>2, <1>5, <2>1
      <4>. QED BY <1>2, <1>4, <2>1, <3>2, <4>1
    <3>. QED BY <3>1, <3>2
  <2>2. CASE k = 1 \/ k = 3
    <3>1. CASE r \in put
      <4>1. r.stop < w[1].start \/ w[1].stop <= r.start
        BY <1>6, <3>1
      <4>2. r.start \in Nat /\ r.stop \in Nat
        BY <1>2, <3>1
      <4>3. r.stop < v[1].start \/ v[1].stop <= r.start
        BY <1>1, <1>2, <1>3, <4>1, <4>2
      <4>4. r.stop < v[3].start \/ v[3].stop <= r.start
        BY <1>1, <1>2, <1>3, <4>1, <4>2
      <4>. QED BY <2>2, <4>3, <4>4
    <3>2. CASE r = u
      BY <1>1, <1>2, <2>2, <3>2
    <3>. QED BY <3>1, <3>2
  <2>. QED BY <1>1, <2>1, <2>2
<1>10. ASSUME NEW r \in put PROVE Apart(r, u) /\ Apart(u, r)
  <2>1. r.stop < w[1].start \/ w[1].stop <= r.start
    BY <1>6
  <2>2. r.start \in Nat /\ r.stop \in Nat
    BY <1>2
  <2>3. r.stop < u.start \/ u.stop < r.start
    BY <1>2, <1>3, <1>4, <2>1, <2>2
  <2>. QED BY <2>3 DEF Apart
<1>11. \A r, s \in put \cup {u} : r # s => Apart(r, s)
  BY <1>10 DEF Ordered
<1>. QED BY <1>7, <1>8, <1>9, <1>11 DEF Ordered

--------------------------------------------------------------------------
(* The pieces of what is done. *)

\* A result behind the first m characters changes nothing in them.
LEMMA LaterResult ==
  ASSUME NEW s, NEW put \in SUBSET Result, NEW u \in Result, NEW m \in Nat, m <= u.start
  PROVE  Pieces(s, put \cup {u}, m) = Pieces(s, put, m)
<1>1. ASSUME NEW p \in 0..(m - 1) PROVE Piece(s, put \cup {u}, p) = Piece(s, put, p)
  <2>1. u.start \in Nat /\ u.stop \in Nat /\ p < u.start /\ p \in Nat
    BY ResultFields
  <2>2. {r \in put \cup {u} : r.start = p} = {r \in put : r.start = p}
    BY <2>1
  <2>3. (\E r \in put \cup {u} : p \in Chars(r)) <=> (\E r \in put : p \in Chars(r))
    BY <2>1 DEF Chars
  <2>. DEFINE a == {r \in put \cup {u} : r.start = p}
              b == {r \in put : r.start = p}
              c == \E r \in put \cup {u} : p \in Chars(r)
              d == \E r \in put : p \in Chars(r)
              Is(e, g) == IF e # {} THEN <<(CHOOSE r \in e : TRUE).id>>
                          ELSE IF g THEN <<>> ELSE <<s[p + 1]>>
  <2>4. Piece(s, put \cup {u}, p) = Is(a, c) /\ Piece(s, put, p) = Is(b, d)
    BY DEF Piece
  <2>5. a = b /\ (c <=> d)
    BY <2>2, <2>3
  <2>. HIDE DEF a, b, c, d
  <2>6. Is(a, c) = Is(b, d)
    BY <2>5
  <2>. QED BY <2>4, <2>6
<1>. QED BY <1>1, PiecesAgree

\* No used result reaches into a part: its pieces are its characters.
LEMMA PartPieces ==
  ASSUME NEW w \in Seq(Items), w # <<>>, NEW n, NEW put \in SUBSET Result, Ordered(w, put, n),
         w[1].id = None, NEW s, NEW p \in w[1].start..(w[1].stop - 1),
         \A r \in put : r.start <= r.stop
  PROVE  Piece(s, put, p) = <<s[p + 1]>>
<1>1. 1 \in PartsOf(w) /\ w[1].start \in Nat /\ w[1].stop \in Nat
  BY Dropped, ItemFields DEF PartsOf
<1>2. ASSUME NEW r \in put PROVE r.start # p /\ p \notin Chars(r)
  <2>1. r.stop < w[1].start \/ w[1].stop <= r.start
    BY <1>1 DEF Ordered
  <2>2. r.start \in Nat /\ r.stop \in Nat /\ r.start <= r.stop
    BY ResultFields
  <2>. QED BY <1>1, <2>1, <2>2 DEF Chars
<1>3. {r \in put : r.start = p} = {} /\ ~\E r \in put : p \in Chars(r)
  BY <1>2
<1>. QED BY <1>3 DEF Piece

\* The first piece of a used result is its label, the others are empty.
LEMMA LabelPieces ==
  ASSUME NEW put \in SUBSET Result, NEW u \in put, NEW s,
         \A r \in put : r.start <= r.stop,
         \A r \in put : r # u => Apart(r, u)
  PROVE  /\ Piece(s, put, u.start) = <<u.id>>
         /\ \A p \in (u.start + 1)..u.stop : Piece(s, put, p) = <<>>
<1>1. /\ u.start \in Nat /\ u.stop \in Nat /\ u.start <= u.stop
      /\ \A r \in put : r.start \in Nat /\ r.stop \in Nat
  BY ResultFields
<1>2. ASSUME NEW r \in put, NEW p \in u.start..u.stop, r.start = p PROVE r = u
  BY <1>1, <1>2 DEF Apart
<1>3. Piece(s, put, u.start) = <<u.id>>
  <2>. DEFINE starts == {r \in put : r.start = u.start}
  <2>1. starts = {u}
    <3>1. u.start \in u.start..u.stop
      BY <1>1
    <3>. QED BY <1>2, <3>1
  <2>2. Piece(s, put, u.start) = <<(CHOOSE r \in starts : TRUE).id>>
    BY <2>1 DEF Piece
  <2>. HIDE DEF starts
  <2>3. (CHOOSE r \in starts : TRUE) = u
    BY <2>1
  <2>. QED BY <2>2, <2>3
<1>4. ASSUME NEW p \in (u.start + 1)..u.stop PROVE Piece(s, put, p) = <<>>
  <2>1. p \in u.start..u.stop /\ p # u.start
    BY <1>1
  <2>2. {r \in put : r.start = p} = {}
    BY <1>2, <2>1
  <2>3. p \in Chars(u)
    BY <2>1 DEF Chars
  <2>. QED BY <2>2, <2>3 DEF Piece
<1>. QED BY <1>3, <1>4

--------------------------------------------------------------------------
(* The list of results that wait. *)

\* Of the results that fit there is a first.
LEMMA FirstFits ==
  ASSUME unused \in Seq(Result), Fitting # {}
  PROVE  Min(Fitting) \in Fitting
<1>. DEFINE S == Fitting
<1>1. S \in SUBSET Nat /\ S # {}
  BY LenProperties DEF Fitting
<1>. HIDE DEF S
<1>2. \E n \in S : \A m \in S : n <= m
  BY <1>1, Least
<1>3. Min(S) \in S
  BY <1>2 DEF Min
<1>. QED BY <1>3 DEF S

\* What a list holds, and that it holds nothing twice.
Held(s)     == {s[k] : k \in DOMAIN s}
Distinct(s) == \A j, m \in DOMAIN s : s[j] = s[m] => j = m

\* A result that is used is no longer in the list, and the others are.
LEMMA Removed ==
  ASSUME NEW s \in Seq(Result), NEW k \in DOMAIN s, NEW x, x = RemoveAt(s, k), Distinct(s)
  PROVE  x \in Seq(Result) /\ Distinct(x) /\ Held(x) = Held(s) \ {s[k]}
<1>1. Len(s) \in Nat /\ DOMAIN s = 1..Len(s) /\ k \in 1..Len(s)
  BY LenProperties
<1>. DEFINE a == SubSeq(s, 1, k - 1)
            b == SubSeq(s, k + 1, Len(s))
<1>2. a \in Seq(Result) /\ Len(a) = k - 1 /\ \A j \in 1..(k - 1) : a[j] = s[j]
  <2>1. \A j \in 1..(k - 1) : s[j] \in Result
    BY <1>1
  <2>2. k - 1 \in Int /\ 1 \in Int /\ (k - 1) - 1 + 1 = k - 1
    BY <1>1
  <2>3. a \in Seq(Result) /\ Len(a) = IF 1 <= k - 1 THEN (k - 1) - 1 + 1 ELSE 0
    BY <2>1, <2>2, SubSeqProperties
  <2>4. \A j \in 1..((k - 1) - 1 + 1) : a[j] = s[1 + j - 1]
    BY <2>1, <2>2, SubSeqProperties
  <2>. HIDE DEF a
  <2>5. \A j \in 1..(k - 1) : 1 + j - 1 = j
    BY <1>1
  <2>. QED BY <1>1, <2>2, <2>3, <2>4, <2>5
<1>3. b \in Seq(Result) /\ Len(b) = Len(s) - k /\ \A j \in 1..(Len(s) - k) : b[j] = s[k + j]
  <2>1. \A j \in (k + 1)..Len(s) : s[j] \in Result
    BY <1>1
  <2>2. k + 1 \in Int /\ Len(s) \in Int
    BY <1>1
  <2>3. b \in Seq(Result) /\ Len(b) = IF k + 1 <= Len(s) THEN Len(s) - (k + 1) + 1 ELSE 0
    BY <2>1, <2>2, SubSeqProperties
  <2>4. \A j \in 1..(Len(s) - (k + 1) + 1) : b[j] = s[(k + 1) + j - 1]
    BY <2>1, <2>2, SubSeqProperties
  <2>. HIDE DEF b
  <2>5. Len(s) - (k + 1) + 1 = Len(s) - k /\ \A j \in 1..(Len(s) - k) : (k + 1) + j - 1 = k + j
    BY <1>1
  <2>6. Len(b) = Len(s) - k
    BY <1>1, <2>3
  <2>. QED BY <2>3, <2>4, <2>5, <2>6
<1>4. x = a \o b
  BY DEF RemoveAt
<1>. HIDE DEF a, b
<1>5. /\ x \in Seq(Result) /\ Len(x) = Len(a) + Len(b)
      /\ \A j \in 1..(Len(a) + Len(b)) : x[j] = IF j <= Len(a) THEN a[j] ELSE b[j - Len(a)]
  <2>1. a \in Seq(Result) /\ b \in Seq(Result)
    BY <1>2, <1>3
  <2>2. /\ a \o b \in Seq(Result) /\ Len(a \o b) = Len(a) + Len(b)
        /\ \A j \in 1..(Len(a) + Len(b)) : (a \o b)[j] = IF j <= Len(a) THEN a[j] ELSE b[j - Len(a)]
    BY <2>1, ConcatProperties
  <2>. QED BY <1>4, <2>2
<1>6. Len(a) + Len(b) = Len(s) - 1
  BY <1>1, <1>2, <1>3
<1>7. DOMAIN x = 1..(Len(s) - 1)
  BY <1>5, <1>6, LenProperties
<1>8. ASSUME NEW j \in 1..(Len(s) - 1) PROVE x[j] = IF j < k THEN s[j] ELSE s[j + 1]
  <2>1. x[j] = IF j <= k - 1 THEN a[j] ELSE b[j - (k - 1)]
    BY <1>2, <1>5, <1>6
  <2>2. CASE j < k
    <3>1. j \in 1..(k - 1)
      BY <1>1, <2>2
    <3>. QED BY <1>2, <2>1, <2>2, <3>1
  <2>3. CASE ~(j < k)
    <3>1. j - (k - 1) \in 1..(Len(s) - k) /\ k + (j - (k - 1)) = j + 1 /\ ~(j <= k - 1)
      BY <1>1, <2>3
    <3>2. b[j - (k - 1)] = s[k + (j - (k - 1))]
      BY <1>3, <3>1
    <3>. QED BY <2>1, <2>3, <3>1, <3>2
  <2>. QED BY <2>2, <2>3
<1>9. ASSUME NEW j \in DOMAIN x, NEW m \in DOMAIN x, x[j] = x[m] PROVE j = m
  <2>1. j \in 1..(Len(s) - 1) /\ m \in 1..(Len(s) - 1)
    BY <1>7
  <2>. DEFINE at(l) == IF l < k THEN l ELSE l + 1
  <2>2. x[j] = s[at(j)] /\ x[m] = s[at(m)]
    BY <1>8, <2>1
  <2>3. at(j) \in DOMAIN s /\ at(m) \in DOMAIN s
    BY <1>1, <2>1
  <2>4. at(j) = at(m)
    <3>. HIDE DEF at
    <3>. QED BY <1>9, <2>2, <2>3 DEF Distinct
  <2>5. j = m
    BY <1>1, <2>1, <2>4
  <2>. QED BY <2>5
<1>10. {x[j] : j \in DOMAIN x} = {s[j] : j \in DOMAIN s} \ {s[k]}
  <2>1. ASSUME NEW j \in DOMAIN x PROVE x[j] \in {s[m] : m \in DOMAIN s} \ {s[k]}
    <3>1. j \in 1..(Len(s) - 1)
      BY <1>7
    <3>2. CASE j < k
      <4>1. j \in DOMAIN s /\ j # k /\ k \in DOMAIN s /\ x[j] = s[j]
        BY <1>1, <1>8, <3>1, <3>2
      <4>2. s[j] # s[k]
        BY <4>1 DEF Distinct
      <4>. QED BY <4>1, <4>2
    <3>3. CASE ~(j < k)
      <4>1. j + 1 \in DOMAIN s /\ j + 1 # k /\ k \in DOMAIN s /\ x[j] = s[j + 1]
        BY <1>1, <1>8, <3>1, <3>3
      <4>2. s[j + 1] # s[k]
        BY <4>1 DEF Distinct
      <4>. QED BY <4>1, <4>2
    <3>. QED BY <3>2, <3>3
  <2>2. ASSUME NEW m \in DOMAIN s, s[m] # s[k] PROVE \E j \in DOMAIN x : x[j] = s[m]
    <3>1. m # k /\ m \in 1..Len(s)
      BY <1>1, <2>2
    <3>2. CASE m < k
      <4>1. m \in 1..(Len(s) - 1)
        BY <1>1, <3>1, <3>2
      <4>2. x[m] = s[m]
        BY <1>8, <3>2, <4>1
      <4>. QED BY <1>7, <4>1, <4>2
    <3>3. CASE ~(m < k)
      <4>1. m - 1 \in 1..(Len(s) - 1) /\ ~(m - 1 < k) /\ (m - 1) + 1 = m
        BY <1>1, <3>1, <3>3
      <4>2. x[m - 1] = s[m]
        BY <1>8, <4>1
      <4>. QED BY <1>7, <4>1, <4>2
    <3>. QED BY <3>2, <3>3
  <2>. QED BY <2>1, <2>2
<1>11. Distinct(x)
  BY <1>9 DEF Distinct
<1>. QED BY <1>5, <1>10, <1>11 DEF Held

--------------------------------------------------------------------------
(* The steps. *)

\* At first nothing is used, and all results fit into the whole text.
LEMMA InitIInv == Init => IInv
<1>. SUFFICES ASSUME Init PROVE IInv
  OBVIOUS
<1>1. PICK q \in Requests : text = q.text /\ results = q.results
  BY DEF Init
<1>2. /\ unused = results /\ tagged = <<>> /\ phase = "tagging" /\ work = <<Part(0, Len(text))>>
  BY DEF Init
<1>3. /\ text \in Seq(STRING) /\ results \in Seq(Result) /\ Len(text) \in Nat
      /\ \A k \in DOMAIN results : results[k].start <= results[k].stop /\ results[k].stop < Len(text)
      /\ \A j, k \in DOMAIN results : results[j].id = results[k].id => j = k
  BY <1>1, RequestsAssumption, LenProperties
<1>4. Waiting = Listed /\ Put = {}
  BY <1>2 DEF Waiting, Listed, Put
<1>5. /\ Part(0, Len(text)) \in Items /\ Part(0, Len(text)).id = None
      /\ Part(0, Len(text)).start = 0 /\ Part(0, Len(text)).stop = Len(text)
  BY <1>3, PartFields
<1>. DEFINE x == Part(0, Len(text))
<1>6. /\ work \in Seq(Items) /\ Len(work) = 1 /\ work[1] = x /\ DOMAIN work = {1} /\ work # <<>>
  <2>. HIDE DEF x
  <2>1. x \in Items /\ work = <<x>>
    BY <1>2, <1>5 DEF x
  <2>. QED BY <2>1
<1>. HIDE DEF x
<1>7. PartsOf(work) = {1} /\ work[1].start = 0 /\ work[1].stop = Len(text) /\ work[1].id = None
  BY <1>5, <1>6 DEF PartsOf, x
<1>8. Shape
  <2>1. \A r \in Listed : r.start <= r.stop /\ r.stop < Len(text)
    BY <1>3 DEF Listed
  <2>2. \A j, k \in DOMAIN unused : unused[j] = unused[k] => j = k
    BY <1>2, <1>3
  <2>3. \A k \in DOMAIN work : work[k].stop <= Len(text) /\ (work[k].id # None => work[k] \in Put)
    BY <1>3, <1>6, <1>7
  <2>4. tagged \in Seq(STRING) /\ unused \in Seq(Result)
    BY <1>2, <1>3
  <2>5. phase = "walking" => work = <<>>
    BY <1>2
  <2>. QED BY <1>3, <1>4, <1>6, <2>1, <2>2, <2>3, <2>4, <2>5 DEF Shape
<1>9. Accounted(work, Put, Waiting)
  <2>1. \A r \in Waiting : r.start \in Nat /\ r.stop \in Nat /\ r.stop < Len(text)
    BY <1>2, <1>3, ElementOfSeq, ResultFields DEF Waiting
  <2>2. \A r \in Waiting : Fits(r, work[1])
    BY <1>3, <1>7, <2>1 DEF Fits
  <2>. QED BY <1>7, <2>2 DEF Accounted
<1>10. Ordered(work, Put, Len(text))
  BY <1>3, <1>4, <1>7 DEF Ordered
<1>11. Chained(work, Len(text))
  BY <1>6, <1>7 DEF Chained, End
<1>12. tagged = Pieces(text, Put, Position(work, Len(text)))
  BY <1>2, <1>6, <1>7, NoPieces DEF Position
<1>. QED BY <1>8, <1>9, <1>10, <1>11, <1>12 DEF IInv

\* What the invariant says of the results.
LEMMA ResultsAreInTheText ==
  ASSUME IInv
  PROVE  /\ Listed \in SUBSET Result /\ Put \in SUBSET Result /\ Waiting \in SUBSET Result
         /\ Waiting \cup Put = Listed /\ Waiting \cap Put = {}
         /\ \A r \in Listed : r.start <= r.stop /\ r.stop < Len(text)
         /\ Len(text) \in Nat /\ text \in Seq(STRING) /\ work \in Seq(Items)
<1>1. Listed \in SUBSET Result
  BY ElementOfSeq, LenProperties DEF IInv, Shape, Listed
<1>2. Waiting \subseteq Listed
  BY DEF IInv, Shape
<1>3. Put = Listed \ Waiting
  BY DEF Put, Waiting
<1>. QED BY <1>1, <1>2, <1>3, LenProperties DEF IInv, Shape

\* What is first is done: a part into which nothing fits that waits, or a label.
LEMMA DropKeeps ==
  ASSUME IInv, work # <<>>, work' = Tail(work), UNCHANGED <<text, results, unused, phase>>,
         tagged' \in Seq(STRING),
         work[1].id = None => \A r \in Waiting : ~Fits(r, work[1]),
         EndsApart /\ Ordered(work, Put, Len(text)) => tagged' = Pieces(text, Put, End(work[1]))
  PROVE  IInv'
<1>1. /\ Listed' = Listed /\ Put' = Put /\ Waiting' = Waiting /\ Len(text') = Len(text)
      /\ EndsApart' = EndsApart
  BY DEF Listed, Put, Waiting, EndsApart
<1>2. /\ work \in Seq(Items) /\ work' \in Seq(Items)
      /\ Len(work) \in Nat /\ Len(work) >= 1 /\ Len(work') = Len(work) - 1
      /\ DOMAIN work = 1..Len(work) /\ DOMAIN work' = 1..(Len(work) - 1)
      /\ \A k \in 1..(Len(work) - 1) : work'[k] = work[k + 1] /\ k + 1 \in DOMAIN work
  BY Dropped, ResultsAreInTheText
<1>3. Shape'
  <2>1. \A k \in DOMAIN work' :
           work'[k].stop <= Len(text) /\ (work'[k].id # None => work'[k] \in Put)
    BY <1>2 DEF IInv, Shape
  <2>2. phase' # "walking"
    BY DEF IInv, Shape
  <2>. QED BY <1>1, <1>2, <2>1, <2>2 DEF IInv, Shape
<1>4. Accounted(work', Put, Waiting)
  <2>1. ASSUME NEW r \in Waiting, NEW k \in PartsOf(work), Fits(r, work[k])
        PROVE  \E j \in PartsOf(work') : Fits(r, work'[j])
    <3>1. k # 1
      BY <2>1 DEF PartsOf
    <3>2. k - 1 \in 1..(Len(work) - 1) /\ (k - 1) + 1 = k
      BY <1>2, <3>1 DEF PartsOf
    <3>3. work'[k - 1] = work[k] /\ k - 1 \in PartsOf(work')
      BY <1>2, <3>2 DEF PartsOf
    <3>. QED BY <2>1, <3>3
  <2>. QED BY <2>1 DEF IInv, Accounted
<1>5. ASSUME EndsApart
      PROVE  /\ Ordered(work', Put, Len(text)) /\ Chained(work', Len(text))
             /\ tagged' = Pieces(text, Put, Position(work', Len(text)))
  <2>1. Ordered(work, Put, Len(text)) /\ Chained(work, Len(text))
    BY <1>5 DEF IInv
  <2>2. /\ Ordered(work', Put, Len(text)) /\ Chained(work', Len(text))
        /\ Position(work', Len(text)) = End(work[1])
    BY <1>2, <2>1, DroppedKeeps
  <2>. QED BY <1>5, <2>1, <2>2
<1>6. /\ Accounted(work', Put', Waiting')
      /\ EndsApart' => /\ Ordered(work', Put', Len(text')) /\ Chained(work', Len(text'))
                       /\ tagged' = Pieces(text', Put', Position(work', Len(text')))
  BY <1>1, <1>4, <1>5
<1>. QED BY <1>3, <1>6 DEF IInv

\* The characters of a part are its pieces.
LEMMA CopyPartKeeps == IInv /\ CopyPart => IInv'
<1>. SUFFICES ASSUME IInv, CopyPart PROVE IInv'
  OBVIOUS
<1>1. /\ work # <<>> /\ work' = Tail(work) /\ UNCHANGED <<text, results, unused, phase>>
      /\ tagged' = tagged \o SubSeq(text, Now.start + 1, Now.stop)
      /\ Now.id = None /\ Fitting = {} /\ Now.start <= Now.stop
  BY DEF CopyPart, TagOnly, Tagging
<1>2. Now = work[1] /\ work[1].start \in Nat /\ work[1].stop \in Nat
  BY <1>1, ResultsAreInTheText, Dropped, ItemFields DEF Now
<1>. DEFINE a == work[1].start
            b == work[1].stop
            n == Len(text)
<1>3. \A r \in Waiting : ~Fits(r, work[1])
  BY <1>1, <1>2 DEF Waiting, Fitting
<1>4. b <= n /\ a <= b /\ n \in Nat /\ a \in Nat /\ b \in Nat /\ text \in Seq(STRING)
  BY <1>1, <1>2, ResultsAreInTheText, Dropped DEF IInv, Shape
<1>. HIDE DEF a, b, n
<1>5. SubSeq(text, a + 1, b) \in Seq(STRING)
  <2>1. \A p \in (a + 1)..b : p \in 1..Len(text)
    BY <1>4 DEF n
  <2>2. \A p \in (a + 1)..b : text[p] \in STRING
    BY <1>4, <2>1
  <2>3. a + 1 \in Int /\ b \in Int
    BY <1>4
  <2>. QED BY <2>2, <2>3, SubSeqProperties
<1>6. tagged' = tagged \o SubSeq(text, a + 1, b) /\ tagged' \in Seq(STRING)
  <2>1. tagged' = tagged \o SubSeq(text, a + 1, b)
    BY <1>1, <1>2 DEF a, b
  <2>2. tagged \in Seq(STRING)
    BY DEF IInv, Shape
  <2>. QED BY <1>5, <2>1, <2>2, ConcatProperties
<1>7. ASSUME EndsApart, Ordered(work, Put, Len(text))
      PROVE  tagged' = Pieces(text, Put, End(work[1]))
  <2>1. /\ Put \in SUBSET Result /\ \A r \in Put : r.start <= r.stop
    BY ResultsAreInTheText
  <2>2. \A p \in a..(b - 1) : Piece(text, Put, p) = <<text[p + 1]>>
    <3>1. work \in Seq(Items) /\ work # <<>> /\ work[1].id = None
      BY <1>1, <1>2, ResultsAreInTheText
    <3>2. \A p \in work[1].start..(work[1].stop - 1) : Piece(text, Put, p) = <<text[p + 1]>>
      BY <1>7, <2>1, <3>1, PartPieces
    <3>. QED BY <3>2 DEF a, b
  <2>3. tagged = Pieces(text, Put, a) /\ tagged \in Seq(STRING)
    <3>1. tagged = Pieces(text, Put, Position(work, Len(text))) /\ tagged \in Seq(STRING)
      BY <1>7 DEF IInv, Shape
    <3>. QED BY <1>1, <3>1 DEF Position, a
  <2>4. a \in 0..Len(text) /\ b \in a..Len(text)
    BY <1>4 DEF n
  <2>5. Pieces(text, Put, b) = Pieces(text, Put, a) \o SubSeq(text, a + 1, b)
    BY <1>4, <2>1, <2>2, <2>3, <2>4, PiecesCopied
  <2>6. End(work[1]) = b
    BY <1>1, <1>2 DEF End, b
  <2>. QED BY <1>6, <2>3, <2>5, <2>6
<1>. QED BY <1>1, <1>2, <1>3, <1>6, <1>7, DropKeeps

\* Nothing is left of a part that starts at the end.
LEMMA SkipEndKeeps == IInv /\ SkipEnd => IInv'
<1>. SUFFICES ASSUME IInv, SkipEnd PROVE IInv'
  OBVIOUS
<1>1. /\ work # <<>> /\ work' = Tail(work) /\ UNCHANGED <<text, results, unused, phase, tagged>>
      /\ Now.id = None /\ Now.start >= Len(text)
  BY DEF SkipEnd, TagOnly, Tagging
<1>2. /\ Now = work[1] /\ work[1].start \in Nat /\ work[1].stop \in Nat /\ 1 \in DOMAIN work
      /\ Len(text) \in Nat
  BY <1>1, ResultsAreInTheText, Dropped, ItemFields DEF Now
<1>3. \A r \in Waiting : ~Fits(r, work[1])
  <2>1. \A r \in Waiting : r.start <= r.stop /\ r.stop < Len(text) /\ r.start \in Nat /\ r.stop \in Nat
    BY ResultsAreInTheText, ResultFields
  <2>. QED BY <1>1, <1>2, <2>1 DEF Fits
<1>4. tagged' \in Seq(STRING)
  BY <1>1 DEF IInv, Shape
<1>5. ASSUME EndsApart, Ordered(work, Put, Len(text))
      PROVE  tagged' = Pieces(text, Put, End(work[1]))
  <2>1. 1 \in PartsOf(work)
    BY <1>1, <1>2 DEF PartsOf
  <2>2. work[1].start <= work[1].stop /\ work[1].stop <= Len(text)
    BY <1>2, <1>5, <2>1 DEF Ordered, IInv, Shape
  <2>3. End(work[1]) = work[1].start
    BY <1>1, <1>2, <2>2 DEF End
  <2>4. tagged = Pieces(text, Put, Position(work, Len(text)))
    BY <1>5 DEF IInv
  <2>. QED BY <1>1, <2>3, <2>4 DEF Position
<1>. QED BY <1>1, <1>3, <1>4, <1>5, DropKeeps

\* A label is its result's first piece, and the others are empty.
LEMMA PutLabelKeeps == IInv /\ PutLabel => IInv'
<1>. SUFFICES ASSUME IInv, PutLabel PROVE IInv'
  OBVIOUS
<1>1. /\ work # <<>> /\ work' = Tail(work) /\ UNCHANGED <<text, results, unused, phase>>
      /\ Now.id # None /\ tagged' = Append(tagged, Now.id)
  BY DEF PutLabel, TagOnly
<1>. DEFINE u == work[1]
<1>2. Now = u /\ u \in Put /\ u \in Result /\ u.id \in STRING /\ u.id # None
  <2>1. Now = work[1] /\ 1 \in DOMAIN work
    BY <1>1, ResultsAreInTheText, Dropped DEF Now
  <2>2. u \in Put
    BY <1>1, <2>1 DEF IInv, Shape
  <2>. QED BY <1>1, <2>1, <2>2, ResultsAreInTheText DEF Result
<1>. HIDE DEF u
<1>3. u.start \in Nat /\ u.stop \in Nat /\ u.start <= u.stop /\ u.stop < Len(text) /\ Len(text) \in Nat
  BY <1>2, ResultFields, ResultsAreInTheText
<1>4. tagged \in Seq(STRING) /\ tagged' \in Seq(STRING) /\ tagged' = tagged \o <<u.id>>
  <2>1. tagged \in Seq(STRING)
    BY DEF IInv, Shape
  <2>. QED BY <1>1, <1>2, <2>1, AppendProperties, AppendIsConcat
<1>5. ASSUME EndsApart, Ordered(work, Put, Len(text))
      PROVE  tagged' = Pieces(text, Put, End(work[1]))
  <2>1. /\ Put \in SUBSET Result /\ text \in Seq(STRING) /\ \A r \in Put : r.start <= r.stop
        /\ \A r \in Put : r # u => Apart(r, u)
    BY <1>2, <1>5, ResultsAreInTheText DEF Ordered
  <2>2. /\ Piece(text, Put, u.start) = <<u.id>>
        /\ \A p \in (u.start + 1)..u.stop : Piece(text, Put, p) = <<>>
    BY <1>2, <2>1, LabelPieces
  <2>3. tagged = Pieces(text, Put, u.start)
    <3>1. tagged = Pieces(text, Put, Position(work, Len(text)))
      BY <1>5 DEF IInv
    <3>. QED BY <1>1, <3>1 DEF Position, u
  <2>4. u.start \in 0..(Len(text) - 1)
    BY <1>3
  <2>5. Pieces(text, Put, u.start + 1) = tagged'
    <3>1. Pieces(text, Put, u.start + 1) = Pieces(text, Put, u.start) \o Piece(text, Put, u.start)
      BY <2>1, <2>4, PiecesGrow
    <3>. QED BY <1>4, <2>2, <2>3, <3>1
  <2>6. /\ u.start + 1 \in 0..Len(text) /\ u.stop + 1 \in (u.start + 1)..Len(text)
        /\ (u.stop + 1) - 1 = u.stop
    BY <1>3
  <2>7. Pieces(text, Put, u.stop + 1) = Pieces(text, Put, u.start + 1)
    BY <2>1, <2>2, <2>6, PiecesLeftOut
  <2>8. End(work[1]) = u.stop + 1
    BY <1>2 DEF End, u
  <2>. QED BY <2>5, <2>7, <2>8
<1>6. work[1].id # None
  BY <1>2 DEF u
<1>. QED BY <1>1, <1>4, <1>5, <1>6, DropKeeps

\* The result u is used: it waits no more, and its part is split.
Uses(u) ==
  /\ work # <<>> /\ work[1].id = None /\ work[1].start \in Nat /\ work[1].stop \in Nat /\ 1 \in DOMAIN work
  /\ Fits(u, work[1]) /\ IsSplit(work', work, u)
  /\ u \in Result /\ u \in Listed /\ u \notin Put /\ u.start <= u.stop /\ u.stop < Len(text)
  /\ u.start \in Nat /\ u.stop \in Nat /\ u.id # None
  /\ unused' \in Seq(Result) /\ Waiting' = Waiting \ {u}
  /\ \A j, m \in DOMAIN unused' : unused'[j] = unused'[m] => j = m
  /\ Listed' = Listed /\ Put' = Put \cup {u} /\ Len(text') = Len(text) /\ EndsApart' = EndsApart
  /\ UNCHANGED <<text, results, phase, tagged>>

\* That is what UseResult does.
LEMMA SomeResultIsUsed ==
  ASSUME IInv, UseResult
  PROVE  \E u \in Waiting : Uses(u)
<1>. DEFINE k == Min(Fitting)
            u == unused[k]
            n == Len(text)
<1>1. /\ work # <<>> /\ Now.id = None /\ Fitting # {}
      /\ work' = <<Part(Now.start, u.start), u, Behind(u, Now)>> \o Tail(work)
      /\ unused' = RemoveAt(unused, k)
      /\ UNCHANGED <<text, results, phase, tagged>>
  BY DEF UseResult, TagOnly, Tagging
<1>2. k \in DOMAIN unused /\ Fits(u, Now) /\ unused \in Seq(Result)
  <2>1. unused \in Seq(Result)
    BY DEF IInv, Shape
  <2>2. k \in Fitting
    BY <1>1, <2>1, FirstFits
  <2>. QED BY <2>1, <2>2 DEF Fitting
<1>. HIDE DEF k
<1>3. Now = work[1] /\ 1 \in DOMAIN work /\ work[1].start \in Nat /\ work[1].stop \in Nat
  BY <1>1, ResultsAreInTheText, Dropped, ItemFields DEF Now
<1>4. u \in Waiting
  BY <1>2 DEF Waiting
<1>. HIDE DEF u
<1>5. /\ u \in Result /\ u \in Listed /\ u \notin Put /\ u.start <= u.stop /\ u.stop < n
      /\ u.start \in Nat /\ u.stop \in Nat /\ u.id # None /\ n \in Nat
  BY <1>4, ResultsAreInTheText, ResultFields
<1>6. /\ unused' \in Seq(Result) /\ Waiting' = Waiting \ {u}
      /\ \A j, m \in DOMAIN unused' : unused'[j] = unused'[m] => j = m
  <2>1. unused \in Seq(Result) /\ k \in DOMAIN unused /\ Distinct(unused)
    BY <1>2 DEF IInv, Shape, Distinct
  <2>2. unused' \in Seq(Result) /\ Distinct(unused') /\ Held(unused') = Held(unused) \ {unused[k]}
    BY <1>1, <2>1, Removed
  <2>. QED BY <2>2 DEF Waiting, Held, Distinct, u
<1>7. /\ Listed' = Listed /\ Put' = Put \cup {u} /\ Len(text') = n /\ EndsApart' = EndsApart
  <2>1. Listed' = Listed /\ EndsApart' = EndsApart
    BY <1>1 DEF Listed, EndsApart
  <2>2. Put' = Listed' \ Waiting' /\ Put = Listed \ Waiting
    BY DEF Put, Waiting
  <2>. QED BY <1>1, <1>4, <1>5, <1>6, <2>1, <2>2
<1>8. IsSplit(work', work, u) /\ work[1].id = None
  BY <1>1, <1>3, <1>5, ResultsAreInTheText, Split
<1>. QED BY <1>1, <1>2, <1>3, <1>4, <1>5, <1>6, <1>7, <1>8 DEF Uses

\* The part of the result used is in three, and nothing is tagged yet.
LEMMA UseResultKeeps == IInv /\ UseResult => IInv'
<1>. SUFFICES ASSUME IInv, UseResult PROVE IInv'
  OBVIOUS
<1>. DEFINE n == Len(text)
<1>0. PICK u \in Waiting : Uses(u)
  BY SomeResultIsUsed
<1>1. work # <<>> /\ UNCHANGED <<text, results, phase, tagged>>
  BY <1>0 DEF Uses
<1>3. 1 \in DOMAIN work /\ work[1].start \in Nat /\ work[1].stop \in Nat
  BY <1>0 DEF Uses
<1>5. /\ u \in Result /\ u \in Listed /\ u \notin Put /\ u.start <= u.stop /\ u.stop < n
      /\ u.start \in Nat /\ u.stop \in Nat /\ u.id # None /\ n \in Nat
  BY <1>0, ResultsAreInTheText DEF Uses
<1>6. /\ unused' \in Seq(Result) /\ Waiting' = Waiting \ {u}
      /\ \A j, m \in DOMAIN unused' : unused'[j] = unused'[m] => j = m
  BY <1>0 DEF Uses
<1>7. /\ Listed' = Listed /\ Put' = Put \cup {u} /\ Len(text') = n /\ EndsApart' = EndsApart
  BY <1>0 DEF Uses
<1>8. IsSplit(work', work, u) /\ work[1].id = None /\ Fits(u, work[1])
  BY <1>0 DEF Uses
<1>9. work \in Seq(Items) /\ work' \in Seq(Items)
  BY <1>8, ResultsAreInTheText DEF IsSplit
<1>10. Shape'
  <2>1. ASSUME NEW j \in DOMAIN work'
        PROVE  work'[j].stop <= n /\ (work'[j].id # None => work'[j] \in Put')
    <3>1. /\ Len(work) \in Nat /\ Len(work) >= 1 /\ DOMAIN work = 1..Len(work)
          /\ DOMAIN work' = 1..(Len(work) + 2)
      BY <1>1, <1>8, <1>9, Dropped DEF IsSplit
    <3>2. CASE j = 1 \/ j = 3
      <4>1. /\ work'[1].stop = u.start /\ work'[3].stop = work[1].stop
            /\ work'[1].id = None /\ work'[3].id = None
        BY <1>8 DEF IsSplit, Part, Behind
      <4>2. work[1].stop <= n
        BY <1>3 DEF IInv, Shape
      <4>. QED BY <1>5, <3>2, <4>1, <4>2
    <3>3. CASE j = 2
      <4>1. work'[2] = u
        BY <1>8 DEF IsSplit
      <4>. QED BY <1>5, <1>7, <3>3, <4>1
    <3>4. CASE j > 3
      <4>1. j - 2 \in 2..Len(work) /\ (j - 2) + 2 = j /\ j - 2 \in DOMAIN work
        BY <3>1, <3>4
      <4>2. work'[j] = work[j - 2]
        BY <1>8, <4>1 DEF IsSplit
      <4>3. work[j - 2].stop <= n /\ (work[j - 2].id # None => work[j - 2] \in Put)
        BY <4>1 DEF IInv, Shape
      <4>. QED BY <1>7, <4>2, <4>3
    <3>. QED BY <3>1, <3>2, <3>3, <3>4
  <2>2. phase' # "walking"
    BY <1>1 DEF IInv, Shape
  <2>3. Waiting' \subseteq Listed'
    BY <1>6, <1>7, ResultsAreInTheText
  <2>4. text' \in Seq(STRING) /\ tagged' \in Seq(STRING) /\ results' \in Seq(Result)
    BY <1>1 DEF IInv, Shape
  <2>5. \A r \in Listed' : r.start <= r.stop /\ r.stop < Len(text')
    BY <1>7, ResultsAreInTheText
  <2>. QED BY <1>6, <1>7, <1>9, <2>1, <2>2, <2>3, <2>4, <2>5 DEF Shape
<1>11. Accounted(work', Put \cup {u}, Waiting \ {u})
  <2>1. Accounted(work, Put, Waiting)
    BY DEF IInv
  <2>. QED BY <1>1, <1>5, <1>8, <1>9, <2>1, ResultsAreInTheText, SplitAccounts
<1>12. ASSUME EndsApart
       PROVE  /\ Ordered(work', Put \cup {u}, n) /\ Chained(work', n)
              /\ tagged' = Pieces(text, Put \cup {u}, Position(work', n))
  <2>1. Ordered(work, Put, n) /\ Chained(work, n) /\ tagged = Pieces(text, Put, Position(work, n))
    BY <1>12 DEF IInv
  <2>2. Chained(work', n) /\ Position(work', n) = Position(work, n)
    BY <1>1, <1>5, <1>8, <1>9, <2>1, SplitChains
  <2>3. \A r \in Put : r.start <= r.stop /\ r.start # u.stop
    BY <1>5, <1>12, ResultsAreInTheText DEF EndsApart
  <2>4. Put \in SUBSET Result
    BY ResultsAreInTheText
  <2>5. Fits(u, work[1])
    BY <1>8
  <2>6. Ordered(work', Put \cup {u}, n)
    <3>. HIDE DEF n
    <3>. QED BY <1>1, <1>5, <1>8, <1>9, <2>1, <2>3, <2>4, <2>5, SplitKeepsOrder
  <2>7. Position(work, n) = work[1].start /\ work[1].start <= u.start
    BY <1>1, <2>5 DEF Position, Fits
  <2>8. Pieces(text, Put \cup {u}, work[1].start) = Pieces(text, Put, work[1].start)
    BY <1>3, <1>5, <2>4, <2>7, LaterResult
  <2>. QED BY <1>1, <2>1, <2>2, <2>6, <2>7, <2>8
<1>13. /\ Accounted(work', Put', Waiting')
       /\ EndsApart' => /\ Ordered(work', Put', Len(text')) /\ Chained(work', Len(text'))
                        /\ tagged' = Pieces(text', Put', Position(work', Len(text')))
  BY <1>1, <1>6, <1>7, <1>11, <1>12
<1>. QED BY <1>10, <1>13 DEF IInv

\* The list is sorted: the results stay the same.
LEMMA SortResultsKeeps == IInv /\ SortResults => IInv'
<1>. SUFFICES ASSUME IInv, SortResults PROVE IInv'
  OBVIOUS
<1>1. /\ work = <<>> /\ UNCHANGED <<text, work, unused, tagged>>
      /\ phase' = "walking"
  BY DEF SortResults
<1>2. PICK order \in Bijection(DOMAIN results, DOMAIN results) :
        results' = [k \in DOMAIN results |-> results[order[k]]]
  BY DEF SortResults
<1>3. /\ order \in [DOMAIN results -> DOMAIN results]
      /\ \A j \in DOMAIN results : \E k \in DOMAIN results : order[k] = j
  BY DEF Bijection, Injection, Surjection
<1>4. results \in Seq(Result) /\ Len(results) \in Nat /\ DOMAIN results = 1..Len(results)
  BY LenProperties DEF IInv, Shape
<1>5. results' \in Seq(Result) /\ DOMAIN results' = DOMAIN results
  <2>1. \A k \in 1..Len(results) : results[order[k]] \in Result
    BY <1>3, <1>4
  <2>2. results' \in [1..Len(results) -> Result]
    BY <1>2, <1>4, <2>1
  <2>. QED BY <1>2, <1>4, <2>2
<1>6. Listed' = Listed
  <2>1. \A k \in DOMAIN results : results'[k] = results[order[k]]
    BY <1>2
  <2>. QED BY <1>3, <1>5, <2>1 DEF Listed
<1>7. Put' = Put /\ Waiting' = Waiting /\ EndsApart' = EndsApart
  BY <1>1, <1>6 DEF Put, Waiting, EndsApart
<1>8. Shape'
  BY <1>1, <1>5, <1>6, <1>7 DEF IInv, Shape
<1>9. /\ Accounted(work', Put', Waiting')
      /\ EndsApart' => /\ Ordered(work', Put', Len(text')) /\ Chained(work', Len(text'))
                       /\ tagged' = Pieces(text', Put', Position(work', Len(text')))
  BY <1>1, <1>7 DEF IInv
<1>. QED BY <1>8, <1>9 DEF IInv

\* The loop over the tokens leaves the text and the results.
LEMMA OthersKeep ==
  ASSUME IInv, UNCHANGED <<text, results, work, unused, tagged, phase>>
  PROVE  IInv'
<1>1. Put' = Put /\ Waiting' = Waiting /\ EndsApart' = EndsApart /\ Listed' = Listed
  BY DEF Put, Waiting, EndsApart, Listed
<1>2. Shape'
  BY <1>1 DEF IInv, Shape
<1>3. /\ Accounted(work', Put', Waiting')
      /\ EndsApart' => /\ Ordered(work', Put', Len(text')) /\ Chained(work', Len(text'))
                       /\ tagged' = Pieces(text', Put', Position(work', Len(text')))
  BY <1>1 DEF IInv
<1>. QED BY <1>2, <1>3 DEF IInv

\* The inductive invariant of tagging.
THEOREM Invariance == Spec => []IInv
<1>1. IInv /\ [Next]_vars => IInv'
  <2>. SUFFICES ASSUME IInv, [Next]_vars PROVE IInv'
    OBVIOUS
  <2>1. CASE SetRole \/ PassToken \/ UNCHANGED vars
    BY <2>1, OthersKeep DEF SetRole, PassToken, vars
  <2>. QED BY <2>1, UseResultKeeps, CopyPartKeeps, SkipEndKeeps, PutLabelKeeps,
               SortResultsKeeps DEF Next
<1>. QED BY <1>1, InitIInv, PTL DEF Spec

\* For every list of results in any order, of which none starts at the last character of
\* another, substring is never asked for a part that ends before it starts.
THEOREM PartsAreAlwaysInOrder == Spec => []PartsAreInOrder
<1>1. IInv => PartsAreInOrder
  BY DEF IInv, Ordered, PartsOf, PartsAreInOrder
<1>. QED BY <1>1, Invariance, PTL

\* For every list of results, a result is left unused only when it meets one that is used.
THEOREM UnusedAlwaysOverlap == Spec => []UnusedOverlap
<1>1. ASSUME IInv PROVE UnusedOverlap
  <2>. SUFFICES ASSUME phase = "walking", NEW k \in DOMAIN unused
                PROVE  \E r \in Put : Chars(r) \cap Chars(unused[k]) # {}
    BY DEF UnusedOverlap
  <2>. DEFINE u == unused[k]
  <2>1. u \in Waiting /\ PartsOf(work) = {}
    BY <1>1 DEF Waiting, PartsOf, IInv, Shape
  <2>2. PICK r \in Put : ~Apart(u, r)
    BY <1>1, <2>1 DEF IInv, Accounted
  <2>. HIDE DEF u
  <2>3. /\ u.start \in Nat /\ u.stop \in Nat /\ u.start <= u.stop
        /\ r.start \in Nat /\ r.stop \in Nat /\ r.start <= r.stop
    BY <1>1, <2>1, <2>2, ResultsAreInTheText, ResultFields
  <2>4. \E c \in Nat : c \in Chars(r) /\ c \in Chars(u)
    <3>1. CASE r.start <= u.start
      <4>1. u.start \in Chars(r) /\ u.start \in Chars(u)
        BY <2>2, <2>3, <3>1 DEF Apart, Chars
      <4>. QED BY <2>3, <4>1
    <3>2. CASE u.start <= r.start
      <4>1. r.start \in Chars(r) /\ r.start \in Chars(u)
        BY <2>2, <2>3, <3>2 DEF Apart, Chars
      <4>. QED BY <2>3, <4>1
    <3>. QED BY <2>3, <3>1, <3>2
  <2>. QED BY <2>4 DEF u
<1>. QED BY <1>1, Invariance, PTL

\* For every text and every list of results in any order, of which none starts at the
\* last character of another, the tagged text is the text with the label of each used
\* result in its place.
THEOREM TaggedTextIsAlwaysTheText == Spec => []TaggedTextIsTheText
<1>1. ASSUME IInv PROVE TaggedTextIsTheText
  <2>. SUFFICES ASSUME phase = "walking", EndsApart
                PROVE  /\ \A r, s \in Put : r # s => Chars(r) \cap Chars(s) = {}
                       /\ tagged = TaggedText
    BY DEF TaggedTextIsTheText
  <2>1. ASSUME NEW r \in Put, NEW s \in Put, r # s PROVE Chars(r) \cap Chars(s) = {}
    <3>1. Apart(r, s)
      BY <1>1, <2>1 DEF IInv, Ordered
    <3>2. r.start \in Nat /\ r.stop \in Nat /\ s.start \in Nat /\ s.stop \in Nat
      BY <1>1, ResultsAreInTheText, ResultFields
    <3>. QED BY <3>1, <3>2 DEF Apart, Chars
  <2>2. tagged = Pieces(text, Put, Len(text))
    BY <1>1 DEF IInv, Shape, Position
  <2>3. DOMAIN text = 1..Len(text)
    BY <1>1, LenProperties DEF IInv, Shape
  <2>. QED BY <2>1, <2>2, <2>3 DEF Pieces, TaggedText
<1>. QED BY <1>1, Invariance, PTL

--------------------------------------------------------------------------
(* Where the tagged text comes from. *)

\* The marks of results are apart, and no characters of the text t.
Named(S, t) ==
  /\ \A r, s \in S : r.id = s.id => r = s
  /\ \A r \in S : r.id # Blank /\ \A p \in DOMAIN t : t[p] # r.id

\* What is left to do is in the order of a text of n characters.  Two results can be at
\* its last character, with the parts of none between them.
Comes(x, y, n) ==
  /\ y.id = None => x.stop < y.start
  /\ y.id # None /\ x.id = None => x.stop <= y.start
  /\ y.id # None /\ x.id # None => x.start < y.start \/ (x.start = n - 1 /\ y.start = n - 1)

InOrder(w, n) == \A j, k \in DOMAIN w : j < k => Comes(w[j], w[k], n)

\* A part that ends before it starts is never tagged: substring throws.
Stuck(w, n) == \E k \in PartsOf(w) : w[k].stop < w[k].start /\ w[k].start < n

IsMark(c, put) == \E r \in put : r.id = c

\* Each entry of the tagged text g is a character of t or the label of a used result, and
\* src is where it was, in order.
From(src, g, t, put, n) ==
  /\ src \in [DOMAIN g -> 0..(n - 1)]
  /\ \A p \in DOMAIN g : g[p] = t[src[p] + 1] \/ \E r \in put : r.id = g[p] /\ r.start = src[p]
  /\ \A p, q \in DOMAIN g : p < q =>
       \/ src[p] < src[q]
       \/ src[p] = n - 1 /\ src[q] = n - 1 /\ IsMark(g[p], put) /\ IsMark(g[q], put)

\* It was in front of what is left to do.
InFront(src, g, w, put, n) ==
  \A p \in DOMAIN g : \A k \in DOMAIN w :
    \/ src[p] < w[k].start
    \/ src[p] = n - 1 /\ w[k].start = n - 1 /\ w[k].id # None /\ IsMark(g[p], put)

\* A used result leaves what is left to do in order, unless the part behind it ends
\* before it starts.
LEMMA SplitInOrder ==
  ASSUME NEW n \in Nat, NEW w \in Seq(Items), w # <<>>, NEW u \in Result, NEW v, IsSplit(v, w, u),
         w[1].id = None, Fits(u, w[1]), u.start <= u.stop, u.stop < n,
         InOrder(w, n), ~Stuck(v, n)
  PROVE  InOrder(v, n)
<1>1. /\ Len(w) \in Nat /\ Len(w) >= 1 /\ DOMAIN w = 1..Len(w) /\ 1 \in DOMAIN w
      /\ u.start \in Nat /\ u.stop \in Nat /\ u.id # None
      /\ w[1].start \in Nat /\ w[1].stop \in Nat
      /\ w[1].start <= u.start /\ u.stop <= w[1].stop
  BY Dropped, ItemFields, ResultFields DEF Fits
<1>2. /\ Len(v) = Len(w) + 2 /\ DOMAIN v = 1..(Len(w) + 2) /\ v[2] = u
      /\ \A k \in 2..Len(w) : v[k + 2] = w[k]
  BY DEF IsSplit
<1>3. /\ v[1].id = None /\ v[1].start = w[1].start /\ v[1].stop = u.start
      /\ v[3].id = None /\ v[3].start = u.stop + 1 /\ v[3].stop = w[1].stop /\ 3 \in PartsOf(v)
  BY PartsOfSplit DEF PartsOf
<1>4. u.stop = w[1].stop => u.stop = n - 1
  <2>1. SUFFICES ASSUME u.stop = w[1].stop PROVE ~(u.stop + 1 < n)
    BY <1>1
  <2>2. ~(v[3].stop < v[3].start /\ v[3].start < n)
    BY <1>3 DEF Stuck
  <2>. QED BY <1>1, <1>3, <2>1, <2>2
<1>5. ASSUME NEW k \in 4..(Len(w) + 2)
      PROVE  /\ k - 2 \in DOMAIN w /\ 1 < k - 2 /\ v[k] = w[k - 2]
             /\ v[k].start \in Nat /\ Comes(w[1], v[k], n)
  <2>1. k - 2 \in 2..Len(w) /\ (k - 2) + 2 = k /\ k - 2 \in DOMAIN w /\ 1 < k - 2
    BY <1>1
  <2>2. v[k] = w[k - 2]
    BY <1>2, <2>1
  <2>3. w[k - 2] \in Items
    BY <2>1, ElementOfSeq, <1>1
  <2>4. Comes(w[1], w[k - 2], n)
    BY <1>1, <2>1 DEF InOrder
  <2>. QED BY <2>1, <2>2, <2>3, <2>4, ItemFields
<1>6. ASSUME NEW j \in DOMAIN v, NEW k \in DOMAIN v, j < k PROVE Comes(v[j], v[k], n)
  <2>1. j \in 1..(Len(w) + 2) /\ k \in 1..(Len(w) + 2) /\ j \in Nat /\ k \in Nat
    BY <1>1, <1>2
  <2>2. CASE k = 2
    <3>1. j = 1
      BY <1>6, <2>1, <2>2
    <3>. QED BY <1>1, <1>2, <1>3, <2>2, <3>1 DEF Comes
  <2>3. CASE k = 3
    <3>1. j = 1 \/ j = 2
      BY <1>6, <2>1, <2>3
    <3>. QED BY <1>1, <1>2, <1>3, <2>3, <3>1 DEF Comes
  <2>4. CASE k > 3
    <3>1. k \in 4..(Len(w) + 2)
      BY <1>1, <2>1, <2>4
    <3>2. v[k].start \in Nat /\ Comes(w[1], v[k], n)
      BY <1>5, <3>1
    <3>3. CASE j > 3
      <4>1. j \in 4..(Len(w) + 2) /\ j - 2 < k - 2
        BY <1>1, <1>6, <2>1, <3>3
      <4>. QED BY <1>5, <3>1, <4>1 DEF InOrder
    <3>4. CASE j = 1 \/ j = 3
      BY <1>1, <1>3, <3>2, <3>4 DEF Comes
    <3>5. CASE j = 2
      <4>1. v[k].id = None => u.stop < v[k].start
        BY <1>1, <3>2 DEF Comes
      <4>2. v[k].id # None => u.start < v[k].start \/ (u.start = n - 1 /\ v[k].start = n - 1)
        <5>1. SUFFICES ASSUME v[k].id # None PROVE u.start < v[k].start \/ (u.start = n - 1 /\ v[k].start = n - 1)
          OBVIOUS
        <5>2. w[1].stop <= v[k].start
          BY <1>1, <3>2, <5>1 DEF Comes
        <5>3. CASE u.start = v[k].start
          <6>1. u.stop = w[1].stop /\ u.start = u.stop
            BY <1>1, <3>2, <5>2, <5>3
          <6>. QED BY <1>4, <5>3, <6>1
        <5>4. CASE u.start # v[k].start
          BY <1>1, <3>2, <5>2, <5>4
        <5>. QED BY <5>3, <5>4
      <4>. QED BY <1>1, <1>2, <3>5, <4>1, <4>2 DEF Comes
    <3>. QED BY <2>1, <3>3, <3>4, <3>5
  <2>. QED BY <1>6, <2>1, <2>2, <2>3, <2>4
<1>. QED BY <1>6 DEF InOrder

\* It is behind what is tagged.
LEMMA SplitInFront ==
  ASSUME NEW n \in Nat, NEW w \in Seq(Items), w # <<>>, NEW u \in Result, NEW v, IsSplit(v, w, u),
         w[1].id = None, Fits(u, w[1]), u.start <= u.stop,
         NEW g \in Seq(STRING), NEW src \in [DOMAIN g -> 0..(n - 1)], NEW put,
         InFront(src, g, w, put, n)
  PROVE  InFront(src, g, v, put \cup {u}, n)
<1>1. /\ Len(w) \in Nat /\ Len(w) >= 1 /\ DOMAIN w = 1..Len(w) /\ 1 \in DOMAIN w
      /\ u.start \in Nat /\ u.stop \in Nat
      /\ w[1].start \in Nat /\ w[1].stop \in Nat
      /\ w[1].start <= u.start /\ u.stop <= w[1].stop
  BY Dropped, ItemFields, ResultFields DEF Fits
<1>2. /\ DOMAIN v = 1..(Len(w) + 2) /\ v[2] = u /\ \A k \in 2..Len(w) : v[k + 2] = w[k]
      /\ v[1].start = w[1].start /\ v[3].start = u.stop + 1
  <2>1. v[1].start = w[1].start /\ v[3].start = u.stop + 1
    BY PartsOfSplit
  <2>. QED BY <2>1 DEF IsSplit
<1>. SUFFICES ASSUME NEW p \in DOMAIN g, NEW k \in DOMAIN v
              PROVE  \/ src[p] < v[k].start
                     \/ src[p] = n - 1 /\ v[k].start = n - 1 /\ v[k].id # None
                        /\ IsMark(g[p], put \cup {u})
  BY DEF InFront
<1>3. src[p] \in Nat /\ src[p] < w[1].start
  <2>1. src[p] < w[1].start
    BY <1>1 DEF InFront
  <2>2. src[p] \in 0..(n - 1)
    OBVIOUS
  <2>. QED BY <2>1, <2>2
<1>4. k \in 1..(Len(w) + 2) /\ k \in Nat
  BY <1>1, <1>2
<1>5. CASE k > 3
  <2>1. k - 2 \in 2..Len(w) /\ (k - 2) + 2 = k /\ k - 2 \in DOMAIN w
    BY SMTT(30), <1>1, <1>4, <1>5
  <2>2. v[k] = w[k - 2]
    BY <1>2, <2>1
  <2>3. \/ src[p] < w[k - 2].start
        \/ src[p] = n - 1 /\ w[k - 2].start = n - 1 /\ w[k - 2].id # None /\ IsMark(g[p], put)
    BY <2>1 DEF InFront
  <2>. QED BY <2>2, <2>3 DEF IsMark
<1>6. CASE k = 1 \/ k = 2 \/ k = 3
  BY SMTT(30), <1>1, <1>2, <1>3, <1>6
<1>. QED BY <1>4, <1>5, <1>6

\* d characters of t from a on are copied behind g.
LEMMA Copied ==
  ASSUME NEW t \in Seq(STRING), NEW g \in Seq(STRING), NEW a \in Nat, NEW d \in Nat, a + d <= Len(t)
  PROVE  /\ g \o SubSeq(t, a + 1, a + d) \in Seq(STRING)
         /\ Len(g \o SubSeq(t, a + 1, a + d)) = Len(g) + d
         /\ \A p \in 1..(Len(g) + d) :
              (g \o SubSeq(t, a + 1, a + d))[p] = IF p <= Len(g) THEN g[p] ELSE t[a + (p - Len(g))]
<1>. DEFINE y == SubSeq(t, a + 1, a + d)
<1>1. Len(t) \in Nat /\ Len(g) \in Nat
  BY LenProperties
<1>2. \A p \in (a + 1)..(a + d) : t[p] \in STRING
  <2>. TAKE p \in (a + 1)..(a + d)
  <2>1. p \in 1..Len(t)
    BY <1>1
  <2>. QED BY <2>1, ElementOfSeq
<1>3. a + 1 \in Int /\ a + d \in Int
  OBVIOUS
<1>4. /\ y \in Seq(STRING) /\ Len(y) = IF a + 1 <= a + d THEN (a + d) - (a + 1) + 1 ELSE 0
      /\ \A k \in 1..((a + d) - (a + 1) + 1) : y[k] = t[(a + 1) + k - 1]
  BY SMTT(30), <1>2, <1>3, SubSeqProperties
<1>. HIDE DEF y
<1>5. (a + d) - (a + 1) + 1 = d
  OBVIOUS
<1>6. Len(y) = d
  BY <1>4
<1>7. \A k \in 1..d : y[k] = t[a + k]
  <2>. TAKE k \in 1..d
  <2>1. (a + 1) + k - 1 = a + k
    OBVIOUS
  <2>2. y[k] = t[(a + 1) + k - 1]
    BY <1>4, <1>5
  <2>. QED BY <2>1, <2>2
<1>8. /\ g \o y \in Seq(STRING) /\ Len(g \o y) = Len(g) + d
      /\ \A p \in 1..(Len(g) + d) : (g \o y)[p] = IF p <= Len(g) THEN g[p] ELSE y[p - Len(g)]
  <2>1. y \in Seq(STRING)
    BY <1>4
  <2>2. /\ g \o y \in Seq(STRING) /\ Len(g \o y) = Len(g) + Len(y)
        /\ \A p \in 1..(Len(g) + Len(y)) : (g \o y)[p] = IF p <= Len(g) THEN g[p] ELSE y[p - Len(g)]
    BY <2>1, ConcatProperties
  <2>. QED BY <1>6, <2>2
<1>9. ASSUME NEW p \in 1..(Len(g) + d)
      PROVE  (g \o y)[p] = IF p <= Len(g) THEN g[p] ELSE t[a + (p - Len(g))]
  <2>1. CASE p <= Len(g)
    BY <1>8, <2>1
  <2>2. CASE ~(p <= Len(g))
    <3>1. p - Len(g) \in 1..d
      BY <1>1, <2>2
    <3>. QED BY <1>7, <1>8, <2>2, <3>1
  <2>. QED BY <2>1, <2>2
<1>. QED BY <1>8, <1>9 DEF y

\* The places of what was tagged, and of d characters from a on.
Longer(src, m, a, d) == [p \in 1..(m + d) |-> IF p <= m THEN src[p] ELSE a + (p - m) - 1]

\* What they are.
IsLonger(f, src, m, a, d) ==
  /\ DOMAIN f = 1..(m + d) /\ f = [p \in 1..(m + d) |-> f[p]]
  /\ \A p \in 1..m : p \in 1..(m + d) /\ f[p] = src[p]
  /\ \A p \in (m + 1)..(m + d) :
       /\ p \in 1..(m + d) /\ p \in Nat /\ ~(p <= m) /\ f[p] = a + (p - m) - 1
       /\ f[p] \in Nat /\ a <= f[p] /\ f[p] < a + d /\ f[p] + 1 = a + (p - m)
  /\ \A p \in 1..(m + d) : p \in 1..m \/ p \in (m + 1)..(m + d)

\* They go on by one from a.
LEMMA LongerIs ==
  ASSUME NEW src, NEW m \in Nat, NEW a \in Nat, NEW d \in Nat
  PROVE  IsLonger(Longer(src, m, a, d), src, m, a, d)
<1>. DEFINE f == Longer(src, m, a, d)
<1>1. DOMAIN f = 1..(m + d) /\ f = [p \in 1..(m + d) |-> f[p]]
  BY DEF Longer
<1>2. \A p \in 1..(m + d) : f[p] = IF p <= m THEN src[p] ELSE a + (p - m) - 1
  BY DEF Longer
<1>. HIDE DEF f
<1>3. \A p \in 1..m : p \in 1..(m + d) /\ p <= m
  OBVIOUS
<1>4. ASSUME NEW p \in (m + 1)..(m + d)
      PROVE  /\ p \in 1..(m + d) /\ p \in Nat /\ f[p] = a + (p - m) - 1 /\ ~(p <= m)
             /\ f[p] \in Nat /\ a <= f[p] /\ f[p] < a + d /\ f[p] + 1 = a + (p - m)
  <2>1. p \in 1..(m + d) /\ p \in Nat /\ ~(p <= m)
    OBVIOUS
  <2>2. f[p] = a + (p - m) - 1
    BY <1>2, <2>1
  <2>. QED BY <2>1, <2>2
<1>5. \A p \in 1..(m + d) : p \in 1..m \/ p \in (m + 1)..(m + d)
  OBVIOUS
<1>6. \A p \in 1..m : f[p] = src[p]
  BY <1>2, <1>3
<1>7. IsLonger(f, src, m, a, d)
  BY <1>1, <1>3, <1>4, <1>5, <1>6 DEF IsLonger
<1>. QED BY <1>7 DEF f

\* A part is copied: each of its characters is from the place behind the one before.
LEMMA CopiedFrom ==
  ASSUME NEW t \in Seq(STRING), NEW n \in Nat, n = Len(t), NEW w \in Seq(Items), w # <<>>,
         NEW a \in Nat, NEW d \in Nat, w[1].id = None, w[1].start = a, w[1].stop = a + d, a + d <= n,
         InOrder(w, n), NEW put \in SUBSET Result, NEW g \in Seq(STRING), NEW src,
         From(src, g, t, put, n), InFront(src, g, w, put, n),
         NEW x, x = g \o SubSeq(t, a + 1, a + d)
  PROVE  \E new : From(new, x, t, put, n) /\ InFront(new, x, Tail(w), put, n)
<1>1. /\ Len(w) \in Nat /\ 1 \in DOMAIN w /\ DOMAIN w = 1..Len(w)
      /\ Tail(w) \in Seq(Items) /\ DOMAIN Tail(w) = 1..(Len(w) - 1)
      /\ \A k \in 1..(Len(w) - 1) : Tail(w)[k] = w[k + 1] /\ k + 1 \in DOMAIN w /\ 1 < k + 1
  <2>1. /\ Len(w) \in Nat /\ 1 \in DOMAIN w /\ DOMAIN w = 1..Len(w)
        /\ Tail(w) \in Seq(Items) /\ DOMAIN Tail(w) = 1..(Len(w) - 1)
        /\ \A k \in 1..(Len(w) - 1) : Tail(w)[k] = w[k + 1] /\ k + 1 \in DOMAIN w
    BY Dropped
  <2>2. \A k \in 1..(Len(w) - 1) : 1 < k + 1
    BY <2>1
  <2>. QED BY <2>1, <2>2
<1>. DEFINE m   == Len(g)
            new == Longer(src, m, a, d)
<1>2. /\ m \in Nat /\ DOMAIN g = 1..m /\ DOMAIN x = 1..(m + d)
      /\ \A p \in 1..(m + d) : x[p] = IF p <= m THEN g[p] ELSE t[a + (p - m)]
  <2>1. m \in Nat /\ DOMAIN g = 1..m
    BY LenProperties
  <2>2. /\ x \in Seq(STRING) /\ Len(x) = m + d
        /\ \A p \in 1..(m + d) : x[p] = IF p <= m THEN g[p] ELSE t[a + (p - m)]
    BY SMTT(30), Copied
  <2>. QED BY <2>1, <2>2, LenProperties
<1>. HIDE DEF m
<1>3. /\ DOMAIN new = 1..(m + d) /\ new = [p \in 1..(m + d) |-> new[p]]
      /\ \A p \in 1..m : p \in 1..(m + d) /\ new[p] = src[p]
      /\ \A p \in (m + 1)..(m + d) :
           /\ p \in 1..(m + d) /\ p \in Nat /\ ~(p <= m) /\ new[p] = a + (p - m) - 1
           /\ new[p] \in Nat /\ a <= new[p] /\ new[p] < a + d /\ new[p] + 1 = a + (p - m)
      /\ \A p \in 1..(m + d) : p \in 1..m \/ p \in (m + 1)..(m + d)
  <2>1. m \in Nat
    BY <1>2
  <2>2. IsLonger(new, src, m, a, d)
    BY <2>1, LongerIs
  <2>. HIDE DEF new
  <2>. QED BY <2>2 DEF IsLonger
<1>. HIDE DEF new
<1>4. /\ src \in [1..m -> 0..(n - 1)]
      /\ \A p \in 1..m : src[p] \in 0..(n - 1) /\ src[p] < a
  <2>1. src \in [1..m -> 0..(n - 1)]
    BY <1>2 DEF From
  <2>2. \A p \in 1..m : src[p] < w[1].start
    BY <1>1, <1>2 DEF InFront
  <2>. QED BY <2>1, <2>2
<1>5. \A p \in (m + 1)..(m + d) : new[p] \in 0..(n - 1)
  <2>. TAKE p \in (m + 1)..(m + d)
  <2>1. new[p] \in Nat /\ new[p] < a + d
    BY <1>3
  <2>. QED BY <2>1
<1>6. new \in [DOMAIN x -> 0..(n - 1)]
  <2>1. \A p \in 1..(m + d) : new[p] \in 0..(n - 1)
    BY <1>3, <1>4, <1>5
  <2>. QED BY <1>2, <1>3, <2>1
<1>7. /\ \A p \in 1..m : x[p] = g[p]
      /\ \A p \in (m + 1)..(m + d) : x[p] = t[a + (p - m)]
  <2>1. \A p \in 1..m : p <= m
    BY <1>2
  <2>. QED BY <1>2, <1>3, <2>1
<1>8. ASSUME NEW p \in DOMAIN x
      PROVE  x[p] = t[new[p] + 1] \/ \E r \in put : r.id = x[p] /\ r.start = new[p]
  <2>1. CASE p \in 1..m
    <3>1. g[p] = t[src[p] + 1] \/ \E r \in put : r.id = g[p] /\ r.start = src[p]
      BY <1>2, <2>1 DEF From
    <3>. QED BY <1>3, <1>7, <2>1, <3>1
  <2>2. CASE p \in (m + 1)..(m + d)
    BY <1>3, <1>7, <2>2
  <2>. QED BY <1>2, <1>3, <2>1, <2>2
<1>9. ASSUME NEW p \in DOMAIN x, NEW q \in DOMAIN x, p < q
      PROVE  \/ new[p] < new[q]
             \/ new[p] = n - 1 /\ new[q] = n - 1 /\ IsMark(x[p], put) /\ IsMark(x[q], put)
  <2>1. CASE q \in 1..m
    <3>1. p \in 1..m /\ q \in 1..m
      BY <1>2, <1>9, <2>1
    <3>2. \/ src[p] < src[q]
          \/ src[p] = n - 1 /\ src[q] = n - 1 /\ IsMark(g[p], put) /\ IsMark(g[q], put)
      BY <1>2, <1>9, <3>1 DEF From
    <3>. QED BY <1>3, <1>7, <3>1, <3>2
  <2>2. CASE q \in (m + 1)..(m + d)
    <3>1. CASE p \in 1..m
      <4>1. new[p] = src[p] /\ src[p] < a /\ src[p] \in 0..(n - 1)
        BY <1>3, <1>4, <3>1
      <4>2. a <= new[q] /\ new[q] \in Nat
        BY <1>3, <2>2
      <4>. QED BY <4>1, <4>2
    <3>2. CASE p \in (m + 1)..(m + d)
      <4>1. new[p] = a + (p - m) - 1 /\ new[q] = a + (q - m) - 1 /\ p \in Nat /\ q \in Nat
        BY <1>3, <2>2, <3>2
      <4>2. new[p] < new[q]
        BY <1>2, <1>9, <4>1
      <4>. QED BY <4>2
    <3>. QED BY <1>2, <1>3, <3>1, <3>2
  <2>. QED BY <1>2, <1>3, <2>1, <2>2
<1>10. From(new, x, t, put, n)
  BY <1>6, <1>8, <1>9 DEF From
<1>11. ASSUME NEW p \in DOMAIN x, NEW k \in DOMAIN Tail(w)
       PROVE  \/ new[p] < Tail(w)[k].start
              \/ /\ new[p] = n - 1 /\ Tail(w)[k].start = n - 1
                 /\ Tail(w)[k].id # None /\ IsMark(x[p], put)
  <2>. DEFINE y == w[k + 1]
  <2>1. k + 1 \in DOMAIN w /\ Tail(w)[k] = y /\ 1 < k + 1
    BY <1>1
  <2>2. CASE p \in 1..m
    <3>1. \/ src[p] < y.start
          \/ src[p] = n - 1 /\ y.start = n - 1 /\ y.id # None /\ IsMark(g[p], put)
      BY <1>2, <2>1, <2>2 DEF InFront
    <3>. QED BY <1>3, <1>7, <2>1, <2>2, <3>1
  <2>3. CASE p \in (m + 1)..(m + d)
    <3>1. Comes(w[1], y, n)
      BY <1>1, <2>1 DEF InOrder
    <3>2. y.start \in Nat
      <4>1. y \in Items
        BY <2>1, <1>1, ElementOfSeq
      <4>. HIDE DEF y
      <4>. QED BY <4>1, ItemFields
    <3>. HIDE DEF y
    <3>3. a + d <= y.start
      <4>1. a + d < y.start \/ a + d <= y.start
        BY <3>1 DEF Comes
      <4>. QED BY <3>2, <4>1
    <3>4. new[p] \in Nat /\ new[p] < a + d
      BY <1>3, <2>3
    <3>5. new[p] < y.start
      BY <3>2, <3>3, <3>4
    <3>. QED BY <2>1, <3>5
  <2>. QED BY <1>2, <1>3, <2>2, <2>3
<1>12. InFront(new, x, Tail(w), put, n)
  BY <1>11 DEF InFront
<1>. QED BY <1>10, <1>12

\* A label is put: it is from the place where its result starts.
LEMMA LabelFrom ==
  ASSUME NEW t \in Seq(STRING), NEW n \in Nat, n = Len(t), NEW w \in Seq(Items), w # <<>>,
         NEW put \in SUBSET Result, NEW u \in put, w[1] = u,
         NEW a \in Nat, u.start = a, a <= u.stop, u.stop < n,
         InOrder(w, n), NEW g \in Seq(STRING), NEW src,
         From(src, g, t, put, n), InFront(src, g, w, put, n),
         NEW x, x = Append(g, u.id)
  PROVE  \E new : From(new, x, t, put, n) /\ InFront(new, x, Tail(w), put, n)
<1>1. /\ Len(w) \in Nat /\ 1 \in DOMAIN w /\ DOMAIN w = 1..Len(w)
      /\ Tail(w) \in Seq(Items) /\ DOMAIN Tail(w) = 1..(Len(w) - 1)
      /\ \A k \in 1..(Len(w) - 1) : Tail(w)[k] = w[k + 1] /\ k + 1 \in DOMAIN w /\ 1 < k + 1
  <2>1. /\ Len(w) \in Nat /\ 1 \in DOMAIN w /\ DOMAIN w = 1..Len(w)
        /\ Tail(w) \in Seq(Items) /\ DOMAIN Tail(w) = 1..(Len(w) - 1)
        /\ \A k \in 1..(Len(w) - 1) : Tail(w)[k] = w[k + 1] /\ k + 1 \in DOMAIN w
    BY Dropped
  <2>2. \A k \in 1..(Len(w) - 1) : 1 < k + 1
    BY <2>1
  <2>. QED BY <2>1, <2>2
<1>2. u \in Result /\ u.stop \in Nat /\ u.id # None /\ u.id \in STRING /\ a < n
  <2>1. u \in Result /\ u.stop \in Nat /\ u.id # None
    BY ResultFields
  <2>2. u.id \in STRING
    BY <2>1 DEF Result
  <2>. QED BY <2>1, <2>2
<1>. DEFINE m   == Len(g)
            new == Longer(src, m, a, 1)
<1>3. /\ m \in Nat /\ DOMAIN g = 1..m /\ DOMAIN x = 1..(m + 1) /\ m + 1 \in (m + 1)..(m + 1)
      /\ x[m + 1] = u.id
      /\ \A p \in 1..m : x[p] = g[p]
  <2>1. m \in Nat /\ DOMAIN g = 1..m
    BY LenProperties
  <2>2. /\ x \in Seq(STRING) /\ Len(x) = m + 1 /\ x[m + 1] = u.id
        /\ \A p \in 1..m : x[p] = g[p]
    BY <1>2, AppendProperties
  <2>. QED BY <2>1, <2>2, LenProperties
<1>. HIDE DEF m
<1>4. /\ DOMAIN new = 1..(m + 1) /\ new = [p \in 1..(m + 1) |-> new[p]]
      /\ \A p \in 1..m : p \in 1..(m + 1) /\ new[p] = src[p]
      /\ new[m + 1] = a
      /\ \A p \in 1..(m + 1) : p \in 1..m \/ p = m + 1
  <2>1. m \in Nat /\ 1 \in Nat
    BY <1>3
  <2>2. IsLonger(new, src, m, a, 1)
    BY <2>1, LongerIs
  <2>. HIDE DEF new
  <2>3. new[m + 1] = a
    <3>1. m + 1 \in (m + 1)..(m + 1)
      BY <2>1
    <3>2. new[m + 1] + 1 = a + ((m + 1) - m) /\ new[m + 1] \in Nat
      BY <2>2, <3>1 DEF IsLonger
    <3>. QED BY <2>1, <3>2
  <2>4. \A p \in 1..(m + 1) : p \in 1..m \/ p = m + 1
    BY <2>1
  <2>. QED BY <2>2, <2>3, <2>4 DEF IsLonger
<1>. HIDE DEF new
<1>5. src \in [1..m -> 0..(n - 1)] /\ \A p \in 1..m : src[p] \in 0..(n - 1)
  BY <1>3 DEF From
<1>6. new \in [DOMAIN x -> 0..(n - 1)]
  <2>1. a \in 0..(n - 1)
    BY <1>2
  <2>2. \A p \in 1..(m + 1) : new[p] \in 0..(n - 1)
    BY <1>4, <1>5, <2>1
  <2>. QED BY <1>3, <1>4, <2>2
<1>7. ASSUME NEW p \in DOMAIN x
      PROVE  x[p] = t[new[p] + 1] \/ \E r \in put : r.id = x[p] /\ r.start = new[p]
  <2>1. CASE p \in 1..m
    <3>1. g[p] = t[src[p] + 1] \/ \E r \in put : r.id = g[p] /\ r.start = src[p]
      BY <1>3, <2>1 DEF From
    <3>. QED BY <1>3, <1>4, <2>1, <3>1
  <2>2. CASE p = m + 1
    BY <1>3, <1>4, <2>2
  <2>. QED BY <1>3, <1>4, <2>1, <2>2
<1>8. IsMark(x[m + 1], put)
  BY <1>3 DEF IsMark
<1>9. \A p \in 1..m : src[p] < a \/ (src[p] = n - 1 /\ a = n - 1 /\ IsMark(g[p], put))
  BY <1>1, <1>3 DEF InFront
<1>10. ASSUME NEW p \in DOMAIN x, NEW q \in DOMAIN x, p < q
       PROVE  \/ new[p] < new[q]
              \/ new[p] = n - 1 /\ new[q] = n - 1 /\ IsMark(x[p], put) /\ IsMark(x[q], put)
  <2>0. p \in Nat /\ p \in 1..m
    BY <1>3, <1>10
  <2>1. CASE q \in 1..m
    <3>1. \/ src[p] < src[q]
          \/ src[p] = n - 1 /\ src[q] = n - 1 /\ IsMark(g[p], put) /\ IsMark(g[q], put)
      BY <1>3, <1>10, <2>0, <2>1 DEF From
    <3>. QED BY <1>3, <1>4, <2>0, <2>1, <3>1
  <2>2. CASE q = m + 1
    BY <1>3, <1>4, <1>8, <1>9, <2>0, <2>2
  <2>. QED BY <1>3, <1>4, <2>1, <2>2
<1>11. From(new, x, t, put, n)
  BY <1>6, <1>7, <1>10 DEF From
<1>12. ASSUME NEW p \in DOMAIN x, NEW k \in DOMAIN Tail(w)
       PROVE  \/ new[p] < Tail(w)[k].start
              \/ /\ new[p] = n - 1 /\ Tail(w)[k].start = n - 1
                 /\ Tail(w)[k].id # None /\ IsMark(x[p], put)
  <2>. DEFINE y == w[k + 1]
  <2>1. k + 1 \in DOMAIN w /\ Tail(w)[k] = y /\ 1 < k + 1
    BY <1>1
  <2>2. CASE p \in 1..m
    <3>1. \/ src[p] < y.start
          \/ src[p] = n - 1 /\ y.start = n - 1 /\ y.id # None /\ IsMark(g[p], put)
      BY <1>3, <2>1, <2>2 DEF InFront
    <3>. QED BY <1>3, <1>4, <2>1, <2>2, <3>1
  <2>3. CASE p = m + 1
    <3>1. Comes(u, y, n)
      BY <1>1, <2>1 DEF InOrder
    <3>2. y.start \in Nat
      <4>1. y \in Items
        BY <2>1, <1>1, ElementOfSeq
      <4>. HIDE DEF y
      <4>. QED BY <4>1, ItemFields
    <3>. HIDE DEF y
    <3>3. a < y.start \/ (a = n - 1 /\ y.start = n - 1 /\ y.id # None)
      <4>1. \/ u.stop < y.start
            \/ y.id # None /\ (a < y.start \/ (a = n - 1 /\ y.start = n - 1))
        BY <1>2, <3>1 DEF Comes
      <4>. QED BY <1>2, <3>2, <4>1
    <3>. QED BY <1>4, <1>8, <2>1, <2>3, <3>3
  <2>. QED BY <1>3, <1>4, <2>2, <2>3
<1>13. InFront(new, x, Tail(w), put, n)
  BY <1>12 DEF InFront
<1>. QED BY <1>11, <1>13

\* What is dropped leaves the rest in order.
LEMMA DropInOrder ==
  ASSUME NEW w \in Seq(Items), w # <<>>, NEW n
  PROVE  /\ InOrder(w, n) => InOrder(Tail(w), n)
         /\ \A src, g, put : InFront(src, g, w, put, n) => InFront(src, g, Tail(w), put, n)
         /\ Stuck(w, n) => Stuck(Tail(w), n) \/ (w[1].id = None /\ w[1].stop < w[1].start /\ w[1].start < n)
<1>1. /\ Len(w) \in Nat /\ 1 \in DOMAIN w /\ DOMAIN w = 1..Len(w)
      /\ DOMAIN Tail(w) = 1..(Len(w) - 1)
      /\ \A k \in 1..(Len(w) - 1) : Tail(w)[k] = w[k + 1] /\ k + 1 \in DOMAIN w
  BY Dropped
<1>2. InOrder(w, n) => InOrder(Tail(w), n)
  <2>1. ASSUME InOrder(w, n), NEW j \in DOMAIN Tail(w), NEW k \in DOMAIN Tail(w), j < k
        PROVE  Comes(Tail(w)[j], Tail(w)[k], n)
    <3>1. j + 1 < k + 1
      BY <1>1, <2>1
    <3>2. Comes(w[j + 1], w[k + 1], n)
      BY <1>1, <2>1, <3>1 DEF InOrder
    <3>. QED BY <1>1, <3>2
  <2>. QED BY <2>1 DEF InOrder
<1>3. \A src, g, put : InFront(src, g, w, put, n) => InFront(src, g, Tail(w), put, n)
  BY <1>1 DEF InFront
<1>4. Stuck(w, n) => Stuck(Tail(w), n) \/ (w[1].id = None /\ w[1].stop < w[1].start /\ w[1].start < n)
  <2>1. ASSUME NEW k \in PartsOf(w), w[k].stop < w[k].start, w[k].start < n, k # 1
        PROVE  Stuck(Tail(w), n)
    <3>1. k - 1 \in 1..(Len(w) - 1) /\ (k - 1) + 1 = k
      BY <1>1, <2>1 DEF PartsOf
    <3>2. Tail(w)[k - 1] = w[k] /\ k - 1 \in PartsOf(Tail(w))
      BY <1>1, <3>1 DEF PartsOf
    <3>. QED BY <2>1, <3>2 DEF Stuck
  <2>. QED BY <2>1 DEF Stuck, PartsOf
<1>. QED BY <1>2, <1>3, <1>4

\* A part that ends before it starts stays where it is when a result is used in another.
LEMMA SplitStuck ==
  ASSUME NEW w \in Seq(Items), w # <<>>, NEW u \in Result, NEW v, IsSplit(v, w, u), w[1].id = None,
         NEW n \in Nat, Fits(u, w[1]), u.start <= u.stop, Stuck(w, n)
  PROVE  Stuck(v, n)
<1>1. PICK k \in PartsOf(w) : w[k].stop < w[k].start /\ w[k].start < n
  BY DEF Stuck
<1>2. k # 1
  <2>1. /\ u.start \in Nat /\ u.stop \in Nat /\ w[1].start \in Nat /\ w[1].stop \in Nat
        /\ w[1].start <= u.start /\ u.stop <= w[1].stop
    BY Dropped, ItemFields, ResultFields DEF Fits
  <2>. QED BY <1>1, <2>1
<1>3. k + 2 \in PartsOf(v) /\ v[k + 2] = w[k]
  BY <1>2, PartsOfSplit
<1>. QED BY <1>1, <1>3 DEF Stuck

\* Where the work starts: at most at the end of the text.
LEMMA StartsInText ==
  ASSUME NEW n \in Nat, NEW w \in Seq(Items), w # <<>>, NEW u \in Result, u.start <= u.stop, u.stop < n,
         NEW v, IsSplit(v, w, u), w[1].id = None, \A k \in DOMAIN w : w[k].start <= n
  PROVE  \A k \in DOMAIN v : v[k].start <= n
<1>1. /\ DOMAIN w = 1..Len(w) /\ Len(w) \in Nat /\ 1 \in DOMAIN w
  BY Dropped
<1>2. /\ DOMAIN v = 1..(Len(w) + 2) /\ v[2] = u /\ \A k \in 2..Len(w) : v[k + 2] = w[k]
      /\ v[1].start = w[1].start /\ v[3].start = u.stop + 1
  <2>1. v[1].start = w[1].start /\ v[3].start = u.stop + 1
    BY PartsOfSplit
  <2>. QED BY <2>1 DEF IsSplit
<1>3. u.start \in Nat /\ u.stop \in Nat /\ u.start <= n /\ u.stop + 1 <= n
  <2>1. u.start \in Nat /\ u.stop \in Nat
    BY ResultFields
  <2>. QED BY <2>1
<1>4. ASSUME NEW k \in DOMAIN v, k > 3 PROVE v[k].start <= n
  <2>1. k - 2 \in 2..Len(w) /\ (k - 2) + 2 = k /\ k - 2 \in DOMAIN w
    BY <1>1, <1>2, <1>4
  <2>2. v[k] = w[k - 2]
    BY <1>2, <2>1
  <2>. QED BY <2>1, <2>2
<1>5. \A k \in DOMAIN v : k = 1 \/ k = 2 \/ k = 3 \/ k > 3
  BY <1>1, <1>2
<1>. QED BY <1>1, <1>2, <1>3, <1>4, <1>5

--------------------------------------------------------------------------
(* The steps, whether or not the results overlap at their ends. *)

\* What is tagged comes from the text in order, and is in front of what is left.
Tagged ==
  /\ InOrder(work, Len(text))
  /\ \E src : From(src, tagged, text, Put, Len(text)) /\ InFront(src, tagged, work, Put, Len(text))

TagInv ==
  /\ Named(Listed, text)
  /\ \A k \in DOMAIN work : work[k].start <= Len(text)
  /\ Stuck(work, Len(text)) \/ Tagged

\* At first nothing is tagged, and there is one part.
LEMMA InitTagInv == Init => TagInv
<1>. SUFFICES ASSUME Init PROVE TagInv
  OBVIOUS
<1>1. PICK q \in Requests : text = q.text /\ results = q.results
  BY DEF Init
<1>2. Named(Listed, text)
  BY <1>1, RequestsAssumption, LabelsAssumption DEF Named, Listed
<1>3. tagged = <<>> /\ work = <<Part(0, Len(text))>>
  BY DEF Init
<1>4. Len(text) \in Nat
  BY <1>1, RequestsAssumption, LenProperties
<1>5. DOMAIN work = {1} /\ work[1].start = 0 /\ work[1].id = None
  BY <1>3 DEF Part
<1>6. \A k \in DOMAIN work : work[k].start <= Len(text)
  BY <1>4, <1>5
<1>7. InOrder(work, Len(text))
  BY <1>5 DEF InOrder
<1>8. DOMAIN tagged = {}
  BY <1>3
<1>10. From(tagged, tagged, text, Put, Len(text)) /\ InFront(tagged, tagged, work, Put, Len(text))
  <2>1. tagged \in [DOMAIN tagged -> 0..(Len(text) - 1)]
    BY <1>3
  <2>. QED BY <1>8, <2>1 DEF From, InFront
<1>. QED BY <1>2, <1>6, <1>7, <1>10 DEF TagInv, Tagged

\* More used results, more marks.
LEMMA FromMore ==
  ASSUME NEW src, NEW g, NEW t, NEW put, NEW u, NEW n, From(src, g, t, put, n)
  PROVE  From(src, g, t, put \cup {u}, n)
<1>1. \A c : IsMark(c, put) => IsMark(c, put \cup {u})
  BY DEF IsMark
<1>2. \A p, q \in DOMAIN g : p < q =>
        \/ src[p] < src[q]
        \/ /\ src[p] = n - 1 /\ src[q] = n - 1
           /\ IsMark(g[p], put \cup {u}) /\ IsMark(g[q], put \cup {u})
  BY <1>1 DEF From
<1>. QED BY <1>2 DEF From

\* A result used leaves the text in order, or a part that ends before it starts.
LEMMA UseResultTags == IInv /\ TagInv /\ UseResult => TagInv'
<1>. SUFFICES ASSUME IInv, TagInv, UseResult PROVE TagInv'
  OBVIOUS
<1>. DEFINE n == Len(text)
<1>1. PICK u \in Waiting : Uses(u)
  BY SomeResultIsUsed
<1>2. /\ work # <<>> /\ work[1].id = None /\ Fits(u, work[1]) /\ IsSplit(work', work, u)
      /\ u \in Result /\ u \in Listed /\ u \notin Put /\ u.start <= u.stop /\ u.stop < n
      /\ Listed' = Listed /\ Put' = Put \cup {u} /\ text' = text /\ tagged' = tagged
  BY <1>1 DEF Uses
<1>3. n \in Nat /\ work \in Seq(Items) /\ text \in Seq(STRING) /\ Put \in SUBSET Result /\ Put \subseteq Listed
  BY ResultsAreInTheText
<1>4. tagged \in Seq(STRING) /\ \A k \in DOMAIN work : work[k].id # None => work[k] \in Put
  BY DEF IInv, Shape
<1>5. Named(Listed', text') /\ Named(Put', text)
  BY <1>2, <1>3 DEF TagInv, Named
<1>. HIDE DEF n
<1>6. \A k \in DOMAIN work' : work'[k].start <= n
  <2>1. \A k \in DOMAIN work : work[k].start <= n
    BY DEF TagInv, n
  <2>. QED BY <1>2, <1>3, <2>1, StartsInText
<1>7. CASE Stuck(work, n)
  <2>1. Stuck(work', n)
    BY <1>2, <1>3, <1>7, SplitStuck
  <2>. QED BY <1>2, <1>5, <1>6, <2>1 DEF TagInv, n
<1>8. CASE Tagged /\ ~Stuck(work', n)
  <2>1. InOrder(work, n)
    BY <1>8 DEF Tagged, n
  <2>2. PICK src : From(src, tagged, text, Put, n) /\ InFront(src, tagged, work, Put, n)
    BY <1>8 DEF Tagged, n
  <2>3. InOrder(work', n)
    BY <1>2, <1>3, <1>8, <2>1, SplitInOrder
  <2>4. src \in [DOMAIN tagged -> 0..(n - 1)]
    BY <2>2 DEF From
  <2>5. InFront(src, tagged, work', Put', n)
    BY <1>2, <1>3, <1>4, <2>2, <2>4, SplitInFront
  <2>6. From(src, tagged, text, Put', n)
    BY <1>2, <2>2, FromMore
  <2>8. Tagged'
    BY <1>2, <2>3, <2>5, <2>6 DEF Tagged, n
  <2>. QED BY <1>2, <1>5, <1>6, <2>8 DEF TagInv, n
<1>9. CASE Stuck(work', n)
  BY <1>2, <1>5, <1>6, <1>9 DEF TagInv, n
<1>. QED BY <1>7, <1>8, <1>9 DEF TagInv, n

\* What is first is done: what is left of the invariant is that it is tagged.
LEMMA DropTags ==
  ASSUME IInv, TagInv, work # <<>>, work' = Tail(work), UNCHANGED <<text, results, unused>>,
         ~(work[1].id = None /\ work[1].stop < work[1].start /\ work[1].start < Len(text)),
         Tagged => \E src : From(src, tagged', text, Put, Len(text))
                             /\ InFront(src, tagged', Tail(work), Put, Len(text))
  PROVE  TagInv'
<1>1. Listed' = Listed /\ Put' = Put /\ Len(text') = Len(text) /\ text' = text /\ work \in Seq(Items)
  BY ResultsAreInTheText DEF Listed, Put
<1>2. /\ DOMAIN work' = 1..(Len(work) - 1)
      /\ \A k \in 1..(Len(work) - 1) : work'[k] = work[k + 1] /\ k + 1 \in DOMAIN work
  BY <1>1, Dropped
<1>3. \A k \in DOMAIN work' : work'[k].start <= Len(text)
  BY <1>2 DEF TagInv
<1>4. /\ InOrder(work, Len(text)) => InOrder(work', Len(text))
      /\ Stuck(work, Len(text)) => Stuck(work', Len(text))
  BY <1>1, DropInOrder
<1>5. Tagged => Tagged'
  BY <1>1, <1>4 DEF Tagged
<1>. QED BY <1>1, <1>3, <1>4, <1>5 DEF TagInv

\* A part copied comes behind what is tagged.
LEMMA CopyPartTags == IInv /\ TagInv /\ CopyPart => TagInv'
<1>. SUFFICES ASSUME IInv, TagInv, CopyPart PROVE TagInv'
  OBVIOUS
<1>1. /\ work # <<>> /\ work' = Tail(work) /\ UNCHANGED <<text, results, unused>>
      /\ tagged' = tagged \o SubSeq(text, Now.start + 1, Now.stop)
      /\ Now.id = None /\ Now.start <= Now.stop
  BY DEF CopyPart, TagOnly, Tagging
<1>2. /\ Now = work[1] /\ work[1].start \in Nat /\ work[1].stop \in Nat /\ work[1].stop <= Len(text)
      /\ work \in Seq(Items) /\ text \in Seq(STRING) /\ Put \in SUBSET Result /\ Put \subseteq Listed
      /\ Len(text) \in Nat
  <2>1. /\ Now = work[1] /\ work[1].start \in Nat /\ work[1].stop \in Nat /\ 1 \in DOMAIN work
    BY <1>1, ResultsAreInTheText, Dropped, ItemFields DEF Now
  <2>2. work[1].stop <= Len(text)
    BY <2>1 DEF IInv, Shape
  <2>. QED BY <2>1, <2>2, ResultsAreInTheText
<1>3. tagged \in Seq(STRING) /\ \A k \in DOMAIN work : work[k].id # None => work[k] \in Put
  BY DEF IInv, Shape
<1>4. Named(Put, text)
  BY <1>2 DEF TagInv, Named
<1>5. \E a, d \in Nat : work[1].start = a /\ work[1].stop = a + d /\ a + d <= Len(text)
  <2>0. \A a, b \in Nat : a <= b => b - a \in Nat /\ b = a + (b - a)
    OBVIOUS
  <2>1. work[1].stop - work[1].start \in Nat /\ work[1].stop = work[1].start + (work[1].stop - work[1].start)
    BY <1>1, <1>2, <2>0
  <2>. QED BY <1>2, <2>1
<1>6. PICK a \in Nat, d \in Nat : work[1].start = a /\ work[1].stop = a + d /\ a + d <= Len(text)
  BY <1>5
<1>7. tagged' = tagged \o SubSeq(text, a + 1, a + d)
  BY <1>1, <1>2, <1>6
<1>8. ASSUME Tagged
      PROVE  \E src : From(src, tagged', text, Put, Len(text))
                      /\ InFront(src, tagged', Tail(work), Put, Len(text))
  <2>1. InOrder(work, Len(text))
    BY <1>8 DEF Tagged
  <2>2. PICK src : From(src, tagged, text, Put, Len(text)) /\ InFront(src, tagged, work, Put, Len(text))
    BY <1>8 DEF Tagged
  <2>4. work[1].id = None
    BY <1>1, <1>2
  <2>5. \E new : From(new, tagged', text, Put, Len(text)) /\ InFront(new, tagged', Tail(work), Put, Len(text))
    BY <1>1, <1>2, <1>3, <1>6, <1>7, <2>1, <2>2, <2>4, CopiedFrom
  <2>. QED BY <2>5
<1>9. ~(work[1].stop < work[1].start)
  BY <1>1, <1>2
<1>. QED BY <1>1, <1>8, <1>9, DropTags

\* A part at the end of the text adds nothing.
LEMMA SkipEndTags == IInv /\ TagInv /\ SkipEnd => TagInv'
<1>. SUFFICES ASSUME IInv, TagInv, SkipEnd PROVE TagInv'
  OBVIOUS
<1>1. /\ work # <<>> /\ work' = Tail(work) /\ UNCHANGED <<text, results, unused>> /\ tagged' = tagged
      /\ Now.id = None /\ Now.start >= Len(text)
  BY DEF SkipEnd, TagOnly, Tagging
<1>2. /\ Now = work[1] /\ work[1].start \in Nat /\ Len(text) \in Nat /\ work \in Seq(Items)
  BY <1>1, ResultsAreInTheText, Dropped, ItemFields DEF Now
<1>3. ASSUME Tagged
      PROVE  \E src : From(src, tagged', text, Put, Len(text))
                      /\ InFront(src, tagged', Tail(work), Put, Len(text))
  <2>2. PICK src : From(src, tagged, text, Put, Len(text)) /\ InFront(src, tagged, work, Put, Len(text))
    BY <1>3 DEF Tagged
  <2>3. InFront(src, tagged', Tail(work), Put, Len(text))
    BY <1>1, <1>2, <2>2, DropInOrder
  <2>. QED BY <1>1, <2>2, <2>3
<1>4. ~(work[1].start < Len(text))
  BY <1>1, <1>2
<1>. QED BY <1>1, <1>3, <1>4, DropTags

\* A label comes behind what is tagged.
LEMMA PutLabelTags == IInv /\ TagInv /\ PutLabel => TagInv'
<1>. SUFFICES ASSUME IInv, TagInv, PutLabel PROVE TagInv'
  OBVIOUS
<1>1. /\ work # <<>> /\ work' = Tail(work) /\ UNCHANGED <<text, results, unused>>
      /\ Now.id # None /\ tagged' = Append(tagged, Now.id)
  BY DEF PutLabel, TagOnly
<1>2. /\ Now = work[1] /\ 1 \in DOMAIN work /\ work \in Seq(Items) /\ text \in Seq(STRING)
      /\ Put \in SUBSET Result /\ Put \subseteq Listed /\ Len(text) \in Nat
  BY <1>1, ResultsAreInTheText, Dropped DEF Now
<1>3. tagged \in Seq(STRING) /\ \A k \in DOMAIN work : work[k].id # None => work[k] \in Put
  BY DEF IInv, Shape
<1>4. Named(Put, text)
  BY <1>2 DEF TagInv, Named
<1>5. PICK u \in Put : work[1] = u
  BY <1>1, <1>2, <1>3
<1>6. u.start \in Nat /\ u.start <= u.stop /\ u.stop < Len(text)
  BY ResultFields, ResultsAreInTheText
<1>7. tagged' = Append(tagged, u.id)
  BY <1>1, <1>2, <1>5
<1>8. ASSUME Tagged
      PROVE  \E src : From(src, tagged', text, Put, Len(text))
                      /\ InFront(src, tagged', Tail(work), Put, Len(text))
  <2>1. InOrder(work, Len(text))
    BY <1>8 DEF Tagged
  <2>2. PICK src : From(src, tagged, text, Put, Len(text)) /\ InFront(src, tagged, work, Put, Len(text))
    BY <1>8 DEF Tagged
  <2>4. PICK a \in Nat : u.start = a /\ a <= u.stop
    BY <1>6
  <2>5. \E new : From(new, tagged', text, Put, Len(text)) /\ InFront(new, tagged', Tail(work), Put, Len(text))
    BY <1>1, <1>2, <1>3, <1>5, <1>6, <1>7, <2>1, <2>2, <2>4, LabelFrom
  <2>. QED BY <2>5
<1>9. work[1].id # None
  BY <1>1, <1>2
<1>. QED BY <1>1, <1>8, <1>9, DropTags

--------------------------------------------------------------------------
(* The tokens of the tagged text. *)

\* A separator lies between two tokens: they are from the places of the text in order.
LEMMA TokensInOrder ==
  ASSUME NEW t, NEW n \in Nat, NEW put, Named(put, t),
         NEW g \in Seq(STRING), NEW src, From(src, g, t, put, n),
         NEW words \in Seq(Seq(STRING)), NEW h, WordPlaces(h, g, words),
         NEW j \in 1..Len(words), NEW k \in 1..Len(words), j < k
  PROVE  /\ h[j] \in DOMAIN g /\ h[k] \in DOMAIN g
         /\ src[h[j]] \in 0..(n - 1) /\ src[h[k]] \in 0..(n - 1) /\ src[h[j]] < src[h[k]]
<1>1. DOMAIN g = 1..Len(g) /\ Len(g) \in Nat
  BY LenProperties
<1>2. h[j] \in 1..Len(g) /\ h[k] \in 1..Len(g)
  BY DEF WordPlaces
<1>3. PICK b \in 1..Len(g) : h[j] <= b /\ b < h[k] /\ g[b] = Blank
  BY DEF WordPlaces
<1>4. ~IsMark(g[b], put)
  BY <1>3 DEF IsMark, Named
<1>5. src[h[j]] \in 0..(n - 1) /\ src[h[k]] \in 0..(n - 1) /\ src[b] \in 0..(n - 1)
  BY <1>1, <1>2 DEF From
<1>6. src[b] < src[h[k]]
  BY <1>1, <1>2, <1>3, <1>4 DEF From
<1>7. CASE h[j] = b
  <2>1. src[h[j]] = src[b]
    BY <1>7
  <2>2. src[h[j]] < src[h[k]]
    BY <1>6, <2>1
  <2>. QED BY <1>1, <1>2, <1>5, <2>2
<1>8. CASE h[j] # b
  <2>1. h[j] < b
    BY <1>2, <1>3, <1>8
  <2>2. src[h[j]] < src[b]
    BY <1>1, <1>2, <1>4, <2>1 DEF From
  <2>3. src[h[j]] < src[h[k]]
    <3>1. \A x, y, z \in 0..(n - 1) : x < y /\ y < z => x < z
      OBVIOUS
    <3>. QED BY <1>5, <1>6, <2>2, <3>1
  <2>. QED BY <1>1, <1>2, <1>5, <2>3
<1>. QED BY <1>7, <1>8

\* There are no more tokens than characters of the text.
LEMMA TokensAreFew ==
  ASSUME NEW t, NEW n \in Nat, NEW put, Named(put, t),
         NEW g \in Seq(STRING), g # <<>>, NEW src, From(src, g, t, put, n),
         NEW words \in Seq(Seq(STRING)), NEW h, WordPlaces(h, g, words)
  PROVE  Len(words) <= n
<1>. DEFINE m == Len(words)
            f == [k \in 1..m |-> src[h[k]]]
<1>1. m \in Nat /\ DOMAIN g = 1..Len(g)
  BY LenProperties
<1>2. \A k \in 1..m : h[k] \in 1..Len(g)
  BY DEF WordPlaces
<1>3. \A k \in 1..m : src[h[k]] \in 0..(n - 1)
  BY <1>1, <1>2 DEF From
<1>4. \A j, k \in 1..m : j < k => src[h[j]] < src[h[k]]
  BY TokensInOrder
<1>. HIDE DEF m
<1>5. f \in [1..m -> 0..(n - 1)] /\ \A j, k \in 1..m : j < k => f[j] < f[k]
  BY <1>3, <1>4
<1>. HIDE DEF f
<1>6. m <= n
  BY <1>1, <1>5, GrowingIsShort
<1>. QED BY <1>6 DEF m

\* The labels among the tokens are in the order of their results.
LEMMA LabelsInOrder ==
  ASSUME NEW t, NEW n \in Nat, n = Len(t), NEW S, Named(S, t), NEW put \in SUBSET S,
         NEW g \in Seq(STRING), NEW src, From(src, g, t, put, n), t \in Seq(STRING),
         NEW words \in Seq(Seq(STRING)), NEW h, WordPlaces(h, g, words),
         NEW j \in 1..Len(words), NEW k \in 1..Len(words), j < k,
         NEW r \in S, NEW s \in S, words[j] = <<r.id>>, words[k] = <<s.id>>
  PROVE  r.start < s.start
<1>1. Named(put, t)
  BY DEF Named
<1>2. /\ h[j] \in DOMAIN g /\ h[k] \in DOMAIN g
      /\ src[h[j]] \in 0..(n - 1) /\ src[h[k]] \in 0..(n - 1) /\ src[h[j]] < src[h[k]]
  BY <1>1, TokensInOrder
<1>3. g[h[j]] = r.id /\ g[h[k]] = s.id
  <2>1. words[j] # <<>> /\ words[j][1] = r.id /\ words[k] # <<>> /\ words[k][1] = s.id
    OBVIOUS
  <2>2. (words[j] # <<>> => words[j][1] = g[h[j]]) /\ (words[k] # <<>> => words[k][1] = g[h[k]])
    BY DEF WordPlaces
  <2>. QED BY <2>1, <2>2
<1>4. ASSUME NEW p \in DOMAIN g, NEW x \in S, g[p] = x.id, src[p] \in 0..(n - 1) PROVE src[p] = x.start
  <2>1. src[p] + 1 \in DOMAIN t
    <3>1. \A y \in 0..(n - 1) : y + 1 \in 1..n
      OBVIOUS
    <3>2. DOMAIN t = 1..n
      BY LenProperties
    <3>. QED BY <1>4, <3>1, <3>2
  <2>2. t[src[p] + 1] # x.id
    BY <2>1 DEF Named
  <2>3. PICK y \in put : y.id = g[p] /\ y.start = src[p]
    BY <1>4, <2>2 DEF From
  <2>4. y = x
    BY <1>4, <2>3 DEF Named
  <2>. QED BY <2>3, <2>4
<1>5. src[h[j]] = r.start /\ src[h[k]] = s.start
  BY <1>2, <1>3, <1>4
<1>. QED BY <1>2, <1>5

--------------------------------------------------------------------------
(* The loop over the tokens. *)

\* When the tokens are walked, the text is tagged in full.
LEMMA WalkingIsTagged ==
  ASSUME IInv, TagInv, phase = "walking"
  PROVE  /\ tagged \in Seq(STRING) /\ text \in Seq(STRING) /\ Len(text) \in Nat
         /\ Named(Listed, text) /\ Named(Put, text) /\ Put \in SUBSET Listed
         /\ \E src : From(src, tagged, text, Put, Len(text))
<1>1. work = <<>> /\ tagged \in Seq(STRING) /\ text \in Seq(STRING) /\ Len(text) \in Nat
  BY LenProperties DEF IInv, Shape
<1>2. ~Stuck(work, Len(text))
  BY <1>1 DEF Stuck, PartsOf
<1>3. Put \in SUBSET Listed
  BY DEF Put
<1>4. Named(Listed, text) /\ Named(Put, text)
  BY <1>3 DEF TagInv, Named
<1>5. \E src : From(src, tagged, text, Put, Len(text))
  BY <1>2 DEF TagInv, Tagged
<1>. QED BY <1>1, <1>3, <1>4, <1>5

\* The tokens, and where they are; the empty text is one empty token.
LEMMA TokensAre ==
  ASSUME IInv
  PROVE  /\ tagged = <<>> => tokens = << <<>> >>
         /\ tagged # <<>> => tokens \in Seq(Seq(STRING)) /\ \E h : WordPlaces(h, tagged, tokens)
         /\ Len(tokens) \in Nat /\ DOMAIN tokens = 1..Len(tokens)
<1>1. tagged \in Seq(STRING)
  BY DEF IInv, Shape
<1>2. tagged = <<>> => tokens = << <<>> >>
  BY DEF tokens, textTokanization
<1>3. ASSUME tagged # <<>>
      PROVE  tokens \in Seq(Seq(STRING)) /\ \E h : WordPlaces(h, tagged, tokens)
  BY <1>1, <1>3, WordsAre, WordsHavePlaces DEF tokens
<1>4. Len(tokens) \in Nat /\ DOMAIN tokens = 1..Len(tokens)
  <2>1. CASE tagged = <<>>
    BY <1>2, <2>1
  <2>2. CASE tagged # <<>>
    BY <1>3, <2>2, LenProperties
  <2>. QED BY <2>1, <2>2
<1>. QED BY <1>2, <1>3, <1>4

Columns == {k \in DOMAIN tokens : tokens[k] # <<>>}

\* There is one role for each token with a column.
LEMMA RolesAre ==
  ASSUME IInv
  PROVE  /\ Len(roleTags) \in Nat /\ Len(roleTags) <= Len(tokens)
         /\ \A k \in 1..Len(roleTags) : roleTags[k] \in DOMAIN tokens
         /\ tagged = <<>> => Len(roleTags) = 0
<1>1. Len(tokens) \in Nat /\ DOMAIN tokens = 1..Len(tokens)
  BY TokensAre
<1>2. Columns \in SUBSET Nat /\ IsFiniteSet(Columns) /\ Columns \subseteq 1..Len(tokens)
      /\ Cardinality(Columns) <= Len(tokens)
  <2>1. Columns \subseteq 1..Len(tokens) /\ IsFiniteSet(1..Len(tokens)) /\ Cardinality(1..Len(tokens)) = Len(tokens)
    <3>1. ASSUME NEW m \in Nat PROVE IsFiniteSet(1..m) /\ Cardinality(1..m) = m
      BY FS_Interval
    <3>. QED BY <1>1, <3>1 DEF Columns
  <2>2. IsFiniteSet(Columns) /\ Cardinality(Columns) <= Cardinality(1..Len(tokens))
    BY <2>1, FS_Subset
  <2>. QED BY <2>1, <2>2
<1>3. /\ Len(Sorted(Columns)) = Cardinality(Columns) /\ Cardinality(Columns) \in Nat
      /\ Sorted(Columns) \in [1..Cardinality(Columns) -> Columns]
  BY <1>2, SortedIsSorted
<1>4. roleTags = Sorted(Columns)
  BY DEF roleTags, Columns
<1>5. ASSUME tagged = <<>> PROVE Cardinality(Columns) = 0
  <2>1. Columns = {}
    BY <1>5, TokensAre DEF Columns
  <2>. QED BY <2>1, FS_EmptySet
<1>. QED BY <1>1, <1>2, <1>3, <1>4, <1>5

\* The roles are those of tokens of the text.
LEMMA RolesFit ==
  ASSUME IInv, TagInv, phase = "walking"
  PROVE  /\ Len(roleTags) <= Len(text)
         /\ \A k \in 1..Len(roleTags) : roleTags[k] \in 1..Len(text)
<1>1. /\ Len(tokens) \in Nat /\ DOMAIN tokens = 1..Len(tokens) /\ Len(text) \in Nat
      /\ Len(roleTags) \in Nat /\ Len(roleTags) <= Len(tokens)
      /\ \A k \in 1..Len(roleTags) : roleTags[k] \in 1..Len(tokens)
  BY TokensAre, RolesAre, WalkingIsTagged
<1>2. CASE tagged = <<>>
  <2>1. Len(roleTags) = 0
    BY <1>2, RolesAre
  <2>. QED BY <1>1, <2>1
<1>3. CASE tagged # <<>>
  <2>1. PICK h : WordPlaces(h, tagged, tokens)
    BY <1>3, TokensAre
  <2>2. PICK src : From(src, tagged, text, Put, Len(text))
    BY WalkingIsTagged
  <2>3. tokens \in Seq(Seq(STRING)) /\ tagged \in Seq(STRING) /\ Named(Put, text)
    BY <1>3, TokensAre, WalkingIsTagged
  <2>4. Len(tokens) <= Len(text)
    BY <1>1, <1>3, <2>1, <2>2, <2>3, TokensAreFew
  <2>. QED BY <1>1, <2>4
<1>. QED BY <1>2, <1>3

\* No token was refused.
AllTaken == tokens # <<>> => tokens[1] # <<>>

\* Then the roles are in the order of the tokens, one for each.
LEMMA RolesAreAll ==
  ASSUME IInv, AllTaken
  PROVE  /\ Len(roleTags) = Len(tokens)
         /\ \A k \in 1..Len(tokens) : roleTags[k] = k
<1>1. Len(tokens) \in Nat /\ DOMAIN tokens = 1..Len(tokens)
  BY TokensAre
<1>2. Columns = 1..Len(tokens)
  <2>1. CASE tagged = <<>>
    BY <2>1, TokensAre DEF AllTaken
  <2>2. CASE tagged # <<>>
    <3>1. PICK h : WordPlaces(h, tagged, tokens)
      BY <2>2, TokensAre
    <3>2. ASSUME NEW k \in 1..Len(tokens) PROVE tokens[k] # <<>>
      <4>1. CASE k > 1
        BY <3>1, <4>1 DEF WordPlaces
      <4>2. CASE ~(k > 1)
        <5>1. k = 1 /\ Len(tokens) # 0
          BY <1>1, <4>2
        <5>2. tokens # <<>>
          BY <5>1
        <5>. QED BY <5>1, <5>2 DEF AllTaken
      <4>. QED BY <4>1, <4>2
    <3>. QED BY <1>1, <3>2 DEF Columns
  <2>. QED BY <2>1, <2>2
<1>3. roleTags = [k \in 1..Len(tokens) |-> k]
  BY <1>1, <1>2, SortedUpTo DEF roleTags, Columns
<1>4. \A m \in Nat : Len([k \in 1..m |-> k]) = m
  OBVIOUS
<1>. QED BY <1>1, <1>3, <1>4

\* The labels among the tokens are in the order of their results.
LEMMA ResultsInOrder ==
  ASSUME IInv, TagInv, phase = "walking",
         NEW j \in DOMAIN tokens, NEW k \in DOMAIN tokens, j < k,
         NEW a \in DOMAIN results, NEW b \in DOMAIN results,
         tokens[j] = <<results[a].id>>, tokens[k] = <<results[b].id>>
  PROVE  results[a].start < results[b].start
<1>1. DOMAIN tokens = 1..Len(tokens) /\ Len(tokens) \in Nat
  BY TokensAre
<1>2. tagged # <<>>
  <2>1. SUFFICES ASSUME tagged = <<>> PROVE FALSE
    OBVIOUS
  <2>2. tokens = << <<>> >>
    BY <2>1, TokensAre
  <2>3. j = 1 /\ k = 1
    BY <2>2
  <2>. QED BY <2>3
<1>3. PICK h : WordPlaces(h, tagged, tokens)
  BY <1>2, TokensAre
<1>4. PICK src : From(src, tagged, text, Put, Len(text))
  BY WalkingIsTagged
<1>5. tokens \in Seq(Seq(STRING))
  BY <1>2, TokensAre
<1>6. PICK r \in Listed, s \in Listed : r = results[a] /\ s = results[b]
  BY DEF Listed
<1>7. r.start < s.start
  <2>1. tokens[j] = <<r.id>> /\ tokens[k] = <<s.id>> /\ j \in 1..Len(tokens) /\ k \in 1..Len(tokens)
    BY <1>1, <1>6
  <2>. QED BY <1>3, <1>4, <1>5, <2>1, WalkingIsTagged, LabelsInOrder
<1>. QED BY <1>6, <1>7

\* Results up to the next have their roles from tokens that are done, and the token of
\* the next is still ahead.
HasRole(k) ==
  \E t \in DOMAIN tokens : t < i /\ role[results[k].id] = t /\ tokens[t] = <<results[k].id>>

Ahead(k) == \E t \in DOMAIN tokens : i <= t /\ tokens[t] = <<results[k].id>>

OwnRoles ==
  /\ \A k \in 1..(resIdx - 1) : StandAlone(k) => HasRole(k)
  /\ resIdx <= Len(results) /\ StandAlone(resIdx) => Ahead(resIdx)

Ascending == \A j, k \in DOMAIN results : j < k => results[j].start <= results[k].start

\* The inductive invariant of the walk.
WalkInv ==
  /\ phase \in {"tagging", "walking"}
  /\ i \in Nat \ {0} /\ resIdx \in 1..(Len(results) + 1)
  /\ role \in [Ids(results) -> 0..Len(text)]
  /\ \A j, k \in DOMAIN results : results[j].id = results[k].id => j = k
  /\ phase = "tagging" => i = 1 /\ resIdx = 1
  /\ phase = "walking" =>
       /\ Ascending /\ i <= Len(roleTags) + 1
       /\ AllTaken => OwnRoles

\* At first no result has a role.
LEMMA InitWalkInv == Init => WalkInv
<1>. SUFFICES ASSUME Init PROVE WalkInv
  OBVIOUS
<1>1. PICK q \in Requests : text = q.text /\ results = q.results
  BY DEF Init
<1>2. /\ phase = "tagging" /\ i = 1 /\ resIdx = 1
      /\ role = [r \in {results[k].id : k \in DOMAIN results} |-> 0]
  BY DEF Init
<1>3. /\ Len(text) \in Nat /\ Len(results) \in Nat
      /\ \A j, k \in DOMAIN results : results[j].id = results[k].id => j = k
  BY <1>1, RequestsAssumption, LenProperties
<1>4. role \in [Ids(results) -> 0..Len(text)]
  BY <1>2, <1>3 DEF Ids
<1>5. resIdx \in 1..(Len(results) + 1)
  BY <1>2, <1>3
<1>. QED BY <1>2, <1>3, <1>4, <1>5 DEF WalkInv

\* While the text is tagged, the loop waits.
LEMMA TaggingWalks ==
  ASSUME WalkInv, phase = "tagging", UNCHANGED <<text, results, phase, i, resIdx, role>>
  PROVE  WalkInv'
BY DEF WalkInv, Ids

\* The list is sorted, and the loop starts.
LEMMA SortResultsWalks == IInv /\ WalkInv /\ SortResults => WalkInv'
<1>. SUFFICES ASSUME IInv, WalkInv, SortResults PROVE WalkInv'
  OBVIOUS
<1>1. /\ phase' = "walking" /\ phase = "tagging" /\ UNCHANGED <<text, work, unused, tagged, i, resIdx, role>>
  BY DEF SortResults
<1>2. PICK order \in Bijection(DOMAIN results, DOMAIN results) :
        /\ ByStart(results, order)
        /\ results' = [k \in DOMAIN results |-> results[order[k]]]
  BY DEF SortResults
<1>3. /\ order \in [DOMAIN results -> DOMAIN results]
      /\ \A j, k \in DOMAIN results : order[j] = order[k] => j = k
      /\ \A j \in DOMAIN results : \E k \in DOMAIN results : order[k] = j
  BY DEF Bijection, Injection, Surjection, IsInjective
<1>4. results \in Seq(Result) /\ Len(results) \in Nat /\ DOMAIN results = 1..Len(results)
  BY LenProperties DEF IInv, Shape
<1>5. DOMAIN results' = DOMAIN results /\ \A k \in DOMAIN results : results'[k] = results[order[k]]
  BY <1>2
<1>6. Len(results') = Len(results)
  <2>1. \A k \in 1..Len(results) : results[order[k]] \in Result
    BY <1>3, <1>4
  <2>2. results' \in [1..Len(results) -> Result]
    BY <1>2, <1>4, <2>1
  <2>. QED BY <1>4, <2>2
<1>7. Ids(results') = Ids(results)
  BY <1>3, <1>5 DEF Ids
<1>8. \A j, k \in DOMAIN results' : results'[j].id = results'[k].id => j = k
  BY <1>3, <1>5 DEF WalkInv
<1>9. Ascending'
  <2>. SUFFICES ASSUME NEW j \in DOMAIN results, NEW k \in DOMAIN results, j < k
                PROVE  results'[j].start <= results'[k].start
    BY <1>5 DEF Ascending
  <2>1. results[order[j]] \in Result /\ results[order[k]] \in Result
    BY <1>3, <1>4, ElementOfSeq
  <2>2. results[order[j]].start \in Nat /\ results[order[k]].start \in Nat
    BY <2>1, ResultFields
  <2>3. \/ results[order[j]].start < results[order[k]].start
        \/ results[order[j]].start = results[order[k]].start
    BY <1>2 DEF ByStart
  <2>4. results[order[j]].start <= results[order[k]].start
    BY <2>2, <2>3
  <2>. QED BY <1>5, <2>4
<1>10. i' = 1 /\ resIdx' = 1
  BY <1>1 DEF WalkInv
<1>11. i' <= Len(roleTags') + 1
  <2>1. roleTags' = roleTags
    BY <1>1 DEF roleTags, tokens
  <2>2. Len(roleTags) \in Nat
    BY RolesAre
  <2>. QED BY <1>10, <2>1, <2>2
<1>12. OwnRoles'
  <2>1. \A k \in 1..(resIdx' - 1) : FALSE
    BY <1>10
  <2>2. ASSUME resIdx' <= Len(results'), StandAlone(resIdx)' PROVE Ahead(resIdx)'
    <3>1. PICK t \in DOMAIN tokens' : tokens'[t] = <<results'[1].id>>
      BY <1>10, <2>2 DEF StandAlone
    <3>2. tokens' = tokens /\ DOMAIN tokens = 1..Len(tokens) /\ Len(tokens) \in Nat
      BY <1>1, TokensAre DEF tokens
    <3>3. 1 <= t
      BY <3>2
    <3>. QED BY <1>10, <3>1, <3>3 DEF Ahead
  <2>. QED BY <2>1, <2>2 DEF OwnRoles
<1>13. role' \in [Ids(results') -> 0..Len(text')]
  BY <1>1, <1>7 DEF WalkInv
<1>14. i' \in Nat \ {0} /\ resIdx' \in 1..(Len(results') + 1)
  BY <1>4, <1>10
<1>. QED BY <1>1, <1>8, <1>9, <1>11, <1>12, <1>13, <1>14 DEF WalkInv

\* What the loop over the tokens leaves as it is.
LEMMA LoopLeaves ==
  ASSUME UNCHANGED <<text, results, work, unused, tagged, phase>>
  PROVE  /\ tokens' = tokens /\ roleTags' = roleTags /\ AllTaken' = AllTaken
         /\ Ascending' = Ascending /\ Ids(results') = Ids(results)
         /\ \A k : StandAlone(k)' = StandAlone(k)
<1>1. tokens' = tokens
  BY DEF tokens
<1>2. roleTags' = roleTags /\ AllTaken' = AllTaken
  BY <1>1 DEF roleTags, AllTaken
<1>3. Ascending' = Ascending /\ Ids(results') = Ids(results)
  BY DEF Ascending, Ids
<1>4. ASSUME NEW k PROVE StandAlone(k)' = StandAlone(k)
  BY <1>1 DEF StandAlone
<1>. QED BY <1>1, <1>2, <1>3, <1>4

\* A result that is a token of its own has those in front of it as tokens of their own.
LEMMA AloneBefore ==
  ASSUME NEW k \in Nat, StandAlone(k), NEW j \in 1..k
  PROVE  StandAlone(j) /\ \E t \in DOMAIN tokens : tokens[t] = <<results[j].id>>
<1>1. \A m \in 1..j : m \in 1..k
  OBVIOUS
<1>. QED BY <1>1 DEF StandAlone

\* A token that is no label of the next result's kind is not its token.
LEMMA PassTokenWalks == IInv /\ TagInv /\ WalkInv /\ PassToken => WalkInv'
<1>. SUFFICES ASSUME IInv, TagInv, WalkInv, PassToken PROVE WalkInv'
  OBVIOUS
<1>1. /\ UNCHANGED <<text, results, work, unused, tagged, phase>>
      /\ phase = "walking" /\ i <= Len(roleTags) /\ ~Matches
      /\ i' = i + 1 /\ resIdx' = resIdx /\ role' = role
  BY DEF PassToken, Walking
<1>2. /\ i \in Nat /\ i # 0 /\ resIdx \in 1..(Len(results) + 1) /\ Len(roleTags) \in Nat
      /\ Len(results) \in Nat /\ DOMAIN results = 1..Len(results)
      /\ Len(tokens) \in Nat /\ DOMAIN tokens = 1..Len(tokens)
  BY RolesAre, TokensAre, LenProperties DEF WalkInv, IInv, Shape
<1>3. /\ tokens' = tokens /\ roleTags' = roleTags /\ AllTaken' = AllTaken
      /\ Ascending' = Ascending /\ Ids(results') = Ids(results)
      /\ \A k : StandAlone(k)' = StandAlone(k)
  BY <1>1, LoopLeaves
<1>4. i' <= Len(roleTags') + 1 /\ i' \in Nat \ {0}
  BY <1>1, <1>2, <1>3
<1>5. ASSUME AllTaken PROVE OwnRoles'
  <2>1. OwnRoles
    BY <1>1, <1>5 DEF WalkInv
  <2>2. ASSUME NEW k \in 1..(resIdx - 1), StandAlone(k) PROVE HasRole(k)'
    <3>1. PICK t \in DOMAIN tokens : t < i /\ role[results[k].id] = t /\ tokens[t] = <<results[k].id>>
      BY <2>1, <2>2 DEF OwnRoles, HasRole
    <3>2. t < i + 1
      BY <1>2, <3>1
    <3>. QED BY <1>1, <1>3, <3>1, <3>2 DEF HasRole
  <2>3. ASSUME resIdx <= Len(results), StandAlone(resIdx) PROVE Ahead(resIdx)'
    <3>1. PICK t \in DOMAIN tokens : i <= t /\ tokens[t] = <<results[resIdx].id>>
      BY <2>1, <2>3 DEF OwnRoles, Ahead
    <3>2. t # i
      <4>1. SUFFICES ASSUME t = i PROVE Matches
        BY <1>1
      <4>2. resIdx \in DOMAIN results
        BY <1>2, <2>3
      <4>. QED BY <2>3, <3>1, <4>1, <4>2 DEF Matches, IsLabel
    <3>3. i + 1 <= t
      BY <1>2, <3>1, <3>2
    <3>. QED BY <1>1, <1>3, <3>1, <3>3 DEF Ahead
  <2>4. \A k \in 1..(resIdx' - 1) : StandAlone(k)' => HasRole(k)'
    BY <1>1, <1>3, <2>2
  <2>5. resIdx' <= Len(results') /\ StandAlone(resIdx)' => Ahead(resIdx)'
    BY <1>1, <1>3, <2>3 DEF StandAlone
  <2>. QED BY <2>4, <2>5 DEF OwnRoles
<1>6. role' \in [Ids(results') -> 0..Len(text')] /\ resIdx' \in 1..(Len(results') + 1)
  BY <1>1, <1>2, <1>3 DEF WalkInv
<1>7. /\ \A j, k \in DOMAIN results' : results'[j].id = results'[k].id => j = k
      /\ Ascending'
  BY <1>1, <1>3 DEF WalkInv
<1>. QED BY <1>1, <1>3, <1>4, <1>5, <1>6, <1>7 DEF WalkInv

\* A token that is a label of the next result's kind is its own, when it and those in
\* front of it have tokens of their own: those of the others are done.
LEMMA OwnToken ==
  ASSUME IInv, TagInv, WalkInv, phase = "walking", AllTaken, i \in DOMAIN tokens, Matches,
         StandAlone(resIdx)
  PROVE  tokens[i] = <<results[resIdx].id>>
<1>1. /\ i \in Nat /\ resIdx \in 1..Len(results) /\ DOMAIN results = 1..Len(results)
      /\ results \in Seq(Result) /\ Len(results) \in Nat /\ resIdx \in Nat
      /\ Len(tokens) \in Nat /\ DOMAIN tokens = 1..Len(tokens)
  <2>1. /\ i \in Nat /\ resIdx \in 1..(Len(results) + 1) /\ resIdx <= Len(results)
    BY DEF WalkInv, Matches
  <2>2. results \in Seq(Result) /\ Len(results) \in Nat /\ DOMAIN results = 1..Len(results)
    BY LenProperties DEF IInv, Shape
  <2>3. resIdx \in 1..Len(results)
    BY <2>1, <2>2
  <2>. QED BY <2>1, <2>2, <2>3, TokensAre
<1>2. OwnRoles /\ Ascending
  BY DEF WalkInv
<1>3. PICK t \in DOMAIN tokens : i <= t /\ tokens[t] = <<results[resIdx].id>>
  BY <1>1, <1>2 DEF OwnRoles, Ahead
<1>4. PICK k \in DOMAIN results : tokens[i] = <<results[k].id>>
  BY DEF Matches, IsLabel
<1>5. SUFFICES ASSUME i < t PROVE FALSE
  <2>1. t = i => tokens[i] = <<results[resIdx].id>>
    BY <1>3
  <2>. QED BY <1>1, <1>3, <2>1
<1>6. results[k].start < results[resIdx].start
  BY <1>1, <1>3, <1>4, <1>5, ResultsInOrder
<1>7. results[k].start \in Nat /\ results[resIdx].start \in Nat
  <2>1. results[k] \in Result /\ results[resIdx] \in Result
    BY <1>1, ElementOfSeq
  <2>. QED BY <2>1, ResultFields
<1>8. k < resIdx
  <2>1. SUFFICES ASSUME ~(k < resIdx) PROVE FALSE
    OBVIOUS
  <2>2. k \in Nat
    BY <1>1
  <2>3. CASE k = resIdx
    BY <1>6, <1>7, <2>3
  <2>4. CASE resIdx < k
    <3>1. results[resIdx].start <= results[k].start
      BY <1>1, <1>2, <2>4 DEF Ascending
    <3>. QED BY <1>6, <1>7, <3>1
  <2>. QED BY <1>1, <2>1, <2>2, <2>3, <2>4
<1>9. k \in 1..(resIdx - 1) /\ k \in 1..resIdx
  BY <1>1, <1>8
<1>10. StandAlone(k)
  BY <1>1, <1>9, AloneBefore
<1>11. PICK u \in DOMAIN tokens : u < i /\ tokens[u] = <<results[k].id>>
  BY <1>2, <1>9, <1>10 DEF OwnRoles, HasRole
<1>12. results[k].start < results[k].start
  BY <1>4, <1>11, ResultsInOrder
<1>. QED BY <1>7, <1>12

\* A role is set: the next result has the role of its token, and that of the result
\* behind it is behind.
LEMMA SetRoleWalks == IInv /\ TagInv /\ WalkInv /\ SetRole => WalkInv'
<1>. SUFFICES ASSUME IInv, TagInv, WalkInv, SetRole PROVE WalkInv'
  OBVIOUS
<1>1. /\ UNCHANGED <<text, results, work, unused, tagged, phase>>
      /\ phase = "walking" /\ i <= Len(roleTags) /\ Matches
      /\ i' = i + 1 /\ resIdx' = resIdx + 1
      /\ role' = [role EXCEPT ![results[resIdx].id] = roleTags[i]]
  BY DEF SetRole, Walking
<1>2. /\ i \in Nat /\ i # 0 /\ resIdx \in 1..Len(results) /\ resIdx \in Nat /\ Len(roleTags) \in Nat
      /\ Len(results) \in Nat /\ DOMAIN results = 1..Len(results) /\ results \in Seq(Result)
      /\ Len(tokens) \in Nat /\ DOMAIN tokens = 1..Len(tokens) /\ Len(roleTags) <= Len(tokens)
  <2>1. i \in Nat /\ i # 0 /\ resIdx \in 1..(Len(results) + 1) /\ resIdx <= Len(results)
    BY <1>1 DEF WalkInv, Matches
  <2>2. results \in Seq(Result) /\ Len(results) \in Nat /\ DOMAIN results = 1..Len(results)
    BY LenProperties DEF IInv, Shape
  <2>3. resIdx \in 1..Len(results)
    BY <2>1, <2>2
  <2>. QED BY <2>1, <2>2, <2>3, TokensAre, RolesAre
<1>3. /\ tokens' = tokens /\ roleTags' = roleTags /\ AllTaken' = AllTaken
      /\ Ascending' = Ascending /\ Ids(results') = Ids(results)
      /\ \A k : StandAlone(k)' = StandAlone(k)
  BY <1>1, LoopLeaves
<1>4. /\ i' <= Len(roleTags') + 1 /\ i' \in Nat \ {0}
      /\ i \in 1..Len(roleTags) /\ i \in DOMAIN tokens
      /\ resIdx' \in 1..(Len(results') + 1)
  BY <1>1, <1>2, <1>3
<1>5. role' \in [Ids(results') -> 0..Len(text')]
  <2>1. role \in [Ids(results) -> 0..Len(text)]
    BY DEF WalkInv
  <2>2. roleTags[i] \in 1..Len(text)
    BY <1>1, <1>4, RolesFit
  <2>3. roleTags[i] \in 0..Len(text)
    <3>1. Len(text) \in Nat
      BY <1>1, WalkingIsTagged
    <3>. QED BY <2>2, <3>1
  <2>. QED BY <1>1, <1>3, <2>1, <2>3
<1>6. \A j, k \in DOMAIN results : results[j].id = results[k].id => j = k
  BY DEF WalkInv
<1>7. results[resIdx].id \in DOMAIN role
  BY <1>2 DEF WalkInv, Ids
<1>8. ASSUME AllTaken PROVE OwnRoles'
  <2>1. OwnRoles /\ Ascending
    BY <1>1, <1>8 DEF WalkInv
  <2>2. roleTags[i] = i
    BY <1>4, <1>8, <1>2, RolesAreAll
  <2>3. ASSUME NEW k \in 1..(resIdx - 1), StandAlone(k) PROVE HasRole(k)'
    <3>1. PICK t \in DOMAIN tokens : t < i /\ role[results[k].id] = t /\ tokens[t] = <<results[k].id>>
      BY <2>1, <2>3 DEF OwnRoles, HasRole
    <3>2. t < i + 1
      BY <1>2, <3>1
    <3>3. results[k].id # results[resIdx].id
      <4>1. k \in DOMAIN results /\ resIdx \in DOMAIN results /\ k # resIdx
        BY <1>2
      <4>. QED BY <1>6, <4>1
    <3>4. k \in DOMAIN results
      BY <1>2
    <3>5. results[k].id \in DOMAIN role
      BY <3>4 DEF WalkInv, Ids
    <3>6. role'[results[k].id] = role[results[k].id]
      BY <1>1, <3>3, <3>5
    <3>. QED BY <1>1, <1>3, <3>1, <3>2, <3>6 DEF HasRole
  <2>4. ASSUME NEW k, k = resIdx, StandAlone(k) PROVE HasRole(k)'
    <3>1. StandAlone(resIdx)
      BY <2>4
    <3>2. tokens[i] = <<results[resIdx].id>>
      BY <1>1, <1>4, <1>8, <3>1, OwnToken
    <3>3. role'[results[resIdx].id] = i
      BY <1>1, <1>7, <2>2
    <3>4. i < i + 1
      BY <1>2
    <3>5. \E t \in DOMAIN tokens' :
            t < i' /\ role'[results'[k].id] = t /\ tokens'[t] = <<results'[k].id>>
      BY <1>1, <1>3, <1>4, <2>4, <3>2, <3>3, <3>4
    <3>. QED BY <3>5 DEF HasRole
  <2>5. ASSUME resIdx + 1 <= Len(results), StandAlone(resIdx + 1)
        PROVE  \E t \in DOMAIN tokens : i + 1 <= t /\ tokens[t] = <<results[resIdx + 1].id>>
    <3>0. resIdx + 1 \in Nat /\ resIdx \in 1..(resIdx + 1) /\ resIdx + 1 \in 1..(resIdx + 1)
          /\ resIdx + 1 \in DOMAIN results /\ resIdx \in DOMAIN results /\ resIdx < resIdx + 1
          /\ resIdx + 1 # resIdx
      BY <1>2, <2>5
    <3>1. StandAlone(resIdx) /\ \E t \in DOMAIN tokens : tokens[t] = <<results[resIdx + 1].id>>
      BY <2>5, <3>0, AloneBefore
    <3>2. PICK t \in DOMAIN tokens : tokens[t] = <<results[resIdx + 1].id>>
      BY <3>1
    <3>3. tokens[i] = <<results[resIdx].id>>
      BY <1>1, <1>4, <1>8, <3>1, OwnToken
    <3>4. t # i
      <4>1. results[resIdx + 1].id # results[resIdx].id
        BY <1>6, <3>0
      <4>. QED BY <3>2, <3>3, <4>1
    <3>5. ~(t < i)
      <4>1. SUFFICES ASSUME t < i PROVE FALSE
        OBVIOUS
      <4>2. results[resIdx + 1].start < results[resIdx].start
        BY <1>1, <1>4, <3>0, <3>2, <3>3, <4>1, ResultsInOrder
      <4>3. results[resIdx].start <= results[resIdx + 1].start
        BY <2>1, <3>0 DEF Ascending
      <4>4. results[resIdx].start \in Nat /\ results[resIdx + 1].start \in Nat
        <5>1. results[resIdx] \in Result /\ results[resIdx + 1] \in Result
          BY <1>2, <3>0, ElementOfSeq
        <5>. QED BY <5>1, ResultFields
      <4>. QED BY <4>2, <4>3, <4>4
    <3>6. i + 1 <= t
      BY <1>2, <3>2, <3>4, <3>5
    <3>. QED BY <3>2, <3>6
  <2>6. \A k \in 1..(resIdx' - 1) : StandAlone(k)' => HasRole(k)'
    <3>1. \A k \in 1..(resIdx' - 1) : k \in 1..(resIdx - 1) \/ k = resIdx
      BY <1>1, <1>2
    <3>. QED BY <1>3, <2>3, <2>4, <3>1
  <2>7. resIdx' <= Len(results') /\ StandAlone(resIdx)' => Ahead(resIdx)'
    <3>1. SUFFICES ASSUME resIdx' <= Len(results'), StandAlone(resIdx)' PROVE Ahead(resIdx)'
      OBVIOUS
    <3>2. StandAlone(resIdx + 1)
      BY <1>1, <1>3, <3>1 DEF StandAlone
    <3>3. \E t \in DOMAIN tokens : i + 1 <= t /\ tokens[t] = <<results[resIdx + 1].id>>
      BY <1>1, <2>5, <3>1, <3>2
    <3>. QED BY <1>1, <1>3, <3>3 DEF Ahead
  <2>. QED BY <2>6, <2>7 DEF OwnRoles
<1>9. /\ \A j, k \in DOMAIN results' : results'[j].id = results'[k].id => j = k
      /\ Ascending'
  BY <1>1, <1>3 DEF WalkInv
<1>. QED BY <1>1, <1>3, <1>4, <1>5, <1>8, <1>9 DEF WalkInv

--------------------------------------------------------------------------
(* The invariants of the tagging and of the walk. *)

\* What holds of what is listed, used and left to do holds when these are the same.
LEMMA SameTags ==
  ASSUME TagInv, Listed' = Listed, Put' = Put, UNCHANGED <<text, work, tagged>>
  PROVE  TagInv'
<1>1. Tagged' = Tagged
  BY DEF Tagged
<1>. QED BY <1>1 DEF TagInv

\* Every step keeps the tagged text in order.
LEMMA TagInvariance == IInv /\ TagInv /\ [Next]_vars => TagInv'
<1>. SUFFICES ASSUME IInv, TagInv, [Next]_vars PROVE TagInv'
  OBVIOUS
<1>1. CASE SetRole \/ PassToken \/ UNCHANGED vars
  <2>1. UNCHANGED <<text, results, work, unused, tagged>>
    BY <1>1 DEF SetRole, PassToken, vars
  <2>2. Listed' = Listed /\ Put' = Put
    BY <2>1 DEF Listed, Put
  <2>. QED BY <2>1, <2>2, SameTags
<1>2. CASE SortResults
  <2>1. UNCHANGED <<text, work, unused, tagged>>
    BY <1>2 DEF SortResults
  <2>2. PICK order \in Bijection(DOMAIN results, DOMAIN results) :
          results' = [k \in DOMAIN results |-> results[order[k]]]
    BY <1>2 DEF SortResults
  <2>3. /\ order \in [DOMAIN results -> DOMAIN results]
        /\ \A j \in DOMAIN results : \E k \in DOMAIN results : order[k] = j
    BY DEF Bijection, Injection, Surjection
  <2>4. DOMAIN results' = DOMAIN results /\ \A k \in DOMAIN results : results'[k] = results[order[k]]
    BY <2>2
  <2>5. Listed' = Listed
    BY <2>3, <2>4 DEF Listed
  <2>6. Put' = Put
    BY <2>1, <2>5 DEF Put
  <2>. QED BY <2>1, <2>5, <2>6, SameTags
<1>. QED BY <1>1, <1>2, UseResultTags, CopyPartTags, SkipEndTags, PutLabelTags DEF Next

\* Every step keeps the roles those of their tokens.
LEMMA WalkInvariance == IInv /\ TagInv /\ WalkInv /\ [Next]_vars => WalkInv'
<1>. SUFFICES ASSUME IInv, TagInv, WalkInv, [Next]_vars PROVE WalkInv'
  OBVIOUS
<1>1. CASE UseResult \/ CopyPart \/ SkipEnd \/ PutLabel
  <2>1. UNCHANGED <<text, results, phase, i, resIdx, role>> /\ work # <<>>
    BY <1>1 DEF UseResult, CopyPart, SkipEnd, PutLabel, TagOnly, Tagging
  <2>2. phase = "tagging"
    BY <2>1 DEF WalkInv, IInv, Shape
  <2>. QED BY <2>1, <2>2, TaggingWalks
<1>2. CASE UNCHANGED vars
  <2>1. UNCHANGED <<text, results, work, unused, tagged, phase, i, resIdx, role>>
    BY <1>2 DEF vars
  <2>2. /\ tokens' = tokens /\ roleTags' = roleTags /\ AllTaken' = AllTaken
        /\ Ascending' = Ascending /\ Ids(results') = Ids(results)
        /\ \A k : StandAlone(k)' = StandAlone(k)
    BY <2>1, LoopLeaves
  <2>3. \A k : HasRole(k)' = HasRole(k)
    BY <2>1, <2>2 DEF HasRole
  <2>4. OwnRoles' = OwnRoles
    <3>2. StandAlone(resIdx)' = StandAlone(resIdx) /\ Ahead(resIdx)' = Ahead(resIdx)
      BY <2>1, <2>2 DEF StandAlone, Ahead
    <3>. QED BY <2>1, <2>2, <2>3, <3>2 DEF OwnRoles
  <2>. QED BY <2>1, <2>2, <2>4 DEF WalkInv
<1>. QED BY <1>1, <1>2, SortResultsWalks, PassTokenWalks, SetRoleWalks DEF Next

\* The inductive invariants of the whole request.
THEOREM RequestInvariance == Spec => [](IInv /\ TagInv /\ WalkInv)
<1>1. Init => TagInv /\ WalkInv
  BY InitTagInv, InitWalkInv
<1>2. IInv /\ TagInv /\ WalkInv /\ [Next]_vars => TagInv' /\ WalkInv'
  BY TagInvariance, WalkInvariance
<1>. QED BY <1>1, <1>2, Invariance, PTL DEF Spec

\* For every text and every list of results, the parts start within the text, and the
\* indices of the loop over the tokens stay within the lists they are used on.
THEOREM TypeCorrect == Spec => []TypeOK
<1>1. ASSUME IInv, TagInv, WalkInv PROVE TypeOK
  <2>1. ASSUME NEW k \in DOMAIN work PROVE work[k].start \in 0..Len(text)
    <3>1. work[k] \in Items /\ Len(text) \in Nat
      BY <1>1, ElementOfSeq, LenProperties DEF IInv, Shape
    <3>2. work[k].start \in Nat /\ work[k].start <= Len(text)
      BY <1>1, <3>1, ItemFields DEF TagInv
    <3>. QED BY <3>1, <3>2
  <2>2. Ids(unused) \subseteq Ids(results)
    <3>1. \A k \in DOMAIN unused : unused[k] \in Listed
      BY <1>1 DEF IInv, Shape, Waiting
    <3>. QED BY <3>1 DEF Ids, Listed
  <2>3. i \in 1..(Len(text) + 2)
    <3>1. i \in Nat /\ i # 0 /\ Len(text) \in Nat
      BY <1>1, LenProperties DEF WalkInv, IInv, Shape
    <3>2. CASE phase = "tagging"
      BY <1>1, <3>1, <3>2 DEF WalkInv
    <3>3. CASE phase = "walking"
      <4>1. i <= Len(roleTags) + 1 /\ Len(roleTags) \in Nat /\ Len(roleTags) <= Len(text)
        BY <1>1, <3>3, RolesAre, RolesFit DEF WalkInv
      <4>. QED BY <3>1, <4>1
    <3>. QED BY <1>1, <3>2, <3>3 DEF WalkInv
  <2>4. resIdx \in 1..(Len(results) + 1) /\ phase \in {"tagging", "walking"}
    BY <1>1 DEF WalkInv
  <2>5. \A id \in Ids(results) : role[id] \in 0..Len(text)
    BY <1>1 DEF WalkInv
  <2>. QED BY <2>1, <2>2, <2>3, <2>4, <2>5 DEF TypeOK
<1>. QED BY <1>1, RequestInvariance, PTL

\* For every text and every list of results, the roles are those of their own tokens when
\* no token was refused, up to the first result that is no token of its own.
THEOREM RolesAreAlwaysTheirTokens == Spec => []RolesAreTheirTokens
<1>1. ASSUME IInv, TagInv, WalkInv PROVE RolesAreTheirTokens
  <2>. SUFFICES ASSUME phase = "walking", ~Walking, AllTaken,
                       NEW k \in DOMAIN results, StandAlone(k)
                PROVE  role[results[k].id] # 0 /\ tokens[role[results[k].id]] = <<results[k].id>>
    BY DEF RolesAreTheirTokens, AllTaken
  <2>1. /\ resIdx \in 1..(Len(results) + 1) /\ Len(results) \in Nat /\ DOMAIN results = 1..Len(results)
        /\ i \in Nat
    BY <1>1, LenProperties DEF WalkInv, IInv, Shape
  <2>2. OwnRoles /\ ~(i <= Len(roleTags))
    BY <1>1 DEF WalkInv, Walking
  <2>3. Len(roleTags) = Len(tokens) /\ Len(tokens) \in Nat /\ DOMAIN tokens = 1..Len(tokens)
    BY <1>1, RolesAreAll, TokensAre
  <2>4. k < resIdx
    <3>1. SUFFICES ASSUME ~(k < resIdx) PROVE FALSE
      OBVIOUS
    <3>2. resIdx \in 1..k /\ k \in Nat /\ resIdx <= Len(results)
      BY <2>1, <3>1
    <3>3. StandAlone(resIdx)
      BY <3>2, AloneBefore
    <3>4. PICK t \in DOMAIN tokens : i <= t
      BY <2>2, <3>2, <3>3 DEF OwnRoles, Ahead
    <3>. QED BY <2>1, <2>2, <2>3, <3>4
  <2>5. HasRole(k)
    <3>1. k \in 1..(resIdx - 1)
      BY <2>1, <2>4
    <3>. QED BY <2>2, <3>1 DEF OwnRoles
  <2>6. PICK t \in DOMAIN tokens : role[results[k].id] = t /\ tokens[t] = <<results[k].id>>
    BY <2>5 DEF HasRole
  <2>7. t # 0
    BY <2>3
  <2>. QED BY <2>6, <2>7
<1>. QED BY <1>1, RequestInvariance, PTL
====
