---- MODULE MCFeatureIndex ----
(***************************************************************************)
(* FeatureIndex with two unigram templates and a bigram template, on every *)
(* corpus of up to two sentences of one or two words, and the dictionary   *)
(* it ends with in a model file.                                           *)
(***************************************************************************)
EXTENDS SavedIndex

\* What the templates make of a position; 'B' comes before 'U'.
Bigram  == {<<1>>, <<2>>}
Unigram == {<<k, l>> : k \in {3, 4}, l \in {5, 6}}

MCUnigrams == {3, 4, 5, 6}

\* The unigrams of both words, then the bigram between them.
MCSentences ==
  {<<u>> : u \in Unigram} \cup {<<u, v, b>> : u \in Unigram, v \in Unigram, b \in Bigram}

\* A second sentence says one word twice, or one word only.
MCSecond == {<<u>> : u \in Unigram} \cup {<<u, u, b>> : u \in Unigram, b \in Bigram}

MCCorpora == {<<>>} \cup MCSentences \cup {s \o t : s \in MCSentences, t \in MCSecond}

\* By key: its bytes.  A key is the beginning of another, keys part late and early,
\* bytes are far from each other, and close.
MCSpellings ==
  {<<<<1>>, <<1, 2>>, <<2, 1>>, <<2, 1, 1>>, <<2, 1, 3>>, <<2, 3>>>>,
   <<<<1, 1, 1>>, <<1, 1, 2>>, <<2, 2, 4, 1>>, <<2, 2, 4, 4>>, <<2, 3>>, <<2, 4, 4, 4>>>>,
   <<<<1, 4>>, <<1, 4, 1>>, <<2>>, <<2, 3>>, <<2, 4>>, <<2, 4, 1>>>>}

\* Every text of up to three bytes, the keys, and more than one.
MCTexts ==
  UNION {[1..n -> 1..4] : n \in 0..3} \cup UNION {{s[k], s[k] \o <<4>>} : s \in MCSpellings, k \in 1..6}
====
