---- MODULE KeywordEntityParserUtils ----
(***************************************************************************)
(* KeywordEntityParserUtils: the words of a text, its n-grams, and where   *)
(* they stand.  A text is a sequence of characters, those that split words *)
(* written Blank; indices count from 0, as the index ranges do, and an     *)
(* index range ends at its last character.                                 *)
(***************************************************************************)
EXTENDS Integers, Sequences, FiniteSets, SequencesExt, FiniteSetsExt

Blank == " "      \* white space and . , ! ?

\* The positions where the words of the text start, and the word at one of them.
WordStarts(text) ==
  {p \in 0..(Len(text) - 1) : text[p + 1] # Blank /\ (p > 0 => text[p] = Blank)}

WordAt(text, p) ==
  LET ends == {q \in p..(Len(text) - 1) :
                 text[q + 1] # Blank /\ (q + 1 < Len(text) => text[q + 2] = Blank)}
  IN  SubSeq(text, p + 1, Min(ends) + 1)

\* The numbers of a set in order: up to the k-th there are k of them.
Sorted(S) == [k \in 1..Cardinality(S) |-> CHOOSE p \in S : Cardinality({q \in S : q <= p}) = k]

\* String.split: a separator in front gives an empty first word, and so does the
\* empty text; empty words at the end are dropped.
textTokanization(text) ==
  LET starts == Sorted(WordStarts(text))
      words  == [i \in DOMAIN starts |-> WordAt(text, starts[i])]
  IN  IF text = <<>> THEN << <<>> >>
      ELSE IF text[1] = Blank /\ words # <<>> THEN << <<>> >> \o words
      ELSE words

\* String.indexOf.
indexOf(text, word, from) ==
  LET found == {p \in from..(Len(text) - Len(word)) :
                  p >= 0 /\ SubSeq(text, p + 1, p + Len(word)) = word}
  IN  IF found = {} THEN -1 ELSE Min(found)

\* Mutant of generateNGramIndexRanges: from stays where it is.
rangesFromOnePlace(text, from, words, i, j) ==
  [k \in i..j |-> LET start == indexOf(text, words[k], from)
                  IN  [start |-> start, stop |-> start + Len(words[k]) - 1]]

\* The words i to j, each looked for from the last character of the one before.
generateNGramIndexRanges(text, from, words, i, j) ==
  LET range[k \in i..j] ==
        LET start == indexOf(text, words[k], IF k = i THEN from ELSE range[k - 1].stop)
        IN  [start |-> start, stop |-> start + Len(words[k]) - 1]
  IN  range

concat(words, i, j) ==
  LET spaced == [k \in 1..(j - i + 1) |-> IF k = 1 THEN words[i] ELSE <<Blank>> \o words[i + k - 1]]
  IN  FlattenSeq(spaced)

NGramStarts(words, n) == 1..(IF n > Len(words) THEN 0 ELSE Len(words) - n + 1)

\* The n-grams of one length, each looked for from the last character of the
\* first word of the one before.
igrams(text, words, n) ==
  LET nextNGramStart[i \in 1..Len(words)] ==
        IF i = 1 THEN 0
        ELSE generateNGramIndexRanges(text, nextNGramStart[i - 1], words, i - 1, i - 1)[i - 1].stop
  IN  [i \in NGramStarts(words, n) |->
         LET range == generateNGramIndexRanges(text, nextNGramStart[i], words, i, i + n - 1)
         IN  [value |-> concat(words, i, i + n - 1), first |-> i, last |-> i + n - 1,
              start |-> range[i].start, stop |-> range[i + n - 1].stop]]

\* The n-grams of up to n words, the short ones first.
generateNGrams(text, n) ==
  LET words == textTokanization(text)
  IN  FlattenSeq([m \in 1..n |-> igrams(text, words, m)])

--------------------------------------------------------------------------
\* Where the i-th word of the text begins and ends; a separator in front makes an
\* empty first word.
WordBegin(text, i) ==
  LET starts  == Sorted(WordStarts(text))
      leading == Len(textTokanization(text)) - Len(starts)
  IN  IF i <= leading THEN 0 ELSE starts[i - leading]

WordEnd(text, i) == WordBegin(text, i) + Len(textTokanization(text)[i]) - 1

\* A one-letter word that repeats the last letter of the word before it.
Slips(text, i) ==
  LET words == textTokanization(text)
  IN  i > 1 /\ Len(words[i]) = 1 /\ words[i - 1] # <<>> /\ Last(words[i - 1]) = words[i][1]

\* The index range of the n-gram g is the part of the text from its first word to its
\* last, however often the words occur; only where one of these is a single letter
\* that ends the word before it may the range begin or end too early, never outside
\* the text.
RangeFits(text, g) ==
  LET begin == WordBegin(text, g.first)
      end   == WordEnd(text, g.last)
  IN  /\ IF Slips(text, g.first) THEN g.start \in 0..begin ELSE g.start = begin
      /\ IF Slips(text, g.last) THEN g.stop \in 0..end ELSE g.stop = end

\* A value whose words are found where they stand, in whatever text it is: its first word
\* is not a single letter, and its last is not one that ends the word before it.
FoundInPlace(value) ==
  LET n == Len(value)
  IN  /\ n # 1 /\ (n > 1 => value[2] # Blank)
      /\ n > 2 => ~(value[n - 1] = Blank /\ value[n - 2] = value[n])
====
