---- MODULE MCParseDate ----
(***************************************************************************)
(* ParseDate with the parser of DateParser, on every sentence of up to     *)
(* MaxWords of the words below with single blanks between them, and on the *)
(* longer ones of the words that make it report a date twice.              *)
(***************************************************************************)
EXTENDS DateSearch, DateParser

CONSTANTS
  MaxWords,     \* bound on the words of a sentence
  Words,        \* the words, each a sequence of token kinds
  MaxTwice,     \* bound on the words of a longer sentence
  TwiceWords,   \* the words of those
  ReadSlice(_)  \* the answer of the parser and the grammar for a slice

\* The words are made of known tokens.
ASSUME WordsAssumption ==
  /\ MaxWords \in Nat \ {0} /\ Words \subseteq Seq(Kinds)
  /\ MaxTwice \in Nat \ {0} /\ TwiceWords \subseteq Seq(Kinds)

\* Words of the repository's examples: in, feb, "feb,", next, friday, 2017, 30, days,
\* of, 3/4, a word of no date, a date glued to it; and with a token too many: "3th",
\* "next,", "(friday"; or without the blank: "3days".
MCWords == {<<"IN">>, <<"MONTH">>, <<"MONTH", "COMMA">>, <<"NEXT">>, <<"DOW">>,
            <<"n", "n">>, <<"e">>, <<"DAY">>, <<"OF">>, <<"d", "SLASH", "m">>,
            <<"x">>, <<"DOW", "x">>, <<"d", "TH">>, <<"NEXT", "COMMA">>,
            <<"x", "DOW">>, <<"d", "DAY">>}

\* In, "in," and a date glued to another one, days, 3.
MCTwiceWords == {<<"IN">>, <<"IN", "COMMA">>, <<"DOW", "x", "DOW">>, <<"DAY">>, <<"d">>}

\* The sentences of up to max of the words.
Spaced(firsts, seconds) == {u \o <<"WS">> \o v : u \in firsts, v \in seconds}
SentencesOf(words, max) ==
  LET Sentence[n \in 1..max] == IF n = 1 THEN words ELSE Spaced(words, Sentence[n - 1])
  IN  UNION {Sentence[n] : n \in 1..max}

MCInputs == SentencesOf(Words, MaxWords) \cup SentencesOf(TwiceWords, MaxTwice)

MCReadSlice(s) ==
  LET answer == GrammarParse(s)
  IN  [parsed |-> answer, date |-> IsDate(s), loose |-> IsLooseDate(s)]

\* The slices of the sentences, each read once.
Slices == UNION {{SubSeq(s, i, j) : i, j \in 1..Len(s)} \ {<<>>} : s \in MCInputs}
Table  == [s \in Slices |-> ReadSlice(s)]

MCParse(s)     == Table[s].parsed
MCDate(s)      == Table[s].date
MCLooseDate(s) == Table[s].loose
====
