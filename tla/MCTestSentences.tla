---- MODULE MCTestSentences ----
(***************************************************************************)
(* A sentence of src/main/resources/test.json, its dates found with the    *)
(* parser of DateParser.                                                   *)
(***************************************************************************)
EXTENDS ParseDate, DateParser

SentenceKinds == {"d", "m", "n", "y", "spl", "ord", "MONTH", "WS", "IN", "x"}

\* "... to Spain in February 2017".
InMonthOfYear == {<<"x", "WS", "x", "WS", "IN", "WS", "MONTH", "WS", "n", "n">>}

\* What the sentence says once is one date: test.json:302 has one datetime.
OneDateForOnePhrase ==
  \A j, k \in 1..Len(results) :
    j # k => \/ results[j].to < results[k].from
             \/ results[k].to < results[j].from
====
