---- MODULE DateSearch ----
(***************************************************************************)
(* ParseDate with a parser that reads the dates of a grammar: what the     *)
(* search promises of a sentence of any length.  The parser and the        *)
(* grammar stay parameters, and what is assumed of them is what TLC finds  *)
(* of DateParser and DateGrammar on every slice of the runs' sentences.    *)
(***************************************************************************)
EXTENDS ParseDate

CONSTANTS
  Date(_),        \* a sequence of token kinds is a date of the grammar
  LooseDate(_)    \* it is one but for single extra tokens, which the parser skips

\* The token behind a slice is of no kind of DateLexer.
ASSUME KindsAssumption == "EOF" \notin Kinds

\* An accepted slice begins with a date, up to extra tokens within.  A rejected one
\* may begin with a date too, but only with one that ends two tokens in front of the
\* offending token or earlier.
ASSUME ReadsAssumption ==
  \A t \in Inputs : \A lo, hi \in 0..Len(t) :
    lo < hi =>
      LET parsed == Parse(SubSeq(t, lo + 1, hi))
      IN  /\ parsed.answer = "accept" => LooseDate(SubSeq(t, lo + 1, lo + parsed.at + 1))
          /\ parsed.answer = "reject" =>
               \A end \in (lo + 1)..hi : Date(SubSeq(t, lo + 1, end)) => end < lo + parsed.at

\* No date ends with a blank.
ASSUME EndsAssumption ==
  \A t \in Inputs : \A lo, hi \in 0..Len(t) :
    lo < hi /\ LooseDate(SubSeq(t, lo + 1, hi)) => t[hi] # "WS"

--------------------------------------------------------------------------
Scan == INSTANCE DateScan

\* ParseDate does what DateScan says: it reports only what its grammar reads as a
\* date, where a token begins, and when it returns it has lost none.
ImplementsDateScan == Scan!Spec

\* The token with index p stands in the word behind "in ", or behind an "in" with one
\* token glued to it, as in "in, ".
AfterIn(p) ==
  \E b \in 2..p : /\ text[b] = "WS" /\ \A q \in b..p : text[q + 1] # "WS"
                  /\ \E i \in {b - 2, b - 1} \cap 1..p : text[i] = "IN"

\* Reports come from left to right.  Only one in the word behind "in" is taken up
\* again, from the same place or a later one: the back-off below a failed "in ..."
\* is what reports a date twice.
LeftToRight ==
  \A j, k \in 1..Len(results) :
    j < k => \/ results[j].to < results[k].from
             \/ /\ AfterIn(results[j].from)
                /\ results[j].from <= results[k].from /\ results[j].to <= results[k].to

\* A report ends at a separator, or where the back-off has cut a longer date off at
\* a separator of the grammar.  Only in the word behind "in" is a date cut out of
\* other text: there the back-off drops the token before the error unseen.
CutAtSeparators ==
  \A k \in 1..Len(results) :
    \/ Scan!KindAt(results[k].to + 1) \in Scan!Separators \cup {"DASH", "SLASH"}
    \/ AfterIn(results[k].from)
====
