---- MODULE DateScan ----
(***************************************************************************)
(* What ParseDate.parse promises of a sentence, without its back-off: it   *)
(* reports dates, or what is one but for extra tokens, where a token       *)
(* begins, and it returns only when every date that begins a word has been *)
(* reported, at least in part, save those that something glued to other    *)
(* text overlaps.  That it returns is not stated here.                     *)
(***************************************************************************)
EXTENDS Naturals, Sequences

CONSTANTS
  Kinds,          \* the token kinds of a sentence
  Date(_),        \* a sequence of token kinds is a date of the grammar
  LooseDate(_)    \* it is one but for single extra tokens

VARIABLES text, results, status

vars == <<text, results, status>>

Spans == {r \in [from : 0..Len(text), to : 0..Len(text)] :
            r.from <= r.to /\ r.to < Len(text)}

KindAt(i) == IF i \in 0..(Len(text) - 1) THEN text[i + 1] ELSE "EOF"

IsDate(r)      == Date(SubSeq(text, r.from + 1, r.to + 1))
IsLooseDate(r) == LooseDate(SubSeq(text, r.from + 1, r.to + 1))
BeginsWord(r)  == KindAt(r.from - 1) \in {"EOF", "WS"}
Overlap(r, s)  == r.from <= s.to /\ s.from <= r.to

Separators == {"EOF", "WS", "COMMA", "DOT", "QUOTE"}

\* A date with something else than a separator right behind it, as in "fridays"
\* or "2017 feb 2018": it is passed over, and the token behind it as well.
Glued(r) == IsLooseDate(r) /\ KindAt(r.to + 1) \notin Separators

BeginsToken(r) ==
  \/ KindAt(r.from - 1) \in Separators
  \/ \E g \in Spans : Glued(g) /\ g.to + 2 = r.from

Init ==
  /\ text \in Seq(Kinds)
  /\ results = <<>>
  /\ status = "parsing"

Report(r) ==
  /\ status = "parsing"
  /\ results' = Append(results, r)
  /\ IsLooseDate(r) /\ BeginsToken(r)
  /\ UNCHANGED <<text, status>>

Due(r) ==
  /\ IsDate(r) /\ BeginsWord(r)
  /\ \A g \in Spans : Glued(g) => ~Overlap(g, r)

AllReported ==
  \A r \in Spans : Due(r) => \E k \in 1..Len(results) : Overlap(r, results[k])

Return ==
  /\ status = "parsing"
  /\ status' = "done"
  /\ AllReported
  /\ UNCHANGED <<text, results>>

Throw ==
  /\ status = "parsing"
  /\ status' = "failed"
  /\ UNCHANGED <<text, results>>

Next == (\E r \in Spans : Report(r)) \/ Return \/ Throw

Spec == Init /\ [][Next]_vars
====
