---- MODULE MCGeneralParser ----
(***************************************************************************)
(* GeneralParser on the texts of up to MaxWords words, with and without a  *)
(* separator in front, and every list of up to MaxResults results for      *)
(* them, dates before places.  One word may have a quote at its start or   *)
(* end, which a date leaves out and which splits no words.                 *)
(***************************************************************************)
EXTENDS GeneralParser

CONSTANTS MaxWords, MaxResults

word   == <<"w", "w">>
quoted == <<"w", "w", "w">>

MCTexts ==
  LET lists == UNION {[1..n -> {word, quoted}] : n \in 0..MaxWords}
      oneQuote(ws) == \A j, k \in DOMAIN ws : ws[j] = quoted /\ ws[k] = quoted => j = k
      spaced(ws) == FlattenSeq([k \in DOMAIN ws |-> IF k = 1 THEN ws[k] ELSE <<Blank>> \o ws[k]])
  IN  {front \o spaced(ws) : front \in {<<>>, <<Blank>>}, ws \in {l \in lists : oneQuote(l)}}

\* A place is made of whole words; a date leaves out a quote.
Ranges(t) ==
  {r \in [start : WordStarts(t), stop : 0..(Len(t) - 1)] :
     r.start < r.stop /\ (r.stop + 1 = Len(t) \/ t[r.stop + 2] = Blank) /\ t[r.stop + 1] # Blank}

DateRanges(t) ==
  {d \in [start : 0..(Len(t) - 1), stop : 0..(Len(t) - 1)] :
     d.start < d.stop /\ \E r \in Ranges(t) :
       \/ d = r
       \/ Len(WordAt(t, r.start)) = 3 /\ d = [r EXCEPT !.start = r.start + 1]
       \/ r.stop > 1 /\ t[r.stop - 1] # Blank /\ d = [r EXCEPT !.stop = r.stop - 1]}

\* Dates are reported in order, and overlap only when they start together.
InOrder(ds) ==
  \A k \in 2..Len(ds) : ds[k - 1].start = ds[k].start \/ ds[k - 1].stop < ds[k].start

Lists(S) == UNION {[1..n -> S] : n \in 0..MaxResults}

Labelled(ds, ps) ==
  LET rs == ds \o ps
  IN  [k \in DOMAIN rs |->
         [id |-> <<"r1", "r2", "r3">>[k], start |-> rs[k].start, stop |-> rs[k].stop,
          label |-> IF k <= Len(ds) THEN "en:date" ELSE "en:place"]]

RequestsFor(t) ==
  LET dates == {ds \in Lists(DateRanges(t)) : InOrder(ds)}
      pairs == {<<ds, ps>> \in dates \X Lists(Ranges(t)) : Len(ds) + Len(ps) <= MaxResults}
  IN  {[text |-> t, results |-> Labelled(pair[1], pair[2])] : pair \in pairs}

MCRequests == {q : q \in UNION {RequestsFor(t) : t \in MCTexts}}
====
