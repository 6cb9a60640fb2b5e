---- MODULE DateParser ----
(***************************************************************************)
(* The parser ANTLR 4.6 generates from DateParser.g4, with the recovery of *)
(* its DefaultErrorStrategy and the listener ParseDate adds, on one slice  *)
(* of the token list.                                                      *)
(*                                                                         *)
(* A rule is a method: it looks ahead to choose an alternative and matches *)
(* the symbols of it.  A token that does not match is skipped when the one *)
(* behind it does; a missing one is to be made by the token factory, which *)
(* DateParserTokenSource does not have.  Otherwise the rule ends with an   *)
(* exception in its context, tokens are skipped until one can follow in a  *)
(* calling rule, and the caller goes on.  The exit handler of a rule runs  *)
(* however the rule ends.                                                  *)
(*                                                                         *)
(* Token indices count from 0, as Token.getTokenIndex does: s[i + 1] has   *)
(* index i, and the EOF behind the slice has index Len(s).                 *)
(***************************************************************************)
EXTENDS DateGrammar

\* Whether the generated code also calls sync of the error strategy in front of each
\* choice, where it skips a single token as well.  The code is not in the repository.
CONSTANT SyncsChoices
ASSUME SyncsAssumption == SyncsChoices \in BOOLEAN

NoException == -1

\* A method on its way: the symbols it has still to match, the token it began with,
\* and the offending token of the first exception in the contexts below its own.
Context(rule, i) == [rule |-> rule, rest |-> <<>>, from |-> i, exception |-> NoException]

(***************************************************************************)
(* The state p of a parse: the index of the next token, whether the error  *)
(* strategy is recovering, the contexts of the running methods, which of   *)
(* the listener's fields are set, those set from a number that need not be *)
(* a day or month, and whether a handler or the strategy throws.           *)
(***************************************************************************)
NewParse == [index |-> 0, recovering |-> FALSE, contexts |-> <<>>,
             set |-> {}, doubtful |-> {}, throws |-> "never"]

Kind(s, i)   == IF i < Len(s) THEN s[i + 1] ELSE "EOF"
LA(s, p, k)  == Kind(s, p.index + k - 1)

Ctx(p)       == Last(p.contexts)
SetRest(p, symbols) == [p EXCEPT !.contexts[Len(p.contexts)].rest = symbols]

\* What can come after the current symbols, up to the end of the outermost rule.
Rest(p) == FlattenSeq(Reverse([d \in DOMAIN p.contexts |-> p.contexts[d].rest]))

Skip(p, n) == [p EXCEPT !.index = @ + n, !.recovering = FALSE]

--------------------------------------------------------------------------
(* DateParserListenerImpl: the handlers that may throw, when the rule of   *)
(* the last context ends.  Those set and read the fields below.            *)

FieldOf == [int_01_to_31_optional_prefix  |-> "number", day_number |-> "dayNum",
            month_number |-> "monthNum", short_year |-> "year",
            spelled_one_to_thirty_one     |-> "number",
            spelled_first_to_thirty_first |-> "number", spelled_month |-> "month"]

FieldsRead == [spelled_month_day |-> {"month", "number"},
               format_month_day  |-> {"dayNum", "monthNum"},
               format_full_date  |-> {"dayNum", "monthNum"}]

\* parseNumberNoOptionalPrefix reads the text of the whole context: it throws on no
\* text, and on more than one token unless they happen to make up a number.
ParsesText == {"int_01_to_31_optional_prefix", "day_number", "month_number", "short_year"}

Throwing(p, how) == [p EXCEPT !.throws = IF @ = "surely" THEN @ ELSE how]

\* A field is set to a number or a month, of which a context with an exception has
\* none.  A day from 29 is not one of every month.
SetField(s, p) ==
  LET c      == Ctx(p)
      field  == FieldOf[c.rule]
      failed == c.exception # NoException
      tokens == SubSeq(s, c.from + 1, p.index)
      q      == [p EXCEPT !.set = @ \cup {field}]
      doubt  == [q EXCEPT !.doubtful = @ \cup {field}]
  IN  IF (c.rule = "spelled_month" /\ failed) \/ (c.rule \in ParsesText /\ tokens = <<>>)
      THEN Throwing(p, "surely")
      ELSE IF c.rule \in ParsesText /\ (failed \/ Len(tokens) > 1)
      THEN Throwing(doubt, "maybe")
      ELSE IF failed \/ "e" \in Range(tokens) THEN doubt
      ELSE [q EXCEPT !.doubtful = @ \ {field}]

\* MonthDay.of and withDayOfMonth throw on a field that was never set, and may throw
\* on one that is doubtful.
ReadFields(p) ==
  LET fields == FieldsRead[Ctx(p).rule]
  IN  IF ~(fields \subseteq p.set)         THEN Throwing(p, "surely")
      ELSE IF fields \cap p.doubtful # {} THEN Throwing(p, "maybe")
      ELSE p

ExitRule(s, p) ==
  IF Ctx(p).rule \in DOMAIN FieldOf         THEN SetField(s, p)
  ELSE IF Ctx(p).rule \in DOMAIN FieldsRead THEN ReadFields(p)
  ELSE p

--------------------------------------------------------------------------
(* DefaultErrorStrategy *)

\* A rule ends: what getRecognitionException finds of it is its own exception or the
\* first of the rules it called, and the caller's when that has none before it.
Leave(s, p) ==
  LET q     == ExitRule(s, p)
      depth == Len(p.contexts)
      found == Ctx(p).exception
  IN  IF depth = 1 THEN q
      ELSE [q EXCEPT !.contexts =
              [d \in 1..(depth - 1) |->
                 IF d = depth - 1 /\ @[d].exception = NoException
                 THEN [@[d] EXCEPT !.exception = found] ELSE @[d]]]

\* A rule ends with an exception: recover consumes until a token that can follow in
\* one of the rules that called it.
Fail(s, p, offending) ==
  LET callers == Front(p.contexts)
      Stops(i) == \/ i = Len(s)
                  \/ \E d \in DOMAIN callers : Begins(Kind(s, i), callers[d].rest)
      stop == CHOOSE i \in p.index..Len(s) : Stops(i) /\ \A j \in p.index..(i - 1) : ~Stops(j)
  IN  SetRest([p EXCEPT !.index = stop, !.recovering = TRUE,
                        !.contexts[Len(p.contexts)].exception = offending], <<>>)

\* match: the token, or the one behind a single extra token, is consumed.  When the
\* symbols behind the missing one go on with the token, getMissingSymbol asks for a
\* token factory, which is null.
Match(s, p, terminal) ==
  LET behind == SetRest(p, Tail(Ctx(p).rest))
  IN  IF LA(s, p, 1) \in Matched(terminal)      THEN Skip(behind, 1)
      ELSE IF LA(s, p, 2) \in Matched(terminal) THEN Skip(behind, 2)
      ELSE IF Begins(LA(s, p, 1), Rest(behind)) \/ (LA(s, p, 1) = "EOF" /\ MayBeEmpty(Rest(behind)))
      THEN Throwing(p, "surely")
      ELSE Fail(s, p, p.index)

\* sync finds none of the tokens that the symbols of the rule can begin with.
OutOfSync(s, p, symbols) ==
  SyncsChoices /\ ~p.recovering /\ ~MayBeEmpty(symbols) /\ ~Begins(LA(s, p, 1), symbols)

--------------------------------------------------------------------------
(* ParserATNSimulator.adaptivePredict and the rules' methods *)

\* The alternative that alone goes on with the next token when no other does; the
\* first of those that are complete when no token can tell them apart; none when they
\* fail at the same token, the offending one.
Predict(s, p, alternatives) ==
  LET reading == [j \in DOMAIN alternatives |-> Reading(s)[alternatives[j], p.index]]
      far     == Max({r.at : r \in UNION Range(reading)})
      last    == {j \in DOMAIN reading : \E r \in reading[j] : r.at = far}
      full    == {j \in last : [at |-> far, complete |-> TRUE] \in reading[j]}
  IN  IF Cardinality(last) = 1 /\ far > p.index
                       THEN SetRest(p, alternatives[Min(last)])
      ELSE IF full # {} THEN SetRest(p, alternatives[Min(full)])
      ELSE Fail(s, p, far)

Choose(s, p, choice) ==
  LET alternatives == Alternatives[choice]
  IN  IF Len(alternatives) = 1 /\ choice \notin OfOneKind THEN SetRest(p, alternatives[1])
      ELSE IF ~OutOfSync(s, p, <<choice>>)     THEN Predict(s, p, alternatives)
      ELSE IF Begins(LA(s, p, 2), <<choice>>) THEN Predict(s, Skip(p, 1), alternatives)
      ELSE Fail(s, p, p.index)

ChooseOptional(s, p, optional) ==
  LET rest == Ctx(p).rest
  IN  IF OutOfSync(s, p, rest)
      THEN IF Begins(LA(s, p, 2), rest) THEN Skip(p, 1) ELSE Fail(s, p, p.index)
      ELSE SetRest(p, IF Begins(LA(s, p, 1), Optional[optional])
                      THEN Optional[optional] \o Tail(rest) ELSE Tail(rest))

EnterRule(s, p, rule) ==
  Choose(s, [p EXCEPT !.contexts = Append(@, Context(rule, p.index))], rule)

\* The next symbol of the innermost rule.
Step(s, p) ==
  LET rest   == Ctx(p).rest
      symbol == Head(rest)
      behind == SetRest(p, Tail(rest))
  IN  IF rest = <<>>                          THEN Leave(s, p)
      ELSE IF symbol \in DOMAIN Rules         THEN EnterRule(s, behind, symbol)
      ELSE IF symbol \in DOMAIN Blocks        THEN Choose(s, behind, symbol)
      ELSE IF symbol \in DOMAIN Optional      THEN ChooseOptional(s, p, symbol)
      ELSE Match(s, p, symbol)

\* A parse, as it may stand between two steps.
Symbols == DOMAIN Ways \cup Terminals
Parses  ==
  [index : Nat, recovering : BOOLEAN, set : SUBSET Range(FieldOf),
   doubtful : SUBSET Range(FieldOf), throws : {"never", "maybe", "surely"},
   contexts : Seq([rule : DOMAIN Rules, rest : Seq(Symbols), from : Nat,
                   exception : Nat \cup {NoException}])]

\* The parse of s to its end.
Run(s) ==
  LET Parsed[p \in Parses] ==
        IF p.throws = "surely" \/ (Len(p.contexts) = 1 /\ Ctx(p).rest = <<>>) THEN p
        ELSE Parsed[Step(s, p)]
  IN  Parsed[EnterRule(s, NewParse, "parse")]

\* What parse answers for a slice: the last token of a date, the offending token of
\* the first exception in its tree, or an exception that leaves parse; and whether
\* that is possible, for some numbers and some days.
GrammarParse(s) ==
  LET end       == Run(s)
      exception == Ctx(end).exception
  IN  IF end.throws = "surely"
      THEN [answer |-> "raise", at |-> end.index, throws |-> TRUE]
      ELSE [answer |-> IF exception = NoException THEN "accept" ELSE "reject",
            at     |-> IF exception = NoException THEN end.index - 1 ELSE exception,
            throws |-> end.throws = "maybe"]
====
