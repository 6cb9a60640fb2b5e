---- MODULE DateGrammar ----
(***************************************************************************)
(* DateParser.g4 and NumericRules.g4 over kinds of tokens: the rules as a  *)
(* table, and how far a list of tokens follows them.  DateParser runs the  *)
(* table.                                                                  *)
(***************************************************************************)
EXTENDS Integers, Sequences, SequencesExt

(* The tokens of DateLexer.g4, up to what the grammar can tell apart. *)

\* "d" INT_1..INT_9, "m" INT_01..INT_12, "n" INT_13..INT_28, "e" INT_29..INT_31 at
\* the end of a month, "y" INT_00 and INT_32..INT_99, "spl" ONE..NINETEEN and "ord"
\* FIRST..TWENTIETH.  "TH" is the suffix that fits the number in front of it.  The
\* numbers of TWENTY and THIRTY, some of them of several words, are left out.
NumberKinds == {"d", "m", "n", "e", "y", "spl", "ord", "TH"}

\* A month name, a day of the week; "REL" is today, tomorrow or yesterday.
NameKinds == {"MONTH", "DOW", "DAY", "WEEK", "YEAR", "REL"}

\* "PREV" is previous or past.
KeywordKinds ==
  {"IN", "ON", "OF", "FROM", "NOW", "NEXT", "LAST", "PREV", "THIS", "THAT"}

SeparatorKinds == {"WS", "COMMA", "DASH", "DOT", "SLASH", "QUOTE"}

\* "x" is any token no rule uses.
TokenKinds == NumberKinds \cup NameKinds \cup KeywordKinds \cup SeparatorKinds \cup {"x"}

--------------------------------------------------------------------------
(***************************************************************************)
(* The rules: for each its alternatives, as sequences of symbols.  A block *)
(* is an alternation in parentheses within a rule: it is written with the  *)
(* rest of the rule, which is what it is predicted with.                   *)
(***************************************************************************)

\* DateParser.g4.
DateRules == [
  parse |-> << <<"relative_date">>, <<"specific_date">> >>,
  specific_date |-> << <<"month_day_year">>, <<"spelled_month_day">>, <<"spelled_month">>,
                       <<"format_date">>, <<"full_year">> >>,
  relative_date |-> << <<"relative_weekday">>, <<"relative_days_from_now">>, <<"REL">>,
                       <<"relative_neighbour_week">>, <<"relative_neighbour_year">> >>,
  month_day_year |-> << <<"month_day">>, <<"parse_year", "separator_month_day">> >>,
  format_date |-> << <<"format_full_date">>, <<"format_month_day">> >>,
  format_full_date |->
    << <<"day_number", "DOT", "month_number", "DOT", "norel_year">>,
       <<"day_number", "DASH", "month_number", "DASH", "norel_year">>,
       <<"day_number", "SLASH", "month_number", "SLASH", "norel_year">>,
       <<"month_number", "DOT", "day_number", "DOT", "norel_year">>,
       <<"month_number", "DASH", "day_number", "DASH", "norel_year">>,
       <<"month_number", "SLASH", "day_number", "SLASH", "norel_year">> >>,
  format_month_day |-> << <<"day_number", "DOT_DASH_SLASH", "month_number">>,
                          <<"month_number", "DOT_DASH_SLASH", "day_number">> >>,
  month_number |-> << <<"int_01_to_12_optional_prefix">> >>,
  day_number   |-> << <<"int_01_to_31_optional_prefix">> >>,
  short_year   |-> << <<"int_00_to_99_mandatory_prefix">> >>,
  full_year    |-> << <<"int_four_digits">> >>,
  norel_year   |-> << <<"short_year">>, <<"full_year">> >>,
  parse_year   |-> << <<"full_year">>, <<"relative_neighbour_year">> >>,
  relative_neighbour_year |-> << <<"NEXT", "WS", "YEAR">>, <<"LAST", "WS", "YEAR">>,
                                 <<"THIS", "WS", "YEAR">> >>,
  relative_neighbour_week |-> << <<"NEXT", "WS", "WEEK">>, <<"LAST_PREV", "WS", "WEEK">>,
                                 <<"THIS_THAT", "WS", "WEEK">> >>,
  spelled_month_day |->
    << <<"spelled_month", "WS", "spelled_or_ordinal_or_int">>,
       <<"spelled_or_ordinal_or_int", "WS", "spelled_month">>,
       <<"spelled_or_ordinal_or_int", "WS", "OF", "WS", "spelled_month">> >>,
  relative_days_from_now |->
    << <<"in_", "spelled_or_int", "WS", "DAY", "_from_now">> >>,
  relative_weekday |-> << <<"next_on_", "day_of_week">>, <<"LAST_PREV", "WS", "day_of_week">>,
                          <<"THIS_THAT", "WS", "day_of_week">>,
                          <<"day_of_week", "WS", "relative_neighbour_week">> >>,
  day_of_week   |-> << <<"DOW">> >>,
  spelled_month |-> << <<"MONTH">> >> ]

\* NumericRules.g4, as far as DateParser.g4 uses it.
NumericRules == [
  int_01_to_12_optional_prefix  |-> << <<"d">>, <<"m">> >>,
  int_01_to_31_optional_prefix  |-> << <<"m">>, <<"d">>, <<"n">>, <<"e">> >>,
  int_00_to_99_mandatory_prefix |-> << <<"m">>, <<"n">>, <<"e">>, <<"y">> >>,
  int_four_digits |-> << <<"int_00_to_99_mandatory_prefix", "int_00_to_99_mandatory_prefix">> >>,
  spelled_or_int |-> << <<"int_01_to_31_optional_prefix">>, <<"spelled_one_to_thirty_one">> >>,
  spelled_or_ordinal_or_int |-> << <<"spelled_or_int">>, <<"spelled_first_to_thirty_first">> >>,
  spelled_one_to_thirty_one |-> << <<"spl">> >>,
  spelled_first_to_thirty_first |->
    << <<"ord">>, <<"d", "TH">>, <<"m", "TH">>, <<"n", "TH">>, <<"e", "TH">> >> ]

Rules == DateRules @@ NumericRules

\* The blocks of month_day_year.
Blocks == [
  month_day |-> << <<"format_month_day", "separator_year">>,
                   <<"spelled_month_day", "separator_year">>,
                   <<"spelled_month", "separator_year">> >>,
  separator_year |-> << <<"blank_", "COMMA_DASH", "blank_", "parse_year">>,
                        <<"WS", "parse_year">> >>,
  separator_month_day |-> << <<"blank_", "COMMA_DASH", "blank_", "last_month_day">>,
                             <<"WS", "last_month_day">> >>,
  last_month_day |-> << <<"format_month_day">>, <<"spelled_month_day">>, <<"spelled_month">> >> ]

\* The optional blocks.
Optional == [in_       |-> <<"IN", "WS">>,
             next_on_  |-> <<"NEXT_ON", "WS">>,
             _from_now |-> <<"WS", "FROM", "WS", "NOW">>,
             blank_    |-> <<"WS">>]

\* The sets of tokens that one transition of the parser matches.
TokenSets == [DOT_DASH_SLASH |-> {"DOT", "DASH", "SLASH"}, COMMA_DASH |-> {"COMMA", "DASH"},
              LAST_PREV |-> {"LAST", "PREV"}, THIS_THAT |-> {"THIS", "THAT"},
              NEXT_ON |-> {"NEXT", "ON"}]

\* Rules of which the table has one alternative for several of one kind.
OfOneKind == {"day_of_week", "spelled_month", "spelled_one_to_thirty_one"}

--------------------------------------------------------------------------
Alternatives == [b \in DOMAIN Rules \cup DOMAIN Blocks |->
                   IF b \in DOMAIN Rules THEN Rules[b] ELSE Blocks[b]]

\* What may stand for a symbol that is not a terminal.
Ways == [b \in DOMAIN Alternatives \cup DOMAIN Optional |->
           IF b \in DOMAIN Optional THEN {Optional[b], <<>>} ELSE Range(Alternatives[b])]

Terminals == TokenKinds \cup DOMAIN TokenSets
Matched(terminal) ==
  IF terminal \in DOMAIN TokenSets THEN TokenSets[terminal] ELSE {terminal}

\* What the tokens of s behind the first i can be read as: how many tokens there are at
\* the end of a sequence of symbols, or in front of one that does not fit.  Up to extra
\* tokens that do not belong may stand in front of each that does.  No rule is recursive.
ReadingWith(extra, s) ==
  LET Read[symbols \in Seq(STRING), i \in 0..Len(s)] ==
        LET symbol  == Head(symbols)
            matches == {j \in (i + 1)..(i + 1 + extra) : j <= Len(s) /\ s[j] \in Matched(symbol)}
        IN  IF symbols = <<>> THEN {[at |-> i, complete |-> TRUE]}
            ELSE IF symbol \notin Terminals
            THEN UNION {Read[way \o Tail(symbols), i] : way \in Ways[symbol]}
            ELSE IF matches # {}
            THEN UNION {Read[Tail(symbols), j] : j \in matches}
            ELSE {[at |-> i, complete |-> FALSE]}
  IN  Read

Reading(s) == ReadingWith(0, s)

\* s is a date of the grammar.
IsDate(s) == [at |-> Len(s), complete |-> TRUE] \in Reading(s)[<<"parse">>, 0]

\* s is one but for tokens in between, or in front, none behind another.
IsLooseDate(s) == [at |-> Len(s), complete |-> TRUE] \in ReadingWith(1, s)[<<"parse">>, 0]

\* A token with which the symbols may begin.
Begins(t, symbols) == \E r \in Reading(<<t>>)[symbols, 0] : r.at = 1

\* Nothing need follow.
MayBeEmpty(symbols) == Range(symbols) \subseteq DOMAIN Optional
====
