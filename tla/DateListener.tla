---- MODULE DateListener ----
(***************************************************************************)
(* DateParserListenerImpl: how the phrase the parser accepted becomes a    *)
(* date.  The parser fires the exit handler of a rule when it leaves the   *)
(* rule, so the handlers run in the order in which the phrase's rules end, *)
(* and share nothing but the fields of the listener.                       *)
(*                                                                         *)
(* A phrase is modelled by the calls it causes.  The clock is read when    *)
(* the listener is made and again in the year handlers; it may have passed *)
(* midnight in between.                                                    *)
(***************************************************************************)
EXTENDS Calendar, Sequences

CONSTANTS
  Clocks,      \* days on which a listener may be made
  Phrases,     \* the phrases parsed, each with the calls it causes
  MaxTicks     \* bound on the midnights that pass during one parse

\* The clock shows days of the calendar, and its first day is in 1970.
ASSUME ClockAssumption ==
  \A t \in Clocks : t \in [y : Nat, m : Nat, d : Nat] /\ IsDate(t) /\ t.y >= 1970
\* The bound on midnights is a number.
ASSUME TickAssumption  == MaxTicks \in Nat

VARIABLES
  phrase,      \* what is parsed
  made,        \* the day on which the listener was made
  now,         \* the day the clock shows
  self,        \* the fields of the listener
  calls,       \* the exit handlers still to be called
  status       \* "running", "done", or "thrown" by a handler

vars == <<phrase, made, now, self, calls, status>>

--------------------------------------------------------------------------
(* The calls of each rule of DateParser.g4 that has a handler with a body. *)

Call(on, arg) == <<[on |-> on, arg |-> arg]>>

number(n) == Call("number", n)

\* How far the week or the year is ahead.
Ahead(which) == CASE which = "next" -> 1 [] which = "last" -> -1 [] which = "this" -> 0

spelled_month(m) == Call("spelled_month", m)
spelled_month_day(m, d, dayFirst) ==
  (IF dayFirst THEN number(d) \o spelled_month(m) ELSE spelled_month(m) \o number(d))
    \o Call("spelled_month_day", 0)

\* Of two numbers the first is the day, unless only the second can be one.
DayAndMonth(a, b) ==
  IF a \in 1..31 /\ b \in Month THEN [day |-> a, month |-> b]
                                ELSE [day |-> b, month |-> a]
day_and_month(a, b) ==
  LET dm    == DayAndMonth(a, b)
      day   == number(dm.day) \o Call("day_number", dm.day)
      month == Call("month_number", dm.month)
  IN  IF dm.day = a THEN day \o month ELSE month \o day

format_month_day(a, b) == day_and_month(a, b) \o Call("format_month_day", 0)

short_year(s)          == Call("short_year", s)
full_year(y)           == Call("full_year", y)
format_full_date(a, b, year) ==
  day_and_month(a, b) \o year \o Call("format_full_date", 0)

neighbour_year(which)  == Call("year", which)
neighbour_week(which)  == Call("week", which)

day_of_week(dow)       == Call("day_of_week", dow)
weekday(which, dow)    == day_of_week(dow) \o Call("weekday", which)
weekday_of_week(dow, which) ==
  day_of_week(dow) \o neighbour_week(which) \o Call("day_of_neighbour_week", 0)

days_from_now(n)       == number(n) \o Call("days_from_now", 0)

\* format_month_day, spelled_month_day or spelled_month, of the month p.m and the
\* day p.d; the day of a month's name alone is the first.
month_and_day(p) ==
  CASE p.by = "month"     -> spelled_month(p.m)
    [] p.by = "month_first" -> spelled_month_day(p.m, p.d, FALSE)
    [] p.by = "day_first" -> spelled_month_day(p.m, p.d, TRUE)
    [] p.by = "numbers"   -> format_month_day(p.first, p.second)
parse_year(p) ==
  IF p.which = "full" THEN full_year(p.y) ELSE neighbour_year(p.which)

NeighbourWeeks == {"next", "last", "this"}
NeighbourYears == {"next", "last", "this"}
NumberedDay    == 1..31

\* The months and days that a rule can name.
NamesMonthAndDay(p) ==
  /\ p.m \in Month /\ p.d \in NumberedDay
  /\ p.by \in {"month", "month_first", "day_first", "numbers"}
  /\ p.by = "month" => p.d = 1
  /\ p.by = "numbers" => /\ p.first \in NumberedDay /\ p.second \in NumberedDay
                         /\ DayAndMonth(p.first, p.second) = [day |-> p.d, month |-> p.m]
NamesYear(p) == p.which \in NeighbourYears \cup {"full"} /\ (p.which = "full" => p.y \in Nat)

\* The phrases of the grammar, by the rule that accepts them, and their calls.
IsPhrase(p) ==
  \/ /\ p.form = "weekday"
     /\ p.which \in {"next", "previous", "this"} /\ p.dow \in DayOfWeek
     /\ p.calls = weekday(p.which, p.dow)
  \/ /\ p.form = "weekday_of_week"
     /\ p.which \in NeighbourWeeks /\ p.dow \in DayOfWeek
     /\ p.calls = weekday_of_week(p.dow, p.which)
  \/ p.form = "today"    /\ p.calls = <<>>
  \/ p.form = "tomorrow" /\ p.calls = Call("tomorrow", 0)
  \/ p.form = "days"     /\ p.n \in NumberedDay /\ p.calls = days_from_now(p.n)
  \/ p.form = "week"     /\ p.which \in NeighbourWeeks /\ p.calls = neighbour_week(p.which)
  \/ p.form = "year"     /\ NamesYear(p) /\ p.calls = parse_year(p)
  \/ p.form = "month_day" /\ NamesMonthAndDay(p) /\ p.calls = month_and_day(p)
  \/ /\ p.form = "year_month_day"
     /\ NamesYear(p) /\ NamesMonthAndDay(p)
     /\ p.calls = parse_year(p) \o month_and_day(p) \o Call("month_day_year", 0)
  \/ /\ p.form = "month_day_year"
     /\ NamesYear(p) /\ NamesMonthAndDay(p)
     /\ p.calls = month_and_day(p) \o parse_year(p) \o Call("month_day_year", 0)
  \/ /\ p.form = "full_date"
     /\ p.by = "numbers" /\ NamesMonthAndDay(p)
     /\ IF p.short THEN p.y \in 2000..2099 ELSE p.y \in Nat
     /\ p.calls = format_full_date(p.first, p.second,
                    IF p.short THEN short_year(p.y - 2000) ELSE full_year(p.y))

\* The phrases are those the grammar accepts, not what it gives up in the middle of.
ASSUME PhraseAssumption == \A p \in Phrases : IsPhrase(p)

--------------------------------------------------------------------------
Init ==
  /\ phrase \in Phrases
  /\ made \in Clocks
  /\ now = made
  /\ self = [number |-> 0, year |-> 0, monthNum |-> 0, dayNum |-> 0,
             dayOfWeek |-> 0, month |-> 0, dateTime |-> made]
  /\ calls = phrase.calls
  /\ status = "running"

Running == status = "running" /\ calls # <<>>

\* The next call is of this handler; arg is what its context gives it.
Called(on) == Running /\ Head(calls).on = on
Arg        == Head(calls).arg

Returns ==
  /\ calls' = Tail(calls)
  /\ UNCHANGED <<phrase, made, now, status>>

SetField(f) == self' = [self EXCEPT ![f] = Arg]
SetDate(t)  == self' = [self EXCEPT !.dateTime = t]

\* A DateTimeException leaves the parser, and the request with it.
Throws ==
  /\ status' = "thrown"
  /\ UNCHANGED <<phrase, made, now, self, calls>>

Today == self.dateTime

\* exitInt_01_to_31_optional_prefix, exitSpelled_one_to_thirty_one and
\* exitSpelled_first_to_thirty_first.
ExitNumber      == Called("number") /\ SetField("number") /\ Returns
ExitDayOfWeek   == Called("day_of_week") /\ SetField("dayOfWeek") /\ Returns
ExitDayNumber   == Called("day_number") /\ SetField("dayNum") /\ Returns
ExitMonthNumber == Called("month_number") /\ SetField("monthNum") /\ Returns

ExitTomorrow ==
  Called("tomorrow") /\ SetDate(PlusDays(Today, 1)) /\ Returns

ExitDaysFromNow ==
  Called("days_from_now") /\ SetDate(PlusDays(Today, self.number)) /\ Returns

\* Mutant of ExitWeek: last week is left alone on a Monday (comp > 0).
ExitWeekButMonday ==
  /\ Called("week")
  /\ SetDate(CASE Arg = "next" -> NextDow(Today, 1)
               [] Arg = "last" -> PreviousOrSameDow(
                    IF DayOfWeekOf(Today) > 1 THEN PlusDays(Today, -7) ELSE Today, 1)
               [] Arg = "this" -> PreviousOrSameDow(Today, 1))
  /\ Returns

\* exitNext_week, exitLast_week (Monday is the first constant of DayOfWeek, so the
\* comparison there always goes a week back), exitThis_week.
ExitWeek ==
  /\ Called("week")
  /\ SetDate(CASE Arg = "next" -> NextDow(Today, 1)
               [] Arg = "last" -> PreviousOrSameDow(PlusDays(Today, -7), 1)
               [] Arg = "this" -> PreviousOrSameDow(Today, 1))
  /\ Returns

ExitDayOfNeighbourWeek ==
  /\ Called("day_of_neighbour_week")
  /\ SetDate(NextOrSameDow(Today, self.dayOfWeek))
  /\ Returns

\* exitNext_day_of_week, exitPrevious_day_of_week and exitThis_day_of_week.
ExitWeekday ==
  /\ Called("weekday")
  /\ LET dow   == self.dayOfWeek
         today == DayOfWeekOf(Today)
     IN  SetDate(IF Arg = "next" \/ (Arg = "this" /\ today < dow)
                   THEN NextDow(Today, dow)
                 ELSE IF Arg = "previous" \/ today > dow
                   THEN PreviousDow(Today, dow)
                 ELSE Today)
  /\ Returns

\* Mutant of InNextMonthDay: only the months are compared.
InNextMonth(t, m, d) ==
  LET u == WithDay(WithMonth(t, m), d)
  IN  IF t.m > m THEN WithYear(u, u.y + 1) ELSE u

\* nextMonthDay: the month and day of this year when it is not past, of the next
\* year otherwise.  The day is set in this year's month, and may not exist there.
InNextMonthDay(t, m, d) ==
  LET u == WithDay(WithMonth(t, m), d)
  IN  IF t.m > m \/ (t.m = m /\ t.d > d) THEN WithYear(u, u.y + 1) ELSE u

\* MonthDay.of(month, day): February may have 29 days.
IsMonthDay(m, d) == m \in Month /\ d \in 1..MonthLength(2000, m)

ExitSpelledMonth ==
  /\ Called("spelled_month")
  /\ self' = [self EXCEPT !.month = Arg, !.dateTime = InNextMonthDay(Today, Arg, 1)]
  /\ Returns

\* Mutant of MonthDayFits: the year is not looked at.
IsSomeMonthDay == IsMonthDay(self.month, self.number)

MonthDayFits ==
  /\ IsMonthDay(self.month, self.number)
  /\ Holds(WithMonth(Today, self.month), self.number)

ExitSpelledMonthDay ==
  /\ Called("spelled_month_day") /\ MonthDayFits
  /\ SetDate(InNextMonthDay(Today, self.month, self.number))
  /\ Returns

ThrowSpelledMonthDay ==
  Called("spelled_month_day") /\ ~MonthDayFits /\ Throws

\* exitNext_year, exitLast_year and exitThis_year: the clock is read again, and
\* the date itself stays.
ExitYear ==
  /\ Called("year")
  /\ self' = [self EXCEPT !.year = now.y + Ahead(Arg)]
  /\ Returns

ExitShortYear ==
  /\ Called("short_year")
  /\ self' = [self EXCEPT !.year = 2000 + Arg]
  /\ Returns

\* Mutant of ExitFullYear: the month and day stay today's.
ExitFullYearKeepingDay ==
  /\ Called("full_year")
  /\ self' = [self EXCEPT !.year = Arg, !.dateTime = WithYear(Today, Arg)]
  /\ Returns

ExitFullYear ==
  /\ Called("full_year")
  /\ self' = [self EXCEPT !.year = Arg, !.dateTime = Date(Arg, 1, 1)]
  /\ Returns

ExitMonthDayYear ==
  Called("month_day_year") /\ SetDate(WithYear(Today, self.year)) /\ Returns

\* withDayOfMonth first: the day must exist in the month the date has so far.
DayFits == Holds(Today, self.dayNum)

\* Mutant of ExitFormatFullDate: the month is set before the year.
ExitFormatYearLast ==
  /\ Called("format_full_date") /\ DayFits
  /\ SetDate(WithYear(WithMonth(WithDay(Today, self.dayNum), self.monthNum), self.year))
  /\ Returns

ExitFormatFullDate ==
  /\ Called("format_full_date") /\ DayFits
  /\ SetDate(WithMonth(WithYear(WithDay(Today, self.dayNum), self.year), self.monthNum))
  /\ Returns

ExitFormatMonthDay ==
  /\ Called("format_month_day") /\ DayFits
  /\ SetDate(WithMonth(WithDay(Today, self.dayNum), self.monthNum))
  /\ Returns

ThrowFormat ==
  /\ Called("format_full_date") \/ Called("format_month_day")
  /\ ~DayFits /\ Throws

\* The parser leaves `parse`: getLocalDateTime is the answer.
Done ==
  /\ status = "running" /\ calls = <<>>
  /\ status' = "done"
  /\ UNCHANGED <<phrase, made, now, self, calls>>

Midnight ==
  /\ status = "running"
  /\ DayNumber(now) < DayNumber(made) + MaxTicks
  /\ now' = PlusDays(now, 1)
  /\ UNCHANGED <<phrase, made, self, calls, status>>

Handler ==
  \/ ExitNumber \/ ExitDayOfWeek \/ ExitDayNumber \/ ExitMonthNumber
  \/ ExitTomorrow \/ ExitDaysFromNow \/ ExitWeek \/ ExitDayOfNeighbourWeek
  \/ ExitWeekday \/ ExitSpelledMonth \/ ExitSpelledMonthDay \/ ExitYear
  \/ ExitShortYear \/ ExitFullYear \/ ExitMonthDayYear
  \/ ExitFormatFullDate \/ ExitFormatMonthDay
  \/ ThrowSpelledMonthDay \/ ThrowFormat

Next == Handler \/ Done \/ Midnight

Spec == Init /\ [][Next]_vars /\ WF_vars(Handler \/ Done)

--------------------------------------------------------------------------
\* The fields of the listener hold what the rules of the grammar can put there, and
\* dateTime is a day of the calendar after every handler, the ones that throw too.
TypeOK ==
  /\ self \in [number : 0..31, year : Nat, monthNum : 0..12, dayNum : 0..31,
               dayOfWeek : 0..7, month : 0..12, dateTime : [y : Nat, m : Nat, d : Nat]]
  /\ IsDate(self.dateTime)
  /\ DayNumber(made) <= DayNumber(now)
  /\ status \in {"running", "done", "thrown"}

Answer == self.dateTime

\* The Monday of a date's week.
Monday(t) == PreviousOrSameDow(t, 1)
WeeksAway(t) == (DayNumber(Monday(t)) - DayNumber(Monday(made))) \div 7

\* Phrases with a day of the week: "friday next week" falls in the week after
\* this one, "this friday" in this one, "next friday" and "last friday" within
\* seven days of today and never on it.
WeekdaysFallInTheirWeek ==
  status = "done" /\ phrase.form \in {"weekday", "weekday_of_week"} =>
    LET ahead == DayNumber(Answer) - DayNumber(made)
    IN  /\ DayOfWeekOf(Answer) = phrase.dow
        /\ phrase.form = "weekday_of_week" => WeeksAway(Answer) = Ahead(phrase.which)
        /\ phrase.form = "weekday"
             => (CASE phrase.which = "next" -> ahead \in 1..7
                   [] phrase.which = "previous" -> ahead \in -7..-1
                   [] phrase.which = "this" -> WeeksAway(Answer) = 0)

\* A spelled month and day without a year are resolved to a coming one, of this year
\* or the next, whatever day it is today.  A month alone is its first day, and while
\* that month runs the property leaves open which year's: the code takes the next
\* year's, and src/main/resources/test.json:408 has 2017-01-01 for "In January" asked
\* on 2017-01-10.
MonthDaysAreNotPast ==
  status = "done" /\ phrase.form = "month_day" /\ phrase.by # "numbers" =>
    /\ Answer.m = phrase.m /\ Answer.d = phrase.d
    /\ Answer.y \in {made.y, made.y + 1}
    /\ Before(Answer, made) => phrase.by = "month" /\ phrase.m = made.m

\* A year in front of a month and day ("2017 march 3", "next year feb 4") is the
\* year of the answer, and the month and day are the answer's, but for a day that
\* the month does not have and that is its last one then.  Four digits leave nothing
\* of today's date: the answer is the very date, and a spelled one that exists is
\* never refused.  The year of "next year" is that of a clock read during the parse.
LeadingYearIsKept ==
  phrase.form = "year_month_day" =>
    /\ status = "done" /\ phrase.which = "full" =>
         Answer = Clamp(phrase.y, phrase.m, phrase.d)
    /\ status = "done" /\ phrase.which # "full" =>
         /\ Answer.m = phrase.m
         /\ Answer.d = phrase.d \/ (Answer.d < phrase.d /\ phrase.d \in 29..31)
         /\ \E y \in made.y..now.y : Answer.y = y + Ahead(phrase.which)
    /\ status = "thrown" /\ phrase.which = "full" =>
         phrase.by # "numbers" /\ ~IsDate(Date(phrase.y, phrase.m, phrase.d))
    /\ status = "done" /\ phrase.which = "full" /\ phrase.by # "numbers" =>
         IsDate(Date(phrase.y, phrase.m, phrase.d))

\* A date written in numbers is resolved to the day and month that the grammar reads
\* in it or, when that is no date, to the last day of its month.  The grammar reads the
\* day in front when it can (DayAndMonth): "1/4/17" is the 1st of April, where
\* src/main/resources/test.json:543 has 2017-01-04, the month in front.  The short form
\* sets the day in today's month first: a 29th is the 28th when today is in a February
\* of 29 days and the year has none.  Without a year the date is this year's, past or
\* not.  A handler throws only when today's month or, for a month name, the month in the
\* year of the answer has no such day.
NumericDatesAreExact ==
  /\ status = "done" /\ phrase.form = "full_date" =>
       LET inFebruary == phrase.short /\ made.m = 2 /\ phrase.d = 29 /\ ~Leap(phrase.y)
       IN  Answer = Clamp(phrase.y, phrase.m, IF inFebruary THEN 28 ELSE phrase.d)
  /\ status = "done" /\ phrase.form = "month_day" /\ phrase.by = "numbers" =>
       Answer = Clamp(made.y, phrase.m, phrase.d)
  /\ status = "thrown" =>
       \/ phrase.form = "full_date" /\ phrase.short /\ phrase.d > MonthLength(made.y, made.m)
       \/ /\ phrase.form \in {"month_day", "year_month_day", "month_day_year"}
          /\ IF phrase.by = "numbers"
             THEN phrase.d > MonthLength(made.y, made.m)
             ELSE \E y \in made.y..(made.y + 2) : ~Holds(Date(y, phrase.m, 1), phrase.d)
====
