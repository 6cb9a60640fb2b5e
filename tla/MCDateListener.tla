---- MODULE MCDateListener ----
(***************************************************************************)
(* DateListener on phrases of every form and on clocks around the ends of  *)
(* months and years, in a leap year and in common ones.                    *)
(***************************************************************************)
EXTENDS DateListener, TLC

MCClocks ==
  {t \in {Date(y, m, d) : y \in {2016, 2017}, m \in {1, 2, 3, 4, 12}, d \in {1, 10, 28, 29, 30, 31}} :
     IsDate(t)}

Days == {1, 4, 28, 29, 30, 31}
Months == {1, 2, 4, 12}

WeekdayPhrases ==
  {[form |-> "weekday", which |-> w, dow |-> dow, calls |-> weekday(w, dow)] :
     w \in {"next", "previous", "this"}, dow \in DayOfWeek}
  \cup {[form |-> "weekday_of_week", which |-> w, dow |-> dow,
         calls |-> weekday_of_week(dow, w)] : w \in NeighbourWeeks, dow \in DayOfWeek}

OtherRelative ==
  {[form |-> "today", calls |-> <<>>], [form |-> "tomorrow", calls |-> Call("tomorrow", 0)]}
  \cup {[form |-> "days", n |-> n, calls |-> days_from_now(n)] : n \in Days}
  \cup {[form |-> "week", which |-> w, calls |-> neighbour_week(w)] : w \in NeighbourWeeks}

WithCalls(p, form, c) == [form |-> form, calls |-> c] @@ p

\* "feb", "feb 4", "4 feb" and "4.2", with what each names.
MonthsAndDays ==
  {[by |-> "month", m |-> m, d |-> 1] : m \in Months}
  \cup {[by |-> by, m |-> m, d |-> d] :
          by \in {"month_first", "day_first"}, m \in {2, 12}, d \in Days}
  \cup {[by |-> "numbers", m |-> DayAndMonth(a, b).month, d |-> DayAndMonth(a, b).day,
         first |-> a, second |-> b] : a \in Days, b \in {1, 2, 4}}
  \cup {[by |-> "numbers", m |-> 4, d |-> 28, first |-> 4, second |-> 28]}

\* 2100 is no leap year.
Years == {[which |-> "full", y |-> y] : y \in {2016, 2017, 2100}}
         \cup {[which |-> w] : w \in NeighbourYears}

DatePhrases ==
  {WithCalls(md, "month_day", month_and_day(md)) : md \in MonthsAndDays}
  \cup {WithCalls(y, "year", parse_year(y)) : y \in Years}
  \cup {WithCalls(md @@ y, "year_month_day",
                  parse_year(y) \o month_and_day(md) \o Call("month_day_year", 0)) :
          md \in MonthsAndDays, y \in Years}
  \cup {WithCalls(md @@ y, "month_day_year",
                  month_and_day(md) \o parse_year(y) \o Call("month_day_year", 0)) :
          md \in MonthsAndDays, y \in Years}

FullDatePhrases ==
  UNION {{[short |-> short, y |-> 2000 + y] @@
          WithCalls(md, "full_date",
            format_full_date(md.first, md.second,
                             IF short THEN short_year(y) ELSE full_year(2000 + y))) :
            short \in BOOLEAN, y \in {16, 17}} :
         md \in {md \in MonthsAndDays : md.by = "numbers"}}

MCPhrases == WeekdayPhrases \cup OtherRelative \cup DatePhrases \cup FullDatePhrases
====
