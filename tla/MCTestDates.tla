---- MODULE MCTestDates ----
(***************************************************************************)
(* Phrases of src/main/resources/test.json on the day its answers were     *)
(* written for, 2017-01-10: "tomorrow" is 2017-01-11 there.                *)
(***************************************************************************)
EXTENDS DateListener

TestDay == {Date(2017, 1, 10)}

\* "20 March 2017".
DayMonthYear ==
  {[form |-> "month_day_year", by |-> "day_first", which |-> "full",
    y |-> 2017, m |-> 3, d |-> 20,
    calls |-> spelled_month_day(3, 20, TRUE) \o full_year(2017)
                \o Call("month_day_year", 0)]}

\* A day, month and year are the date they name: test.json:230 has 2017-03-20.
DayMonthYearIsTheDate ==
  status = "done" => Answer = Date(phrase.y, phrase.m, phrase.d)
====
