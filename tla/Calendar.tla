---- MODULE Calendar ----
(***************************************************************************)
(* The part of java.time that DateParserListenerImpl calls: the ISO        *)
(* calendar of LocalDateTime, without its time of day.                     *)
(***************************************************************************)
EXTENDS Integers

Month     == 1..12
DayOfWeek == 1..7      \* DayOfWeek.getValue(): Monday is 1

Leap(y) == y % 4 = 0 /\ (y % 100 # 0 \/ y % 400 = 0)

MonthLength(y, m) ==
  IF m = 2 THEN (IF Leap(y) THEN 29 ELSE 28)
  ELSE IF m \in {4, 6, 9, 11} THEN 30 ELSE 31

Date(y, m, d) == [y |-> y, m |-> m, d |-> d]

IsDate(t) == t.m \in Month /\ t.d \in 1..MonthLength(t.y, t.m)

\* Days of a common year before the month.
DaysBefore(m) ==
  <<0, 31, 59, 90, 120, 151, 181, 212, 243, 273, 304, 334>>[m]

\* toEpochDay, up to a constant: the number of the day in the Gregorian calendar.
DayNumber(t) ==
  LET past == t.y - 1
  IN  365 * past + (past \div 4) - (past \div 100) + (past \div 400)
      + DaysBefore(t.m) + (IF Leap(t.y) /\ t.m > 2 THEN 1 ELSE 0) + t.d

\* ofEpochDay.
DateOf(n) ==
  LET y == CHOOSE y \in (n \div 366)..(n \div 365 + 1) :
             DayNumber(Date(y, 1, 1)) <= n /\ n < DayNumber(Date(y + 1, 1, 1))
      m == CHOOSE m \in Month :
             /\ DayNumber(Date(y, m, 1)) <= n
             /\ n < DayNumber(Date(y, m, 1)) + MonthLength(y, m)
  IN  Date(y, m, n - DayNumber(Date(y, m, 1)) + 1)

PlusDays(t, k) == DateOf(DayNumber(t) + k)

DayOfWeekOf(t) == ((DayNumber(t) + 6) % 7) + 1

Before(s, t) == DayNumber(s) < DayNumber(t)

\* withMonth, withYear and plusYears take the last day of a month that is too
\* short; withDayOfMonth throws instead, when Holds is false.
Clamp(y, m, d) ==
  Date(y, m, IF d <= MonthLength(y, m) THEN d ELSE MonthLength(y, m))

WithMonth(t, m) == Clamp(t.y, m, t.d)
WithYear(t, y)  == Clamp(y, t.m, t.d)
WithDay(t, d)   == Date(t.y, t.m, d)
Holds(t, d)     == d \in 1..MonthLength(t.y, t.m)

\* TemporalAdjusters.
NextDow(t, dow)         == PlusDays(t, ((dow - DayOfWeekOf(t) + 6) % 7) + 1)
NextOrSameDow(t, dow)   == PlusDays(t, (dow - DayOfWeekOf(t) + 7) % 7)
PreviousDow(t, dow)     == PlusDays(t, -(((DayOfWeekOf(t) - dow + 6) % 7) + 1))
PreviousOrSameDow(t, dow) == PlusDays(t, -((DayOfWeekOf(t) - dow + 7) % 7))
====
