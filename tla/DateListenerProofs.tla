---- MODULE DateListenerProofs ----
(***************************************************************************)
(* Proofs about DateListener, for all phrases of the grammar, all clocks   *)
(* since 1970 and any number of midnights during the parse.                *)
(*                                                                         *)
(* The calendar first: every number is that of a day and the adjusters     *)
(* return days (DayOfNumber, AdjustedDays).  Then the calls of a phrase,   *)
(* one by one (CallsFit).  The invariant IInv says which date the listener *)
(* has after the first k calls of its phrase (DateAfter); every handler    *)
(* takes it one call further (CalledStep).  The properties follow from the *)
(* date after all of them, and from what has not fitted when one throws.   *)
(***************************************************************************)
EXTENDS DateListener, WellFoundedInduction, TLAPS

--------------------------------------------------------------------------
(* The calendar. *)

Days == [y : Nat, m : Nat, d : Nat]
IsDay(t) == t \in Days /\ IsDate(t)
YearStart(y) == 365 * (y - 1) + ((y - 1) \div 4) - ((y - 1) \div 100) + ((y - 1) \div 400) + 1

\* A set of naturals with a member has a least one.
LEMMA Least ==
  ASSUME NEW S \in SUBSET Nat, S # {}
  PROVE  \E n \in S : \A m \in S : n <= m
<1>. DEFINE R == OpToRel(<, Nat)
<1>1. IsWellFoundedOn(R, Nat)
  BY NatLessThanWellFounded
<1>2. \A x, y \in Nat : x < y => <<x, y>> \in R
  BY DEF OpToRel
<1>. HIDE DEF R
<1>3. PICK n \in S : \A y \in S : ~(<<y, n>> \in R)
  BY <1>1, WFMin
<1>4. \A m \in S : ~(m < n)
  BY <1>2, <1>3
<1>. QED BY <1>3, <1>4

\* The number of a day, from that of the first of its year.
LEMMA DayNumberOf ==
  ASSUME NEW y \in Nat, NEW m \in Month, NEW d \in Nat
  PROVE  /\ DayNumber(Date(y, m, d)) =
              YearStart(y) + DaysBefore(m) + (IF Leap(y) /\ m > 2 THEN 1 ELSE 0) + d - 1
         /\ DaysBefore(m) \in Nat
         /\ DayNumber(Date(y, m, d)) \in Int
         /\ YearStart(y) \in Int
<1>1. DaysBefore(m) \in Nat
  BY DEF DaysBefore, Month
<1>2. DayNumber(Date(y, m, d)) =
              YearStart(y) + DaysBefore(m) + (IF Leap(y) /\ m > 2 THEN 1 ELSE 0) + d - 1
  BY <1>1 DEF DayNumber, YearStart, Date
<1>3. YearStart(y) \in Int
  BY DEF YearStart
<1> QED  BY <1>1, <1>2, <1>3

\* A year is as long as it is.
LEMMA YearStartStep ==
  ASSUME NEW y \in Nat
  PROVE  YearStart(y + 1) = YearStart(y) + (IF Leap(y) THEN 366 ELSE 365)
  BY DEF YearStart, Leap

\* Later years start later.
LEMMA YearStartMonotone ==
  ASSUME NEW y \in Nat, NEW z \in Nat, y <= z
  PROVE  YearStart(y) <= YearStart(z)
  BY DEF YearStart

\* A month ends before a later one of the year starts.
LEMMA MonthsFill ==
  ASSUME NEW y \in Nat, NEW m \in Month, NEW n \in Month, m < n
  PROVE  /\ MonthLength(y, m) \in 28..31
         /\ DaysBefore(m) + (IF Leap(y) /\ m > 2 THEN 1 ELSE 0) + MonthLength(y, m)
              <= DaysBefore(n) + (IF Leap(y) /\ n > 2 THEN 1 ELSE 0)
  BY DEF MonthLength, DaysBefore, Month

\* The months end within the year.
LEMMA YearsFill ==
  ASSUME NEW y \in Nat, NEW m \in Month
  PROVE  /\ MonthLength(y, m) \in 28..31
         /\ DaysBefore(m) + (IF Leap(y) /\ m > 2 THEN 1 ELSE 0) + MonthLength(y, m)
              <= (IF Leap(y) THEN 366 ELSE 365)
  BY DEF MonthLength, DaysBefore, Month

\* A month starts where the one before ends.
LEMMA MonthStep ==
  ASSUME NEW y \in Nat, NEW m \in 1..11
  PROVE  DaysBefore(m) + (IF Leap(y) /\ m > 2 THEN 1 ELSE 0) + MonthLength(y, m)
              = DaysBefore(m + 1) + (IF Leap(y) /\ m + 1 > 2 THEN 1 ELSE 0)
  BY DEF MonthLength, DaysBefore, Month

\* Every day of a year is in a month.
LEMMA SomeMonth ==
  ASSUME NEW y \in Nat, NEW k \in 0..(IF Leap(y) THEN 365 ELSE 364)
  PROVE  \E m \in Month :
           LET b == DaysBefore(m) + (IF Leap(y) /\ m > 2 THEN 1 ELSE 0)
           IN  b <= k /\ k < b + MonthLength(y, m)
<1> DEFINE b(m) == DaysBefore(m) + (IF Leap(y) /\ m > 2 THEN 1 ELSE 0)
           S == {m \in Month : k < b(m) + MonthLength(y, m)}
<1>1. b(12) + MonthLength(y, 12) = (IF Leap(y) THEN 366 ELSE 365)
  BY DEF DaysBefore, MonthLength
<1>2. 12 \in S
  BY <1>1 DEF Month
<1>3. PICK m \in S : \A n \in S : m <= n
  BY <1>2 DEF Month
<1>4. b(1) = 0
  BY DEF DaysBefore
<1>5. ASSUME m # 1 PROVE b(m) <= k
  <2>1. m - 1 \in 1..11 /\ m - 1 \notin S
    BY <1>3, <1>5 DEF Month
  <2>2. b(m - 1) + MonthLength(y, m - 1) = b((m - 1) + 1)
    BY <2>1, MonthStep
  <2>3. (m - 1) + 1 = m
    BY <2>1, <1>3 DEF Month
  <2>4. b(m - 1) + MonthLength(y, m - 1) = b(m)
    BY <2>2, <2>3
  <2>5. b(m - 1) \in Int /\ MonthLength(y, m - 1) \in Int
    BY <2>1 DEF DaysBefore, MonthLength
  <2>6. ~(k < b(m - 1) + MonthLength(y, m - 1))
    BY <2>1 DEF Month
  <2> HIDE DEF b
  <2> QED  BY <2>4, <2>5, <2>6
<1> QED  BY <1>3, <1>4, <1>5

\* Every number is in a year, and in one that DateOf looks at.
LEMMA SomeYear ==
  ASSUME NEW n \in Nat, n >= 1
  PROVE  \E y \in (n \div 366)..(n \div 365 + 1) :
           YearStart(y) <= n /\ n < YearStart(y + 1)
<1> DEFINE S == {y \in Nat : n < YearStart(y + 1)}
<1>1. n \in S
  BY DEF YearStart
<1>2. PICK y \in S : \A z \in S : y <= z
  <2> HIDE DEF S
  <2>1. S \in SUBSET Nat /\ n \in S
    BY <1>1 DEF S
  <2> QED  BY <2>1, Least
<1>3. y >= 1
  BY <1>2 DEF YearStart
<1>4. YearStart(y) <= n
  <2>1. y - 1 \in Nat /\ y - 1 \notin S
    BY <1>2, <1>3
  <2>2. (y - 1) + 1 = y
    BY <2>1
  <2>3. YearStart(y) \in Int
    BY DEF YearStart
  <2> QED  BY <2>1, <2>2, <2>3
<1>5. y >= n \div 366 /\ y <= n \div 365 + 1
  BY <1>2, <1>3, <1>4 DEF YearStart
<1> QED  BY <1>2, <1>4, <1>5

\* YearStart is the number of the first of January.
LEMMA YearStartIs ==
  ASSUME NEW y \in Nat
  PROVE  DayNumber(Date(y, 1, 1)) = YearStart(y)
  BY DEF DayNumber, Date, YearStart, DaysBefore

\* The day of a number is a day of the calendar, and has that number.
LEMMA DayOfNumber ==
  ASSUME NEW n \in Nat, n >= 1
  PROVE  IsDay(DateOf(n)) /\ DayNumber(DateOf(n)) = n
<1> DEFINE y == CHOOSE y \in (n \div 366)..(n \div 365 + 1) :
                  DayNumber(Date(y, 1, 1)) <= n /\ n < DayNumber(Date(y + 1, 1, 1))
           m == CHOOSE m \in Month :
                  /\ DayNumber(Date(y, m, 1)) <= n
                  /\ n < DayNumber(Date(y, m, 1)) + MonthLength(y, m)
           d == n - DayNumber(Date(y, m, 1)) + 1
<1>1. y \in Nat /\ YearStart(y) <= n /\ n < YearStart(y + 1)
  <2>1. PICK z \in (n \div 366)..(n \div 365 + 1) : YearStart(z) <= n /\ n < YearStart(z + 1)
    BY SomeYear
  <2>2. (n \div 366)..(n \div 365 + 1) \subseteq Nat
    OBVIOUS
  <2>3. \A x \in Nat : DayNumber(Date(x, 1, 1)) = YearStart(x)
                       /\ DayNumber(Date(x + 1, 1, 1)) = YearStart(x + 1)
    BY YearStartIs
  <2>4. y \in (n \div 366)..(n \div 365 + 1)
        /\ DayNumber(Date(y, 1, 1)) <= n /\ n < DayNumber(Date(y + 1, 1, 1))
    BY <2>1, <2>2, <2>3
  <2> QED  BY <2>2, <2>3, <2>4
<1> HIDE DEF y
<1>2. m \in Month /\ DayNumber(Date(y, m, 1)) <= n
      /\ n < DayNumber(Date(y, m, 1)) + MonthLength(y, m)
  <2>1. YearStart(y) \in Int /\ n - YearStart(y) \in 0..(IF Leap(y) THEN 365 ELSE 364)
    <3>1. YearStart(y) \in Int
      BY <1>1 DEF YearStart
    <3> QED  BY <1>1, <3>1, YearStartStep
  <2>2. PICK x \in Month : LET b == DaysBefore(x) + (IF Leap(y) /\ x > 2 THEN 1 ELSE 0)
                           IN  b <= n - YearStart(y) /\ n - YearStart(y) < b + MonthLength(y, x)
    BY <1>1, <2>1, SomeMonth
  <2>3. DayNumber(Date(y, x, 1)) = YearStart(y) + DaysBefore(x)
                                     + (IF Leap(y) /\ x > 2 THEN 1 ELSE 0) + 1 - 1
        /\ DaysBefore(x) \in Nat
    BY <1>1, DayNumberOf
  <2>4. MonthLength(y, x) \in Int
    BY DEF MonthLength
  <2>5. DayNumber(Date(y, x, 1)) <= n /\ n < DayNumber(Date(y, x, 1)) + MonthLength(y, x)
    BY <2>1, <2>2, <2>3, <2>4
  <2> QED  BY <2>5
<1> HIDE DEF m
<1>3. DayNumber(Date(y, m, 1)) \in Int
      /\ DayNumber(Date(y, m, 1)) = YearStart(y) + DaysBefore(m)
                                     + (IF Leap(y) /\ m > 2 THEN 1 ELSE 0) + 1 - 1
      /\ DaysBefore(m) \in Nat /\ YearStart(y) \in Int
  BY <1>1, <1>2, DayNumberOf
<1>4. MonthLength(y, m) \in Nat
  BY DEF MonthLength
<1>5. d \in Nat /\ d \in 1..MonthLength(y, m)
  BY <1>2, <1>3, <1>4
<1>6. DateOf(n) = Date(y, m, d)
  BY DEF DateOf, y, m
<1>7. DayNumber(Date(y, m, d)) = n
  <2>1. DayNumber(Date(y, m, d)) = YearStart(y) + DaysBefore(m)
                                     + (IF Leap(y) /\ m > 2 THEN 1 ELSE 0) + d - 1
    BY <1>1, <1>2, <1>5, DayNumberOf
  <2> QED  BY <1>3, <2>1
<1>8. IsDay(Date(y, m, d))
  BY <1>1, <1>2, <1>5 DEF IsDay, Days, IsDate, Date, Month
<1> QED  BY <1>6, <1>7, <1>8

\* What a day of the calendar is, and its number.
LEMMA NumberOfDay ==
  ASSUME NEW t, IsDay(t)
  PROVE  /\ t = Date(t.y, t.m, t.d)
         /\ t.y \in Nat /\ t.m \in Month /\ t.d \in Nat
         /\ t.d \in 1..MonthLength(t.y, t.m) /\ MonthLength(t.y, t.m) \in 28..31
         /\ DayNumber(t) \in Int /\ YearStart(t.y) \in Int /\ DaysBefore(t.m) \in Nat
         /\ DayNumber(t) = YearStart(t.y) + DaysBefore(t.m)
                             + (IF Leap(t.y) /\ t.m > 2 THEN 1 ELSE 0) + t.d - 1
<1>1. t = Date(t.y, t.m, t.d) /\ t.y \in Nat /\ t.m \in Month /\ t.d \in Nat
      /\ t.d \in 1..MonthLength(t.y, t.m)
  BY DEF IsDay, Days, IsDate, Date
<1>2. MonthLength(t.y, t.m) \in 28..31
  BY <1>1, YearsFill
<1>3. /\ DayNumber(Date(t.y, t.m, t.d)) \in Int /\ YearStart(t.y) \in Int /\ DaysBefore(t.m) \in Nat
         /\ DayNumber(Date(t.y, t.m, t.d)) = YearStart(t.y) + DaysBefore(t.m)
                             + (IF Leap(t.y) /\ t.m > 2 THEN 1 ELSE 0) + t.d - 1
  BY <1>1, DayNumberOf
<1> QED BY <1>1, <1>2, <1>3

\* The number of a day lies in its year, so a later year has greater numbers.
LEMMA DayInYear ==
  ASSUME NEW t, IsDay(t)
  PROVE  YearStart(t.y) <= DayNumber(t) /\ DayNumber(t) < YearStart(t.y + 1)
<1>1. DaysBefore(t.m) + (IF Leap(t.y) /\ t.m > 2 THEN 1 ELSE 0) + MonthLength(t.y, t.m)
              <= (IF Leap(t.y) THEN 366 ELSE 365)
  BY NumberOfDay, YearsFill
<1>2. YearStart(t.y + 1) = YearStart(t.y) + (IF Leap(t.y) THEN 366 ELSE 365)
  BY NumberOfDay, YearStartStep
<1> QED  BY <1>1, <1>2, NumberOfDay

\* A day of a later year is later.
LEMMA LaterYear ==
  ASSUME NEW t, IsDay(t), NEW u, IsDay(u), t.y < u.y
  PROVE  DayNumber(t) < DayNumber(u)
<1>1. YearStart(t.y + 1) <= YearStart(u.y)
  BY NumberOfDay, YearStartMonotone
<1>2. YearStart(t.y + 1) \in Int /\ YearStart(u.y) \in Int
  BY NumberOfDay DEF YearStart
<1> QED  BY <1>1, <1>2, DayInYear, NumberOfDay

\* Days of one year are ordered by month and day.
LEMMA LaterInYear ==
  ASSUME NEW t, IsDay(t), NEW u, IsDay(u), t.y = u.y,
         t.m < u.m \/ (t.m = u.m /\ t.d <= u.d)
  PROVE  DayNumber(t) <= DayNumber(u)
<1>1. CASE t.m < u.m
  <2>1. DaysBefore(t.m) + (IF Leap(t.y) /\ t.m > 2 THEN 1 ELSE 0) + MonthLength(t.y, t.m)
              <= DaysBefore(u.m) + (IF Leap(t.y) /\ u.m > 2 THEN 1 ELSE 0)
    BY <1>1, NumberOfDay, MonthsFill
  <2> QED  BY <1>1, <2>1, NumberOfDay
<1>2. CASE t.m = u.m /\ t.d <= u.d
  BY <1>2, NumberOfDay
<1> QED  BY <1>1, <1>2

\* plusDays, as long as it stays in the calendar.
LEMMA DaysOn ==
  ASSUME NEW t, IsDay(t), NEW k \in Int, DayNumber(t) + k >= 1
  PROVE  IsDay(PlusDays(t, k)) /\ DayNumber(PlusDays(t, k)) = DayNumber(t) + k
<1>1. DayNumber(t) + k \in Nat
  BY NumberOfDay
<1> QED  BY <1>1, DayOfNumber DEF PlusDays

\* What the TemporalAdjusters return, and how far away it is.
LEMMA AdjustedDays ==
  ASSUME NEW t, IsDay(t), DayNumber(t) >= 8, NEW dow \in DayOfWeek
  PROVE  /\ DayOfWeekOf(t) \in DayOfWeek
         /\ IsDay(NextDow(t, dow)) /\ DayOfWeekOf(NextDow(t, dow)) = dow
         /\ DayNumber(NextDow(t, dow)) - DayNumber(t) \in 1..7
         /\ IsDay(NextOrSameDow(t, dow)) /\ DayOfWeekOf(NextOrSameDow(t, dow)) = dow
         /\ DayNumber(NextOrSameDow(t, dow)) - DayNumber(t) \in 0..6
         /\ IsDay(PreviousDow(t, dow)) /\ DayOfWeekOf(PreviousDow(t, dow)) = dow
         /\ DayNumber(PreviousDow(t, dow)) - DayNumber(t) \in -7..-1
         /\ IsDay(PreviousOrSameDow(t, dow)) /\ DayOfWeekOf(PreviousOrSameDow(t, dow)) = dow
         /\ DayNumber(PreviousOrSameDow(t, dow)) - DayNumber(t) \in -6..0
<1> DEFINE n == DayNumber(t)
           w == DayOfWeekOf(t)
<1>1. n \in Nat /\ w = ((n + 6) % 7) + 1 /\ w \in 1..7 /\ n >= 8 /\ dow \in 1..7
  BY NumberOfDay DEF DayOfWeekOf, DayOfWeek
<1> HIDE DEF n, w
<1>2. ASSUME NEW k \in -7..7, ((n + k + 6) % 7) + 1 = dow
      PROVE  IsDay(PlusDays(t, k)) /\ DayOfWeekOf(PlusDays(t, k)) = dow
             /\ DayNumber(PlusDays(t, k)) - DayNumber(t) = k
  <2>1. IsDay(PlusDays(t, k)) /\ DayNumber(PlusDays(t, k)) = n + k
    BY <1>1, DaysOn DEF n
  <2> QED  BY <1>1, <1>2, <2>1 DEF DayOfWeekOf, n
<1>3. LET k == ((dow - w + 6) % 7) + 1 IN k \in 1..7 /\ ((n + k + 6) % 7) + 1 = dow
  BY <1>1
<1>4. LET k == (dow - w + 7) % 7 IN k \in 0..6 /\ ((n + k + 6) % 7) + 1 = dow
  BY <1>1
<1>5. LET k == -(((w - dow + 6) % 7) + 1) IN k \in -7..-1 /\ ((n + k + 6) % 7) + 1 = dow
  BY <1>1
<1>6. LET k == -((w - dow + 7) % 7) IN k \in -6..0 /\ ((n + k + 6) % 7) + 1 = dow
  BY <1>1
<1>7. /\ IsDay(NextDow(t, dow)) /\ DayOfWeekOf(NextDow(t, dow)) = dow
      /\ DayNumber(NextDow(t, dow)) - DayNumber(t) \in 1..7
  BY <1>2, <1>3 DEF NextDow, w
<1>8. /\ IsDay(NextOrSameDow(t, dow)) /\ DayOfWeekOf(NextOrSameDow(t, dow)) = dow
      /\ DayNumber(NextOrSameDow(t, dow)) - DayNumber(t) \in 0..6
  BY <1>2, <1>4 DEF NextOrSameDow, w
<1>9. /\ IsDay(PreviousDow(t, dow)) /\ DayOfWeekOf(PreviousDow(t, dow)) = dow
      /\ DayNumber(PreviousDow(t, dow)) - DayNumber(t) \in -7..-1
  BY <1>2, <1>5 DEF PreviousDow, w
<1>10. /\ IsDay(PreviousOrSameDow(t, dow)) /\ DayOfWeekOf(PreviousOrSameDow(t, dow)) = dow
       /\ DayNumber(PreviousOrSameDow(t, dow)) - DayNumber(t) \in -6..0
  BY <1>2, <1>6 DEF PreviousOrSameDow, w
<1> QED  BY <1>1, <1>7, <1>8, <1>9, <1>10 DEF w, DayOfWeek
--------------------------------------------------------------------------
(* The phrases and their calls. *)

HandlerNames ==
  {"number", "day_of_week", "day_number", "month_number", "tomorrow", "days_from_now", "week",
   "day_of_neighbour_week", "weekday", "spelled_month", "spelled_month_day", "year",
   "short_year", "full_year", "month_day_year", "format_full_date", "format_month_day"}
Arguments == Int \cup {"next", "previous", "last", "this"}
Calls == [on : HandlerNames, arg : Arguments]
CallOf(on, arg) == [on |-> on, arg |-> arg]

\* How many calls a month and a day are.
Count(p) == IF p.by = "month" THEN 1 ELSE IF p.by = "numbers" THEN 4 ELSE 3

\* The numbers of a day and a month are the calls k + 1 to k + 3 of c.
DayAndMonthCalls(p, c, k) ==
  \/ /\ c[k + 1] = CallOf("number", p.d) /\ c[k + 2] = CallOf("day_number", p.d)
     /\ c[k + 3] = CallOf("month_number", p.m)
  \/ /\ c[k + 1] = CallOf("month_number", p.m)
     /\ c[k + 2] = CallOf("number", p.d) /\ c[k + 3] = CallOf("day_number", p.d)

\* A month and a day are the calls k + 1 to k + Count(p) of c.
MonthAndDayCalls(p, c, k) ==
  /\ p.by = "month" => c[k + 1] = CallOf("spelled_month", p.m)
  /\ p.by = "month_first" =>
       /\ c[k + 1] = CallOf("spelled_month", p.m) /\ c[k + 2] = CallOf("number", p.d)
       /\ c[k + 3] = CallOf("spelled_month_day", 0)
  /\ p.by = "day_first" =>
       /\ c[k + 1] = CallOf("number", p.d) /\ c[k + 2] = CallOf("spelled_month", p.m)
       /\ c[k + 3] = CallOf("spelled_month_day", 0)
  /\ p.by = "numbers" =>
       DayAndMonthCalls(p, c, k) /\ c[k + 4] = CallOf("format_month_day", 0)

YearCall(p) ==
  IF p.which = "full" THEN CallOf("full_year", p.y) ELSE CallOf("year", p.which)

\* The arguments of the calls.
LEMMA NumbersAndNames ==
  /\ \A n \in NumberedDay \cup Month \cup DayOfWeek \cup Nat : n \in Arguments
  /\ 0 \in Arguments
  /\ \A w \in NeighbourYears \cup NeighbourWeeks \cup {"next", "previous", "this"} : w \in Arguments
  BY DEF Arguments, NumberedDay, Month, DayOfWeek, NeighbourYears, NeighbourWeeks

\* A call is a handler and an argument.
LEMMA CallsAreCalls ==
  \A on \in HandlerNames, arg \in Arguments : CallOf(on, arg) \in Calls
  BY DEF Calls, CallOf

\* A year is one call.
LEMMA YearShape ==
  ASSUME NEW p, NamesYear(p)
  PROVE  parse_year(p) = <<YearCall(p)>> /\ YearCall(p) \in Calls
<1>1. p.which # "full" => p.which \in Arguments
  BY NumbersAndNames DEF NamesYear
<1>2. p.which = "full" => p.y \in Arguments
  BY NumbersAndNames DEF NamesYear
<1>3. "full_year" \in HandlerNames /\ "year" \in HandlerNames
  BY DEF HandlerNames
<1>4. parse_year(p) = <<YearCall(p)>>
  BY DEF parse_year, full_year, neighbour_year, Call, YearCall, CallOf
<1>5. YearCall(p) \in Calls
  BY <1>1, <1>2, <1>3, CallsAreCalls DEF YearCall
<1> QED  BY <1>4, <1>5

\* Calls put one behind the other, and the facts about the sequences that they are.
Three(k, l, m)         == <<k>> \o <<l>> \o <<m>>
FirstTwo(k, l, m, o)   == (<<k>> \o <<l>>) \o <<m>> \o <<o>>
MiddleTwo(k, l, m, o)  == <<k>> \o (<<l>> \o <<m>>) \o <<o>>
Around(y, c, z)        == <<y>> \o c \o <<z>>
Behind(c, y, z)        == c \o <<y>> \o <<z>>

Holds1(c, k)                == c \in Seq(Calls) /\ Len(c) = 1 /\ c[1] = k
Holds2(c, k, l)             == c \in Seq(Calls) /\ Len(c) = 2 /\ c[1] = k /\ c[2] = l
Holds3(c, k, l, m)          ==
  c \in Seq(Calls) /\ Len(c) = 3 /\ c[1] = k /\ c[2] = l /\ c[3] = m
Holds4(c, k, l, m, o)       ==
  c \in Seq(Calls) /\ Len(c) = 4 /\ c[1] = k /\ c[2] = l /\ c[3] = m /\ c[4] = o
Holds5(c, k, l, m, o, q)    ==
  /\ c \in Seq(Calls) /\ Len(c) = 5
  /\ c[1] = k /\ c[2] = l /\ c[3] = m /\ c[4] = o /\ c[5] = q
Holds6(c, k, l, m, o, q, r) ==
  /\ c \in Seq(Calls) /\ Len(c) = 6
  /\ c[1] = k /\ c[2] = l /\ c[3] = m /\ c[4] = o /\ c[5] = q /\ c[6] = r

\* One call, and one with a call on both sides or two behind it.
LEMMA OneInARow ==
  ASSUME NEW k \in Calls, NEW y \in Calls, NEW z \in Calls
  PROVE  /\ Holds1(<<k>>, k)
         /\ Holds3(Around(y, <<k>>, z), y, k, z) /\ Holds3(Behind(<<k>>, y, z), k, y, z)
  BY DEF Holds1, Holds3, Around, Behind

\* Two calls.
LEMMA TwoInARow ==
  ASSUME NEW k \in Calls, NEW l \in Calls
  PROVE  Holds2(<<k>> \o <<l>>, k, l)
  BY DEF Holds2

\* Three calls, alone and with others.
LEMMA ThreeInARow ==
  ASSUME NEW k \in Calls, NEW l \in Calls, NEW m \in Calls, NEW y \in Calls, NEW z \in Calls
  PROVE  /\ Holds3(Three(k, l, m), k, l, m)
         /\ Holds5(Around(y, Three(k, l, m), z), y, k, l, m, z)
         /\ Holds5(Behind(Three(k, l, m), y, z), k, l, m, y, z)
<1>1. Holds3(Three(k, l, m), k, l, m)
  BY DEF Holds3, Three
<1>2. Holds5(Around(y, Three(k, l, m), z), y, k, l, m, z)
  BY DEF Holds5, Three, Around
<1>3. Holds5(Behind(Three(k, l, m), y, z), k, l, m, y, z)
  BY DEF Holds5, Three, Behind
<1> QED  BY <1>1, <1>2, <1>3

\* Four calls, alone and with others.
LEMMA FourInARow ==
  ASSUME NEW k \in Calls, NEW l \in Calls, NEW m \in Calls, NEW o \in Calls,
         NEW y \in Calls, NEW z \in Calls
  PROVE  \A c \in {FirstTwo(k, l, m, o), MiddleTwo(k, l, m, o)} :
           /\ Holds4(c, k, l, m, o)
           /\ Holds6(Around(y, c, z), y, k, l, m, o, z)
           /\ Holds6(Behind(c, y, z), k, l, m, o, y, z)
<1>1. Holds4(FirstTwo(k, l, m, o), k, l, m, o) /\ Holds4(MiddleTwo(k, l, m, o), k, l, m, o)
  BY DEF Holds4, FirstTwo, MiddleTwo
<1>2. Holds6(Around(y, FirstTwo(k, l, m, o), z), y, k, l, m, o, z)
  BY DEF Holds6, FirstTwo, Around
<1>3. Holds6(Around(y, MiddleTwo(k, l, m, o), z), y, k, l, m, o, z)
  BY DEF Holds6, MiddleTwo, Around
<1>4. Holds6(Behind(FirstTwo(k, l, m, o), y, z), k, l, m, o, y, z)
  BY DEF Holds6, FirstTwo, Behind
<1>5. Holds6(Behind(MiddleTwo(k, l, m, o), y, z), k, l, m, o, y, z)
  BY DEF Holds6, MiddleTwo, Behind
<1> QED  BY <1>1, <1>2, <1>3, <1>4, <1>5

\* The parts of a month and a day, as they are put together.
LEMMA MonthAndDayParts ==
  ASSUME NEW p, NamesMonthAndDay(p)
  PROVE  LET month == CallOf("spelled_month", p.m)
             n     == CallOf("number", p.d)
             both  == CallOf("spelled_month_day", 0)
             dn    == CallOf("day_number", p.d)
             mn    == CallOf("month_number", p.m)
             f     == CallOf("format_month_day", 0)
         IN  /\ month \in Calls /\ n \in Calls /\ both \in Calls
             /\ dn \in Calls /\ mn \in Calls /\ f \in Calls
             /\ p.by = "month" => month_and_day(p) = <<month>>
             /\ p.by = "month_first" => month_and_day(p) = Three(month, n, both)
             /\ p.by = "day_first" => month_and_day(p) = Three(n, month, both)
             /\ p.by = "numbers" =>
                  \/ month_and_day(p) = FirstTwo(n, dn, mn, f)
                  \/ month_and_day(p) = MiddleTwo(mn, n, dn, f)
<1> DEFINE month == CallOf("spelled_month", p.m)
           n     == CallOf("number", p.d)
           both  == CallOf("spelled_month_day", 0)
           dn    == CallOf("day_number", p.d)
           mn    == CallOf("month_number", p.m)
           f     == CallOf("format_month_day", 0)
<1>1. p.m \in Arguments /\ p.d \in Arguments /\ 0 \in Arguments
  BY NumbersAndNames DEF NamesMonthAndDay
<1>2. /\ "spelled_month" \in HandlerNames /\ "number" \in HandlerNames
      /\ "spelled_month_day" \in HandlerNames /\ "day_number" \in HandlerNames
      /\ "month_number" \in HandlerNames /\ "format_month_day" \in HandlerNames
  BY DEF HandlerNames
<1>3. /\ month \in Calls /\ n \in Calls /\ both \in Calls
      /\ dn \in Calls /\ mn \in Calls /\ f \in Calls
  BY <1>1, <1>2, CallsAreCalls
<1>4. /\ spelled_month(p.m) = <<month>> /\ number(p.d) = <<n>>
      /\ Call("spelled_month_day", 0) = <<both>> /\ Call("day_number", p.d) = <<dn>>
      /\ Call("month_number", p.m) = <<mn>> /\ Call("format_month_day", 0) = <<f>>
  BY DEF spelled_month, number, Call, CallOf
<1> HIDE DEF month, n, both, dn, mn, f
<1>5. p.by = "month" => month_and_day(p) = <<month>>
  BY <1>4 DEF month_and_day
<1>6. p.by = "month_first" => month_and_day(p) = Three(month, n, both)
  BY <1>4 DEF month_and_day, spelled_month_day, Three
<1>7. p.by = "day_first" => month_and_day(p) = Three(n, month, both)
  BY <1>4 DEF month_and_day, spelled_month_day, Three
<1>8. ASSUME p.by = "numbers"
      PROVE  \/ month_and_day(p) = FirstTwo(n, dn, mn, f)
             \/ month_and_day(p) = MiddleTwo(mn, n, dn, f)
  <2>1. DayAndMonth(p.first, p.second).day = p.d /\ DayAndMonth(p.first, p.second).month = p.m
    BY <1>8 DEF NamesMonthAndDay
  <2>2. month_and_day(p) = format_month_day(p.first, p.second)
    BY <1>8 DEF month_and_day
  <2>3. \/ month_and_day(p) = (number(p.d) \o Call("day_number", p.d)) \o Call("month_number", p.m)
                                \o Call("format_month_day", 0)
        \/ month_and_day(p) = Call("month_number", p.m) \o (number(p.d) \o Call("day_number", p.d))
                                \o Call("format_month_day", 0)
    BY <2>1, <2>2 DEF format_month_day, day_and_month
  <2> QED  BY <1>4, <2>3 DEF FirstTwo, MiddleTwo
<1> QED  BY <1>3, <1>5, <1>6, <1>7, <1>8 DEF month, n, both, dn, mn, f

\* The calls of a phrase, one by one.
Shape(p) ==
  LET c == p.calls
  IN  /\ c \in Seq(Calls)
      /\ p.form = "weekday" =>
           /\ Len(c) = 2
           /\ c[1] = CallOf("day_of_week", p.dow) /\ c[2] = CallOf("weekday", p.which)
      /\ p.form = "weekday_of_week" =>
           /\ Len(c) = 3
           /\ c[1] = CallOf("day_of_week", p.dow) /\ c[2] = CallOf("week", p.which)
           /\ c[3] = CallOf("day_of_neighbour_week", 0)
      /\ p.form = "today"    => Len(c) = 0
      /\ p.form = "tomorrow" => Len(c) = 1 /\ c[1] = CallOf("tomorrow", 0)
      /\ p.form = "days"     =>
           Len(c) = 2 /\ c[1] = CallOf("number", p.n) /\ c[2] = CallOf("days_from_now", 0)
      /\ p.form = "week"     => Len(c) = 1 /\ c[1] = CallOf("week", p.which)
      /\ p.form = "year"     => Len(c) = 1 /\ c[1] = YearCall(p)
      /\ p.form = "month_day" => Len(c) = Count(p) /\ MonthAndDayCalls(p, c, 0)
      /\ p.form = "year_month_day" =>
           /\ Len(c) = Count(p) + 2
           /\ c[1] = YearCall(p) /\ MonthAndDayCalls(p, c, 1)
           /\ c[Count(p) + 2] = CallOf("month_day_year", 0)
      /\ p.form = "month_day_year" =>
           /\ Len(c) = Count(p) + 2
           /\ MonthAndDayCalls(p, c, 0) /\ c[Count(p) + 1] = YearCall(p)
           /\ c[Count(p) + 2] = CallOf("month_day_year", 0)
      /\ p.form = "full_date" =>
           /\ Len(c) = 5
           /\ DayAndMonthCalls(p, c, 0)
           /\ c[4] = (IF p.short THEN CallOf("short_year", p.y - 2000)
                                ELSE CallOf("full_year", p.y))
           /\ c[5] = CallOf("format_full_date", 0)

\* Call is the sequence of one call.
LEMMA OneCall ==
  ASSUME NEW on \in HandlerNames, NEW arg \in Arguments
  PROVE  Call(on, arg) = <<CallOf(on, arg)>> /\ CallOf(on, arg) \in Calls
  BY CallsAreCalls DEF Call, CallOf

\* The names used below are names of handlers.
LEMMA NamesOfHandlers ==
  /\ "number" \in HandlerNames /\ "day_of_week" \in HandlerNames /\ "day_number" \in HandlerNames
  /\ "month_number" \in HandlerNames /\ "tomorrow" \in HandlerNames
  /\ "days_from_now" \in HandlerNames /\ "week" \in HandlerNames
  /\ "day_of_neighbour_week" \in HandlerNames /\ "weekday" \in HandlerNames
  /\ "short_year" \in HandlerNames /\ "full_year" \in HandlerNames
  /\ "month_day_year" \in HandlerNames /\ "format_full_date" \in HandlerNames
  BY DEF HandlerNames

\* The calls of the phrases without a month.
LEMMA RelativeShapes ==
  ASSUME NEW p, IsPhrase(p),
         p.form \in {"weekday", "weekday_of_week", "today", "tomorrow", "days", "week", "year"}
  PROVE  Shape(p)
<1>1. CASE p.form = "weekday"
  <2>1. p.which \in Arguments /\ p.dow \in Arguments /\ p.calls = weekday(p.which, p.dow)
    BY <1>1, NumbersAndNames DEF IsPhrase
  <2> DEFINE a == CallOf("day_of_week", p.dow)
             b == CallOf("weekday", p.which)
  <2>2. a \in Calls /\ b \in Calls /\ p.calls = <<a>> \o <<b>>
    BY <2>1, OneCall, NamesOfHandlers DEF weekday, day_of_week
  <2> HIDE DEF a, b
  <2>3. p.calls \in Seq(Calls) /\ Len(p.calls) = 2 /\ p.calls[1] = a /\ p.calls[2] = b
    BY <2>2
  <2> QED  BY <1>1, <2>3 DEF Shape, a, b
<1>2. CASE p.form = "weekday_of_week"
  <2>1. p.which \in Arguments /\ p.dow \in Arguments /\ 0 \in Arguments
        /\ p.calls = weekday_of_week(p.dow, p.which)
    BY <1>2, NumbersAndNames DEF IsPhrase
  <2> DEFINE a == CallOf("day_of_week", p.dow)
             b == CallOf("week", p.which)
             e == CallOf("day_of_neighbour_week", 0)
  <2>2. a \in Calls /\ b \in Calls /\ e \in Calls /\ p.calls = Three(a, b, e)
    BY <2>1, OneCall, NamesOfHandlers DEF Three, weekday_of_week, day_of_week, neighbour_week
  <2> HIDE DEF a, b, e
  <2>3. p.calls \in Seq(Calls) /\ Len(p.calls) = 3
        /\ p.calls[1] = a /\ p.calls[2] = b /\ p.calls[3] = e
    BY <2>2, ThreeInARow DEF Holds3
  <2> QED  BY <1>2, <2>3 DEF Shape, a, b, e
<1>3. CASE p.form = "today"
  <2>1. p.calls = <<>>
    BY <1>3 DEF IsPhrase
  <2>2. p.calls \in Seq(Calls) /\ Len(p.calls) = 0
    BY <2>1
  <2> QED  BY <1>3, <2>2 DEF Shape
<1>4. CASE p.form = "tomorrow"
  <2> DEFINE a == CallOf("tomorrow", 0)
  <2>1. a \in Calls /\ p.calls = <<a>>
    BY <1>4, OneCall, NamesOfHandlers, NumbersAndNames DEF IsPhrase
  <2> HIDE DEF a
  <2>2. p.calls \in Seq(Calls) /\ Len(p.calls) = 1 /\ p.calls[1] = a
    BY <2>1
  <2> QED  BY <1>4, <2>2 DEF Shape, a
<1>5. CASE p.form = "days"
  <2>1. p.n \in Arguments /\ 0 \in Arguments /\ p.calls = days_from_now(p.n)
    BY <1>5, NumbersAndNames DEF IsPhrase
  <2> DEFINE a == CallOf("number", p.n)
             b == CallOf("days_from_now", 0)
  <2>2. a \in Calls /\ b \in Calls /\ p.calls = <<a>> \o <<b>>
    BY <2>1, OneCall, NamesOfHandlers DEF days_from_now, number
  <2> HIDE DEF a, b
  <2>3. p.calls \in Seq(Calls) /\ Len(p.calls) = 2 /\ p.calls[1] = a /\ p.calls[2] = b
    BY <2>2
  <2> QED  BY <1>5, <2>3 DEF Shape, a, b
<1>6. CASE p.form = "week"
  <2>1. p.which \in Arguments /\ p.calls = neighbour_week(p.which)
    BY <1>6, NumbersAndNames DEF IsPhrase
  <2> DEFINE a == CallOf("week", p.which)
  <2>2. a \in Calls /\ p.calls = <<a>>
    BY <2>1, OneCall, NamesOfHandlers DEF neighbour_week
  <2> HIDE DEF a
  <2>3. p.calls \in Seq(Calls) /\ Len(p.calls) = 1 /\ p.calls[1] = a
    BY <2>2
  <2> QED  BY <1>6, <2>3 DEF Shape, a
<1>7. CASE p.form = "year"
  <2>1. NamesYear(p) /\ p.calls = parse_year(p)
    BY <1>7 DEF IsPhrase
  <2>2. p.calls = <<YearCall(p)>> /\ YearCall(p) \in Calls
    BY <2>1, YearShape
  <2>3. p.calls \in Seq(Calls) /\ Len(p.calls) = 1 /\ p.calls[1] = YearCall(p)
    BY <2>2
  <2> QED  BY <1>7, <2>3 DEF Shape
<1> QED  BY <1>1, <1>2, <1>3, <1>4, <1>5, <1>6, <1>7

\* A month and a day before and behind other calls.
LEMMA MonthAndDayShape ==
  ASSUME NEW p, NamesMonthAndDay(p), NEW y \in Calls, NEW z \in Calls
  PROVE  LET c == month_and_day(p)
             a == Around(y, c, z)
             b == Behind(c, y, z)
         IN  /\ c \in Seq(Calls) /\ Len(c) = Count(p) /\ MonthAndDayCalls(p, c, 0)
             /\ a \in Seq(Calls) /\ Len(a) = Count(p) + 2
             /\ a[1] = y /\ MonthAndDayCalls(p, a, 1) /\ a[Count(p) + 2] = z
             /\ b \in Seq(Calls) /\ Len(b) = Count(p) + 2
             /\ MonthAndDayCalls(p, b, 0) /\ b[Count(p) + 1] = y /\ b[Count(p) + 2] = z
<1> DEFINE month == CallOf("spelled_month", p.m)
           n     == CallOf("number", p.d)
           both  == CallOf("spelled_month_day", 0)
           dn    == CallOf("day_number", p.d)
           mn    == CallOf("month_number", p.m)
           f     == CallOf("format_month_day", 0)
           c     == month_and_day(p)
           a     == Around(y, c, z)
           b     == Behind(c, y, z)
<1>1. /\ month \in Calls /\ n \in Calls /\ both \in Calls
      /\ dn \in Calls /\ mn \in Calls /\ f \in Calls
      /\ p.by = "month" => c = <<month>>
      /\ p.by = "month_first" => c = Three(month, n, both)
      /\ p.by = "day_first" => c = Three(n, month, both)
      /\ p.by = "numbers" => c = FirstTwo(n, dn, mn, f) \/ c = MiddleTwo(mn, n, dn, f)
  BY MonthAndDayParts
<1> HIDE DEF month, n, both, dn, mn, f, c
<1>2. CASE p.by = "month"
  <2>1. Holds1(c, month) /\ Holds3(a, y, month, z) /\ Holds3(b, month, y, z)
    BY <1>1, <1>2, OneInARow
  <2> HIDE DEF a, b
  <2>2. /\ c \in Seq(Calls) /\ Len(c) = Count(p) /\ MonthAndDayCalls(p, c, 0)
             /\ a \in Seq(Calls) /\ Len(a) = Count(p) + 2
             /\ a[1] = y /\ MonthAndDayCalls(p, a, 1) /\ a[Count(p) + 2] = z
             /\ b \in Seq(Calls) /\ Len(b) = Count(p) + 2
             /\ MonthAndDayCalls(p, b, 0) /\ b[Count(p) + 1] = y /\ b[Count(p) + 2] = z
    BY <1>2, <2>1 DEF Holds1, Holds3, Count, MonthAndDayCalls, month
  <2> QED  BY <2>2 DEF a, b, c
<1>3. CASE p.by = "month_first"
  <2>1. /\ Holds3(c, month, n, both) /\ Holds5(a, y, month, n, both, z)
        /\ Holds5(b, month, n, both, y, z)
    <3>1. c = Three(month, n, both)
      BY <1>1, <1>3
    <3>2. /\ Holds3(Three(month, n, both), month, n, both)
          /\ Holds5(Around(y, Three(month, n, both), z), y, month, n, both, z)
          /\ Holds5(Behind(Three(month, n, both), y, z), month, n, both, y, z)
      BY <1>1, ThreeInARow
    <3> QED  BY <3>1, <3>2
  <2> HIDE DEF a, b
  <2>2. /\ c \in Seq(Calls) /\ Len(c) = Count(p) /\ MonthAndDayCalls(p, c, 0)
             /\ a \in Seq(Calls) /\ Len(a) = Count(p) + 2
             /\ a[1] = y /\ MonthAndDayCalls(p, a, 1) /\ a[Count(p) + 2] = z
             /\ b \in Seq(Calls) /\ Len(b) = Count(p) + 2
             /\ MonthAndDayCalls(p, b, 0) /\ b[Count(p) + 1] = y /\ b[Count(p) + 2] = z
    <3>1. c \in Seq(Calls) /\ Len(c) = Count(p) /\ MonthAndDayCalls(p, c, 0)
      BY <1>3, <2>1 DEF Holds3, Count, MonthAndDayCalls, month, n, both
    <3>2. /\ a \in Seq(Calls) /\ Len(a) = Count(p) + 2
          /\ a[1] = y /\ MonthAndDayCalls(p, a, 1) /\ a[Count(p) + 2] = z
      BY <1>3, <2>1 DEF Holds5, Count, MonthAndDayCalls, month, n, both
    <3>3. /\ b \in Seq(Calls) /\ Len(b) = Count(p) + 2
          /\ MonthAndDayCalls(p, b, 0) /\ b[Count(p) + 1] = y /\ b[Count(p) + 2] = z
      BY <1>3, <2>1 DEF Holds5, Count, MonthAndDayCalls, month, n, both
    <3> QED  BY <3>1, <3>2, <3>3
  <2> QED  BY <2>2 DEF a, b, c
<1>4. CASE p.by = "day_first"
  <2>1. /\ Holds3(c, n, month, both) /\ Holds5(a, y, n, month, both, z)
        /\ Holds5(b, n, month, both, y, z)
    <3>1. c = Three(n, month, both)
      BY <1>1, <1>4
    <3>2. /\ Holds3(Three(n, month, both), n, month, both)
          /\ Holds5(Around(y, Three(n, month, both), z), y, n, month, both, z)
          /\ Holds5(Behind(Three(n, month, both), y, z), n, month, both, y, z)
      BY <1>1, ThreeInARow
    <3> QED  BY <3>1, <3>2
  <2> HIDE DEF a, b
  <2>2. /\ c \in Seq(Calls) /\ Len(c) = Count(p) /\ MonthAndDayCalls(p, c, 0)
             /\ a \in Seq(Calls) /\ Len(a) = Count(p) + 2
             /\ a[1] = y /\ MonthAndDayCalls(p, a, 1) /\ a[Count(p) + 2] = z
             /\ b \in Seq(Calls) /\ Len(b) = Count(p) + 2
             /\ MonthAndDayCalls(p, b, 0) /\ b[Count(p) + 1] = y /\ b[Count(p) + 2] = z
    <3>1. c \in Seq(Calls) /\ Len(c) = Count(p) /\ MonthAndDayCalls(p, c, 0)
      BY <1>4, <2>1 DEF Holds3, Count, MonthAndDayCalls, month, n, both
    <3>2. /\ a \in Seq(Calls) /\ Len(a) = Count(p) + 2
          /\ a[1] = y /\ MonthAndDayCalls(p, a, 1) /\ a[Count(p) + 2] = z
      BY <1>4, <2>1 DEF Holds5, Count, MonthAndDayCalls, month, n, both
    <3>3. /\ b \in Seq(Calls) /\ Len(b) = Count(p) + 2
          /\ MonthAndDayCalls(p, b, 0) /\ b[Count(p) + 1] = y /\ b[Count(p) + 2] = z
      BY <1>4, <2>1 DEF Holds5, Count, MonthAndDayCalls, month, n, both
    <3> QED  BY <3>1, <3>2, <3>3
  <2> QED  BY <2>2 DEF a, b, c
<1>5. CASE p.by = "numbers"
  <2>1. \/ /\ Holds4(c, n, dn, mn, f) /\ Holds6(a, y, n, dn, mn, f, z)
           /\ Holds6(b, n, dn, mn, f, y, z)
        \/ /\ Holds4(c, mn, n, dn, f) /\ Holds6(a, y, mn, n, dn, f, z)
           /\ Holds6(b, mn, n, dn, f, y, z)
    <3>1. CASE c = FirstTwo(n, dn, mn, f)
      <4>1. /\ Holds4(c, n, dn, mn, f) /\ Holds6(Around(y, c, z), y, n, dn, mn, f, z)
            /\ Holds6(Behind(c, y, z), n, dn, mn, f, y, z)
        BY <1>1, <3>1, FourInARow
      <4> QED  BY <4>1
    <3>2. CASE c = MiddleTwo(mn, n, dn, f)
      <4>1. /\ Holds4(c, mn, n, dn, f) /\ Holds6(Around(y, c, z), y, mn, n, dn, f, z)
            /\ Holds6(Behind(c, y, z), mn, n, dn, f, y, z)
        BY <1>1, <3>2, FourInARow
      <4> QED  BY <4>1
    <3> QED  BY <1>1, <1>5, <3>1, <3>2
  <2> HIDE DEF a, b
  <2>2. /\ c \in Seq(Calls) /\ Len(c) = Count(p) /\ MonthAndDayCalls(p, c, 0)
             /\ a \in Seq(Calls) /\ Len(a) = Count(p) + 2
             /\ a[1] = y /\ MonthAndDayCalls(p, a, 1) /\ a[Count(p) + 2] = z
             /\ b \in Seq(Calls) /\ Len(b) = Count(p) + 2
             /\ MonthAndDayCalls(p, b, 0) /\ b[Count(p) + 1] = y /\ b[Count(p) + 2] = z
    BY <1>5, <2>1 DEF Holds4, Holds6, Count, MonthAndDayCalls, DayAndMonthCalls, n, dn, mn, f
  <2> QED  BY <2>2 DEF a, b, c
<1> QED  BY <1>2, <1>3, <1>4, <1>5 DEF NamesMonthAndDay

\* The calls of the phrases with a year, or a month and a day.
LEMMA DateShapes ==
  ASSUME NEW p, IsPhrase(p), p.form \in {"month_day", "year_month_day", "month_day_year"}
  PROVE  Shape(p)
<1> DEFINE z == CallOf("month_day_year", 0)
<1>1. z \in Calls /\ Call("month_day_year", 0) = <<z>>
  BY OneCall, NumbersAndNames, NamesOfHandlers
<1>2. NamesMonthAndDay(p)
  BY DEF IsPhrase
<1> HIDE DEF z
<1>3. CASE p.form = "month_day"
  <2>1. p.calls = month_and_day(p)
    BY <1>3 DEF IsPhrase
  <2>2. p.calls \in Seq(Calls) /\ Len(p.calls) = Count(p) /\ MonthAndDayCalls(p, p.calls, 0)
    BY <1>1, <1>2, <2>1, MonthAndDayShape
  <2> QED  BY <1>3, <2>2 DEF Shape
<1>4. CASE p.form = "year_month_day"
  <2>1. NamesYear(p) /\ p.calls = parse_year(p) \o month_and_day(p) \o Call("month_day_year", 0)
    BY <1>4 DEF IsPhrase
  <2>2. YearCall(p) \in Calls /\ p.calls = Around(YearCall(p), month_and_day(p), z)
    BY <1>1, <2>1, YearShape DEF Around
  <2>3. /\ p.calls \in Seq(Calls) /\ Len(p.calls) = Count(p) + 2
        /\ p.calls[1] = YearCall(p) /\ MonthAndDayCalls(p, p.calls, 1)
        /\ p.calls[Count(p) + 2] = z
    BY <1>1, <1>2, <2>2, MonthAndDayShape
  <2> QED  BY <1>4, <2>3 DEF Shape, z
<1>5. CASE p.form = "month_day_year"
  <2>1. NamesYear(p) /\ p.calls = month_and_day(p) \o parse_year(p) \o Call("month_day_year", 0)
    BY <1>5 DEF IsPhrase
  <2>2. YearCall(p) \in Calls /\ p.calls = Behind(month_and_day(p), YearCall(p), z)
    BY <1>1, <2>1, YearShape DEF Behind
  <2>3. /\ p.calls \in Seq(Calls) /\ Len(p.calls) = Count(p) + 2
        /\ MonthAndDayCalls(p, p.calls, 0) /\ p.calls[Count(p) + 1] = YearCall(p)
        /\ p.calls[Count(p) + 2] = z
    BY <1>1, <1>2, <2>2, MonthAndDayShape
  <2> QED  BY <1>5, <2>3 DEF Shape, z
<1> QED  BY <1>3, <1>4, <1>5

\* The calls of a date in numbers.
LEMMA FullDateShape ==
  ASSUME NEW p, IsPhrase(p), p.form = "full_date"
  PROVE  Shape(p)
<1> DEFINE n  == CallOf("number", p.d)
           dn == CallOf("day_number", p.d)
           mn == CallOf("month_number", p.m)
           y  == IF p.short THEN CallOf("short_year", p.y - 2000) ELSE CallOf("full_year", p.y)
           z  == CallOf("format_full_date", 0)
           year == IF p.short THEN short_year(p.y - 2000) ELSE full_year(p.y)
<1>1. /\ p.by = "numbers" /\ NamesMonthAndDay(p)
      /\ p.calls = format_full_date(p.first, p.second, year)
      /\ IF p.short THEN p.y \in 2000..2099 ELSE p.y \in Nat
  BY DEF IsPhrase
<1>2. n \in Calls /\ dn \in Calls /\ mn \in Calls
  BY <1>1, MonthAndDayParts
<1>3. y \in Calls /\ year = <<y>>
  <2>1. CASE p.short
    <3>1. p.y - 2000 \in Arguments
      BY <1>1, <2>1 DEF Arguments
    <3> QED  BY <2>1, <3>1, OneCall, NamesOfHandlers DEF short_year
  <2>2. CASE ~p.short
    <3>1. p.y \in Arguments
      BY <1>1, <2>2 DEF Arguments
    <3> QED  BY <2>2, <3>1, OneCall, NamesOfHandlers DEF full_year
  <2> QED  BY <2>1, <2>2
<1>4. z \in Calls /\ Call("format_full_date", 0) = <<z>>
  BY OneCall, NumbersAndNames, NamesOfHandlers
<1>5. Call("day_number", p.d) = <<dn>> /\ Call("month_number", p.m) = <<mn>> /\ number(p.d) = <<n>>
  BY DEF Call, CallOf, number
<1>6. DayAndMonth(p.first, p.second).day = p.d /\ DayAndMonth(p.first, p.second).month = p.m
  BY <1>1 DEF NamesMonthAndDay
<1> HIDE DEF n, dn, mn, y, z, year
<1>7. \/ p.calls = ((<<n>> \o <<dn>>) \o <<mn>>) \o <<y>> \o <<z>>
      \/ p.calls = (<<mn>> \o (<<n>> \o <<dn>>)) \o <<y>> \o <<z>>
  BY <1>1, <1>3, <1>4, <1>5, <1>6 DEF format_full_date, day_and_month
<1>8. \/ Holds5(p.calls, n, dn, mn, y, z)
      \/ Holds5(p.calls, mn, n, dn, y, z)
  <2>1. Holds5(((<<n>> \o <<dn>>) \o <<mn>>) \o <<y>> \o <<z>>, n, dn, mn, y, z)
    BY <1>2, <1>3, <1>4 DEF Holds5
  <2>2. Holds5((<<mn>> \o (<<n>> \o <<dn>>)) \o <<y>> \o <<z>>, mn, n, dn, y, z)
    BY <1>2, <1>3, <1>4 DEF Holds5
  <2> QED  BY <1>7, <2>1, <2>2, Zenon
<1> HIDE <1>7
<1> QED  BY <1>8 DEF Shape, Holds5, DayAndMonthCalls, n, dn, mn, y, z

\* The calls of every phrase.
LEMMA PhraseShape ==
  ASSUME NEW p, IsPhrase(p)
  PROVE  Shape(p)
<1>1. p.form \in {"weekday", "weekday_of_week", "today", "tomorrow", "days", "week", "year",
                  "month_day", "year_month_day", "month_day_year", "full_date"}
  BY DEF IsPhrase
<1> QED  BY <1>1, RelativeShapes, DateShapes, FullDateShape

YearNames == {"year", "short_year", "full_year"}

\* No handler is called twice for a phrase, and at most one year is set.
Once(c) ==
  \A i, j \in 1..Len(c) :
    \/ c[i].on = c[j].on
    \/ c[i].on \in YearNames /\ c[j].on \in YearNames
    => i = j

\* What the context of a call can hold.
ArgumentsFit(c) ==
  \A i \in 1..Len(c) :
    /\ c[i].on \in {"number", "day_number"} => c[i].arg \in NumberedDay
    /\ c[i].on \in {"month_number", "spelled_month"} => c[i].arg \in Month
    /\ c[i].on = "day_of_week" => c[i].arg \in DayOfWeek
    /\ c[i].on = "week" => c[i].arg \in NeighbourWeeks
    /\ c[i].on = "year" => c[i].arg \in NeighbourYears
    /\ c[i].on = "full_year" => c[i].arg \in Nat
    /\ c[i].on = "short_year" => 2000 + c[i].arg \in Nat

\* Phrases without a month call each handler once.
LEMMA RelativeCallsFit ==
  ASSUME NEW p, IsPhrase(p), Shape(p),
         p.form \in {"weekday", "weekday_of_week", "today", "tomorrow", "days", "week"}
  PROVE  Once(p.calls) /\ ArgumentsFit(p.calls)
<1>1. CASE p.form = "weekday"
  <2>1. \A i \in 1..Len(p.calls) : i \in {1, 2}
    <3>1. Len(p.calls) = 2
      BY <1>1 DEF Shape
    <3> QED  BY <3>1
  <2> QED  BY <1>1, <2>1 DEF IsPhrase, Shape, Once, ArgumentsFit, CallOf, YearNames, DayOfWeek
<1>2. CASE p.form = "weekday_of_week"
  <2>1. \A i \in 1..Len(p.calls) : i \in {1, 2, 3}
    <3>1. Len(p.calls) = 3
      BY <1>2 DEF Shape
    <3> QED  BY <3>1
  <2>2. Once(p.calls)
    BY <1>2, <2>1 DEF Shape, Once, CallOf, YearNames
  <2>3. ArgumentsFit(p.calls)
    BY <1>2, <2>1 DEF IsPhrase, Shape, ArgumentsFit, CallOf
  <2> QED  BY <2>2, <2>3
<1>3. CASE p.form = "today"
  BY <1>3 DEF Shape, Once, ArgumentsFit
<1>4. CASE p.form \in {"tomorrow", "week"}
  <2>1. \A i \in 1..Len(p.calls) : i = 1
    <3>1. Len(p.calls) = 1
      BY <1>4 DEF Shape
    <3> QED  BY <3>1
  <2> QED  BY <1>4, <2>1 DEF IsPhrase, Shape, Once, ArgumentsFit, CallOf, YearNames
<1>5. CASE p.form = "days"
  <2>1. \A i \in 1..Len(p.calls) : i \in {1, 2}
    <3>1. Len(p.calls) = 2
      BY <1>5 DEF Shape
    <3> QED  BY <3>1
  <2> QED  BY <1>5, <2>1 DEF IsPhrase, Shape, Once, ArgumentsFit, CallOf, YearNames
<1> QED  BY <1>1, <1>2, <1>3, <1>4, <1>5

\* The names in the calls of a month and a day.
MonthAndDayNames ==
  {"number", "spelled_month", "spelled_month_day", "day_number", "month_number", "format_month_day"}

\* A month and a day call each handler once.
LEMMA MonthAndDayFits ==
  ASSUME NEW p, NamesMonthAndDay(p), NEW c, NEW k \in {0, 1}, MonthAndDayCalls(p, c, k)
  PROVE  /\ \A i, j \in (k + 1)..(k + Count(p)) : c[i].on = c[j].on => i = j
         /\ \A i \in (k + 1)..(k + Count(p)) :
              /\ c[i].on \in MonthAndDayNames
              /\ c[i].on \in {"number", "day_number"} => c[i].arg \in NumberedDay
              /\ c[i].on \in {"month_number", "spelled_month"} => c[i].arg \in Month
<1>1. CASE p.by = "month"
  <2>1. \A i \in (k + 1)..(k + Count(p)) : i = k + 1
    BY <1>1 DEF Count
  <2> QED  BY <1>1, <2>1 DEF MonthAndDayCalls, CallOf, MonthAndDayNames,
                              NamesMonthAndDay
<1>2. CASE p.by \in {"month_first", "day_first"}
  <2>1. \A i \in (k + 1)..(k + Count(p)) : i \in {k + 1, k + 2, k + 3}
    BY <1>2 DEF Count
  <2> QED  BY <1>2, <2>1 DEF MonthAndDayCalls, CallOf, MonthAndDayNames,
                              NamesMonthAndDay
<1>3. CASE p.by = "numbers"
  <2>1. \A i \in (k + 1)..(k + Count(p)) : i \in {k + 1, k + 2, k + 3, k + 4}
    BY <1>3 DEF Count
  <2> QED  BY <1>3, <2>1 DEF MonthAndDayCalls, DayAndMonthCalls, CallOf, MonthAndDayNames,
                              NamesMonthAndDay
<1> QED  BY <1>1, <1>2, <1>3 DEF NamesMonthAndDay

\* So do phrases with a month and a day and a year.
LEMMA DateCallsFit ==
  ASSUME NEW p, IsPhrase(p), Shape(p),
         p.form \in {"year", "month_day", "year_month_day", "month_day_year"}
  PROVE  Once(p.calls) /\ ArgumentsFit(p.calls)
<1> DEFINE c == p.calls
           n == Count(p)
<1>1. n \in {1, 3, 4}
  BY DEF Count
<1>2. ASSUME p.form # "month_day"
      PROVE  /\ YearCall(p).on \in YearNames
             /\ YearCall(p).on = "year" => YearCall(p).arg \in NeighbourYears
             /\ YearCall(p).on = "full_year" => YearCall(p).arg \in Nat
             /\ YearCall(p).on # "short_year"
  <2>1. NamesYear(p)
    BY <1>2 DEF IsPhrase
  <2> QED  BY <2>1 DEF NamesYear, YearCall, CallOf, YearNames
<1>3. CallOf("month_day_year", 0).on = "month_day_year"
  BY DEF CallOf
<1>4. MonthAndDayNames \cap (YearNames \cup {"month_day_year"}) = {}
  BY DEF MonthAndDayNames, YearNames
<1>5. p.form # "year" => NamesMonthAndDay(p)
  BY DEF IsPhrase
<1>6. CASE p.form = "year"
  <2>1. \A i \in 1..Len(c) : i = 1
    <3>1. Len(c) = 1
      BY <1>6 DEF Shape
    <3> QED  BY <3>1
  <2>2. c[1] = YearCall(p)
    BY <1>6 DEF Shape
  <2> QED  BY <1>2, <1>6, <2>1, <2>2 DEF Once, ArgumentsFit, YearNames
<1>7. CASE p.form = "month_day"
  <2>1. Len(c) = n /\ MonthAndDayCalls(p, c, 0)
    BY <1>7 DEF Shape
  <2>2. /\ \A i, j \in 1..n : c[i].on = c[j].on => i = j
        /\ \A i \in 1..n :
              /\ c[i].on \in MonthAndDayNames
              /\ c[i].on \in {"number", "day_number"} => c[i].arg \in NumberedDay
              /\ c[i].on \in {"month_number", "spelled_month"} => c[i].arg \in Month
    <3>1. (0 + 1)..(0 + n) = 1..n
      BY <1>1
    <3> QED  BY <1>5, <1>7, <2>1, <3>1, MonthAndDayFits
  <2> HIDE DEF n, c
  <2> QED  BY <2>1, <2>2 DEF c, Once, ArgumentsFit, YearNames, MonthAndDayNames
<1>8. CASE p.form = "year_month_day"
  <2>1. Len(c) = n + 2 /\ c[1] = YearCall(p) /\ MonthAndDayCalls(p, c, 1)
        /\ c[n + 2] = CallOf("month_day_year", 0)
    BY <1>8 DEF Shape
  <2>2. /\ \A i, j \in 2..(n + 1) : c[i].on = c[j].on => i = j
        /\ \A i \in 2..(n + 1) :
              /\ c[i].on \in MonthAndDayNames
              /\ c[i].on \in {"number", "day_number"} => c[i].arg \in NumberedDay
              /\ c[i].on \in {"month_number", "spelled_month"} => c[i].arg \in Month
    <3>1. (1 + 1)..(1 + n) = 2..(n + 1)
      BY <1>1
    <3> QED  BY <1>5, <1>8, <2>1, <3>1, MonthAndDayFits
  <2>3. \A i \in 1..Len(c) : i = 1 \/ i \in 2..(n + 1) \/ i = n + 2
    BY <1>1, <2>1
  <2> HIDE DEF n, c
  <2>4. Once(c)
    BY <1>2, <1>3, <1>4, <1>8, <2>1, <2>2, <2>3 DEF Once, YearNames
  <2>5. ArgumentsFit(c)
    BY <1>2, <1>3, <1>8, <2>1, <2>2, <2>3 DEF ArgumentsFit, YearNames, MonthAndDayNames
  <2> QED  BY <2>4, <2>5 DEF c
<1>9. CASE p.form = "month_day_year"
  <2>1. Len(c) = n + 2 /\ c[n + 1] = YearCall(p) /\ MonthAndDayCalls(p, c, 0)
        /\ c[n + 2] = CallOf("month_day_year", 0)
    BY <1>9 DEF Shape
  <2>2. /\ \A i, j \in 1..n : c[i].on = c[j].on => i = j
        /\ \A i \in 1..n :
              /\ c[i].on \in MonthAndDayNames
              /\ c[i].on \in {"number", "day_number"} => c[i].arg \in NumberedDay
              /\ c[i].on \in {"month_number", "spelled_month"} => c[i].arg \in Month
    <3>1. (0 + 1)..(0 + n) = 1..n
      BY <1>1
    <3> QED  BY <1>5, <1>9, <2>1, <3>1, MonthAndDayFits
  <2>3. \A i \in 1..Len(c) : i \in 1..n \/ i = n + 1 \/ i = n + 2
    BY <1>1, <2>1
  <2> HIDE DEF n, c
  <2>4. Once(c)
    BY <1>2, <1>3, <1>4, <1>9, <2>1, <2>2, <2>3 DEF Once, YearNames
  <2>5. ArgumentsFit(c)
    BY <1>2, <1>3, <1>9, <2>1, <2>2, <2>3 DEF ArgumentsFit, YearNames, MonthAndDayNames
  <2> QED  BY <2>4, <2>5 DEF c
<1> QED  BY <1>6, <1>7, <1>8, <1>9

\* So do dates in numbers.
LEMMA FullDateCallsFit ==
  ASSUME NEW p, IsPhrase(p), Shape(p), p.form = "full_date"
  PROVE  Once(p.calls) /\ ArgumentsFit(p.calls)
<1>1. p.m \in Month /\ p.d \in NumberedDay /\ IF p.short THEN p.y \in 2000..2099 ELSE p.y \in Nat
  BY DEF IsPhrase, NamesMonthAndDay
<1>2. \A i \in 1..Len(p.calls) : i \in {1, 2, 3, 4, 5}
  <2>1. Len(p.calls) = 5
    BY DEF Shape
  <2> QED  BY <2>1
<1>3. DayAndMonthCalls(p, p.calls, 0)
      /\ p.calls[4] = (IF p.short THEN CallOf("short_year", p.y - 2000)
                                ELSE CallOf("full_year", p.y))
      /\ p.calls[5] = CallOf("format_full_date", 0)
  BY DEF Shape
<1>4. \/ /\ p.calls[1] = CallOf("number", p.d) /\ p.calls[2] = CallOf("day_number", p.d)
         /\ p.calls[3] = CallOf("month_number", p.m)
      \/ /\ p.calls[1] = CallOf("month_number", p.m)
         /\ p.calls[2] = CallOf("number", p.d) /\ p.calls[3] = CallOf("day_number", p.d)
  BY <1>3 DEF DayAndMonthCalls
<1>5. p.calls[4].on \in {"short_year", "full_year"}
      /\ (p.calls[4].on = "full_year" => p.calls[4].arg \in Nat)
      /\ (p.calls[4].on = "short_year" => 2000 + p.calls[4].arg \in Nat)
  BY <1>1, <1>3 DEF CallOf
<1> DEFINE c == p.calls
<1>8. c[5].on = "format_full_date"
  BY <1>3 DEF CallOf
<1>9. \/ /\ c[1].on = "number" /\ c[1].arg = p.d /\ c[2].on = "day_number" /\ c[2].arg = p.d
         /\ c[3].on = "month_number" /\ c[3].arg = p.m
      \/ /\ c[1].on = "month_number" /\ c[1].arg = p.m
         /\ c[2].on = "number" /\ c[2].arg = p.d /\ c[3].on = "day_number" /\ c[3].arg = p.d
  BY <1>4 DEF CallOf
<1> HIDE DEF c
<1>10. \A i \in 1..Len(c) : i \in {1, 2, 3, 4, 5}
  BY <1>2 DEF c
<1>11. c[4].on \in {"short_year", "full_year"}
      /\ (c[4].on = "full_year" => c[4].arg \in Nat)
      /\ (c[4].on = "short_year" => 2000 + c[4].arg \in Nat)
  BY <1>5 DEF c
<1>6. Once(p.calls)
  <2>1. Once(c)
    BY <1>8, <1>9, <1>10, <1>11, SMTT(20) DEF Once, YearNames
  <2> QED  BY <2>1 DEF c
<1>7. ArgumentsFit(p.calls)
  <2>1. ArgumentsFit(c)
    BY <1>1, <1>8, <1>9, <1>10, <1>11 DEF ArgumentsFit
  <2> QED  BY <2>1 DEF c
<1> QED  BY <1>6, <1>7

\* Every phrase of the grammar has its shape and calls each handler once.
LEMMA CallsFit ==
  ASSUME NEW p, IsPhrase(p)
  PROVE  Shape(p) /\ Once(p.calls) /\ ArgumentsFit(p.calls)
<1>1. p.form \in {"weekday", "weekday_of_week", "today", "tomorrow", "days", "week", "year",
                  "month_day", "year_month_day", "month_day_year", "full_date"}
  BY DEF IsPhrase
<1> QED  BY <1>1, PhraseShape, RelativeCallsFit, DateCallsFit, FullDateCallsFit
--------------------------------------------------------------------------
(* The inductive invariant. *)

\* How many handlers have returned.
Returned == Len(phrase.calls) - Len(calls)

\* What is still to be called is the rest of the phrase's calls.
CallsLeft ==
  /\ phrase \in Phrases
  /\ calls \in Seq(Calls) /\ Len(calls) <= Len(phrase.calls)
  /\ \A j \in 1..Len(calls) : calls[j] = phrase.calls[Returned + j]

ClocksAreDays ==
  /\ IsDay(made) /\ made.y >= 1970
  /\ IsDay(now) /\ DayNumber(made) <= DayNumber(now)

Fields ==
  [number : 0..31, year : Nat, monthNum : 0..12, dayNum : 0..31,
   dayOfWeek : 0..7, month : 0..12, dateTime : Days]

\* The field of the call c holds what it gave; the clock shows one of the years.
FieldRead(f, c, years) ==
  /\ c.on = "number"        => f.number = c.arg
  /\ c.on = "day_of_week"   => f.dayOfWeek = c.arg
  /\ c.on = "day_number"    => f.dayNum = c.arg
  /\ c.on = "month_number"  => f.monthNum = c.arg
  /\ c.on = "spelled_month" => f.month = c.arg
  /\ c.on = "short_year"    => f.year = 2000 + c.arg
  /\ c.on = "full_year"     => f.year = c.arg
  /\ c.on = "year" => \E y \in years : f.year = y + Ahead(c.arg)
FieldsAreRead ==
  \A j \in 1..Returned : FieldRead(self, phrase.calls[j], made.y..now.y)

\* What the handlers make of the date t.
ToWeekday(t, which, dow) ==
  IF which = "next" \/ (which = "this" /\ DayOfWeekOf(t) < dow) THEN NextDow(t, dow)
  ELSE IF which = "previous" \/ DayOfWeekOf(t) > dow THEN PreviousDow(t, dow) ELSE t
ToWeek(t, which) ==
  IF which = "next" THEN NextDow(t, 1)
  ELSE IF which = "last" THEN PreviousOrSameDow(PlusDays(t, -7), 1) ELSE PreviousOrSameDow(t, 1)
ToYear(p, t) == IF p.which = "full" THEN Date(p.y, 1, 1) ELSE t

\* The date t after j calls of a month and a day.
AfterMonthAndDay(p, t, j) ==
  LET first == InNextMonthDay(t, p.m, 1)
  IN  IF p.by = "numbers" THEN IF j < 4 THEN t ELSE WithMonth(WithDay(t, p.d), p.m)
      ELSE IF j < (IF p.by = "day_first" THEN 2 ELSE 1) THEN t
      ELSE IF j < 3 THEN first ELSE InNextMonthDay(first, p.m, p.d)

\* No handler throws for the month and the day on the date t.
FitsIn(p, t) ==
  LET first == InNextMonthDay(t, p.m, 1)
  IN  IF p.by = "numbers" THEN Holds(t, p.d)
      ELSE p.by # "month" => IsMonthDay(p.m, p.d) /\ Holds(WithMonth(first, p.m), p.d)

NumericStart(p, s) == IF p.short THEN s ELSE Date(p.y, 1, 1)

\* The date after k calls of the phrase p for the listener made on s, when the
\* field year is v.
DateAfter(p, s, k, v) ==
  LET n == Count(p)
  IN  CASE p.form = "weekday" -> IF k < 2 THEN s ELSE ToWeekday(s, p.which, p.dow)
        [] p.form = "weekday_of_week" ->
             IF k < 2 THEN s
             ELSE IF k = 2 THEN ToWeek(s, p.which)
             ELSE NextOrSameDow(ToWeek(s, p.which), p.dow)
        [] p.form = "today" -> s
        [] p.form = "tomorrow" -> IF k = 0 THEN s ELSE PlusDays(s, 1)
        [] p.form = "days" -> IF k < 2 THEN s ELSE PlusDays(s, p.n)
        [] p.form = "week" -> IF k = 0 THEN s ELSE ToWeek(s, p.which)
        [] p.form = "year" -> IF k = 0 THEN s ELSE ToYear(p, s)
        [] p.form = "month_day" -> AfterMonthAndDay(p, s, k)
        [] p.form = "year_month_day" ->
             IF k = 0 THEN s
             ELSE IF k <= n + 1 THEN AfterMonthAndDay(p, ToYear(p, s), k - 1)
             ELSE WithYear(AfterMonthAndDay(p, ToYear(p, s), n), v)
        [] p.form = "month_day_year" ->
             IF k <= n THEN AfterMonthAndDay(p, s, k)
             ELSE IF k = n + 1 THEN ToYear(p, AfterMonthAndDay(p, s, n))
             ELSE WithYear(ToYear(p, AfterMonthAndDay(p, s, n)), v)
        [] p.form = "full_date" ->
             IF k < 4 THEN s
             ELSE IF k = 4 THEN NumericStart(p, s)
             ELSE WithMonth(WithYear(WithDay(NumericStart(p, s), p.d), p.y), p.m)

DateIsReached == self.dateTime = DateAfter(phrase, made, Returned, self.year)

\* What has not thrown in k calls of the phrase p has fitted.
Fitted(p, s, k) ==
  /\ p.form = "month_day" /\ k = Count(p) => FitsIn(p, s)
  /\ p.form = "year_month_day" /\ k > Count(p) => FitsIn(p, ToYear(p, s))
  /\ p.form = "month_day_year" /\ k >= Count(p) => FitsIn(p, s)
  /\ p.form = "full_date" /\ k = 5 => Holds(NumericStart(p, s), p.d)

WhatFitted == Fitted(phrase, made, Returned)

StatusIsOfCalls ==
  /\ status \in {"running", "done", "thrown"}
  /\ status = "done" => calls = <<>>
  /\ status = "thrown" =>
       /\ calls # <<>>
       /\ \/ Head(calls).on = "spelled_month_day" /\ ~MonthDayFits
          \/ Head(calls).on \in {"format_full_date", "format_month_day"} /\ ~DayFits

IInv ==
  /\ CallsLeft /\ ClocksAreDays /\ self \in Fields
  /\ FieldsAreRead /\ DateIsReached /\ WhatFitted /\ StatusIsOfCalls

--------------------------------------------------------------------------
(* What a handler does to the fields, by the call it answers. *)

Effect(c) ==
  /\ self' = [number |-> self'.number, year |-> self'.year, monthNum |-> self'.monthNum,
               dayNum |-> self'.dayNum, dayOfWeek |-> self'.dayOfWeek,
               month |-> self'.month, dateTime |-> self'.dateTime]
  /\ self'.number = IF c.on = "number" THEN c.arg ELSE self.number
  /\ self'.dayOfWeek = IF c.on = "day_of_week" THEN c.arg ELSE self.dayOfWeek
  /\ self'.dayNum = IF c.on = "day_number" THEN c.arg ELSE self.dayNum
  /\ self'.monthNum = IF c.on = "month_number" THEN c.arg ELSE self.monthNum
  /\ self'.month = IF c.on = "spelled_month" THEN c.arg ELSE self.month
  /\ self'.year = IF c.on = "short_year" THEN 2000 + c.arg
                  ELSE IF c.on = "full_year" THEN c.arg
                  ELSE IF c.on = "year" THEN now.y + Ahead(c.arg) ELSE self.year

DateEffect(c) ==
  LET t == self.dateTime
      u == self'.dateTime
  IN  /\ c.on \in {"number", "day_of_week", "day_number", "month_number", "year", "short_year"}
           => u = t
      /\ c.on = "tomorrow" => u = PlusDays(t, 1)
      /\ c.on = "days_from_now" => u = PlusDays(t, self.number)
      /\ c.on = "week" => u = ToWeek(t, c.arg)
      /\ c.on = "day_of_neighbour_week" => u = NextOrSameDow(t, self.dayOfWeek)
      /\ c.on = "weekday" => u = ToWeekday(t, c.arg, self.dayOfWeek)
      /\ c.on = "spelled_month" => u = InNextMonthDay(t, c.arg, 1)
      /\ c.on = "spelled_month_day" => MonthDayFits /\ u = InNextMonthDay(t, self.month, self.number)
      /\ c.on = "full_year" => u = Date(c.arg, 1, 1)
      /\ c.on = "month_day_year" => u = WithYear(t, self.year)
      /\ c.on = "format_full_date" =>
           DayFits /\ u = WithMonth(WithYear(WithDay(t, self.dayNum), self.year), self.monthNum)
      /\ c.on = "format_month_day" =>
           DayFits /\ u = WithMonth(WithDay(t, self.dayNum), self.monthNum)

\* The next call is the next one of the phrase.
LEMMA NextCall ==
  ASSUME CallsLeft, calls # <<>>, IsPhrase(phrase)
  PROVE  /\ Head(calls) = phrase.calls[Returned + 1]
         /\ Returned \in Nat /\ Returned + 1 \in 1..Len(phrase.calls)
         /\ phrase.calls \in Seq(Calls)
<1>1. phrase.calls \in Seq(Calls)
  BY CallsFit DEF Shape
<1>2. Len(calls) \in Nat /\ Len(calls) >= 1 /\ Head(calls) = calls[1]
  BY DEF CallsLeft
<1>3. Len(phrase.calls) \in Nat
  BY <1>1
<1> QED  BY <1>1, <1>2, <1>3 DEF CallsLeft, Returned

\* When a handler has returned one more of the calls is behind.
LEMMA CallsLeftStep ==
  ASSUME CallsLeft, calls # <<>>, IsPhrase(phrase), phrase' = phrase, calls' = Tail(calls)
  PROVE  CallsLeft' /\ Returned' = Returned + 1
<1>1. phrase.calls \in Seq(Calls)
  BY CallsFit DEF Shape
<1>2. Len(calls) \in Nat /\ Len(calls) >= 1
  BY DEF CallsLeft
<1>3. Len(phrase.calls) \in Nat
  BY <1>1
<1>4. Tail(calls) \in Seq(Calls) /\ Len(Tail(calls)) = Len(calls) - 1
      /\ \A j \in 1..Len(Tail(calls)) : Tail(calls)[j] = calls[j + 1]
  BY <1>2 DEF CallsLeft
<1>5. Returned' = Returned + 1
  BY <1>2, <1>3, <1>4 DEF Returned
<1>6. ASSUME NEW j \in 1..Len(calls') PROVE calls'[j] = phrase'.calls[Returned' + j]
  <2>1. j + 1 \in 1..Len(calls) /\ calls'[j] = calls[j + 1]
    BY <1>2, <1>4, <1>6
  <2>2. calls[j + 1] = phrase.calls[Returned + (j + 1)]
    BY <2>1 DEF CallsLeft
  <2>3. Returned \in Int
    BY <1>2, <1>3 DEF Returned
  <2>4. Returned + (j + 1) = Returned' + j
    BY <1>5, <2>3
  <2> QED  BY <2>1, <2>2, <2>4
<1>7. CallsLeft'
  BY <1>2, <1>3, <1>4, <1>6 DEF CallsLeft
<1> QED  BY <1>5, <1>7

\* A handler returns with its effect, or throws and leaves the fields alone.
LEMMA HandlerStep ==
  ASSUME self \in Fields, Handler, Head(calls).on = "week" => Head(calls).arg \in NeighbourWeeks
  PROVE  LET c == Head(calls)
         IN  /\ status = "running" /\ calls # <<>>
             /\ UNCHANGED <<phrase, made, now>>
             /\ \/ status' = status /\ calls' = Tail(calls) /\ Effect(c) /\ DateEffect(c)
                \/ /\ status' = "thrown" /\ UNCHANGED <<self, calls>>
                   /\ \/ c.on = "spelled_month_day" /\ ~MonthDayFits
                      \/ c.on \in {"format_full_date", "format_month_day"} /\ ~DayFits
<1> DEFINE c == Head(calls)
<1>1. CASE ExitNumber
  <2>1. Running /\ Returns
    BY <1>1 DEF ExitNumber, Called
  <2>2. c.on = "number"
    BY <1>1 DEF ExitNumber, Called
  <2>3. self' = [number |-> c.arg, year |-> self.year, monthNum |-> self.monthNum,
                 dayNum |-> self.dayNum, dayOfWeek |-> self.dayOfWeek, month |-> self.month,
                 dateTime |-> self.dateTime]
    BY <1>1 DEF ExitNumber, SetField, Arg, Today, Fields
  <2>4. Effect(c)
    BY <2>2, <2>3 DEF Effect
  <2>5. DateEffect(c)
    BY <2>2, <2>3 DEF DateEffect
  <2> QED  BY <2>1, <2>4, <2>5 DEF Running, Returns
<1>2. CASE ExitDayOfWeek
  <2>1. Running /\ Returns
    BY <1>2 DEF ExitDayOfWeek, Called
  <2>2. c.on = "day_of_week"
    BY <1>2 DEF ExitDayOfWeek, Called
  <2>3. self' = [number |-> self.number, year |-> self.year, monthNum |-> self.monthNum,
                 dayNum |-> self.dayNum, dayOfWeek |-> c.arg, month |-> self.month,
                 dateTime |-> self.dateTime]
    BY <1>2 DEF ExitDayOfWeek, SetField, Arg, Today, Fields
  <2>4. Effect(c)
    BY <2>2, <2>3 DEF Effect
  <2>5. DateEffect(c)
    BY <2>2, <2>3 DEF DateEffect
  <2> QED  BY <2>1, <2>4, <2>5 DEF Running, Returns
<1>3. CASE ExitDayNumber
  <2>1. Running /\ Returns
    BY <1>3 DEF ExitDayNumber, Called
  <2>2. c.on = "day_number"
    BY <1>3 DEF ExitDayNumber, Called
  <2>3. self' = [number |-> self.number, year |-> self.year, monthNum |-> self.monthNum,
                 dayNum |-> c.arg, dayOfWeek |-> self.dayOfWeek, month |-> self.month,
                 dateTime |-> self.dateTime]
    BY <1>3 DEF ExitDayNumber, SetField, Arg, Today, Fields
  <2>4. Effect(c)
    BY <2>2, <2>3 DEF Effect
  <2>5. DateEffect(c)
    BY <2>2, <2>3 DEF DateEffect
  <2> QED  BY <2>1, <2>4, <2>5 DEF Running, Returns
<1>4. CASE ExitMonthNumber
  <2>1. Running /\ Returns
    BY <1>4 DEF ExitMonthNumber, Called
  <2>2. c.on = "month_number"
    BY <1>4 DEF ExitMonthNumber, Called
  <2>3. self' = [number |-> self.number, year |-> self.year, monthNum |-> c.arg,
                 dayNum |-> self.dayNum, dayOfWeek |-> self.dayOfWeek, month |-> self.month,
                 dateTime |-> self.dateTime]
    BY <1>4 DEF ExitMonthNumber, SetField, Arg, Today, Fields
  <2>4. Effect(c)
    BY <2>2, <2>3 DEF Effect
  <2>5. DateEffect(c)
    BY <2>2, <2>3 DEF DateEffect
  <2> QED  BY <2>1, <2>4, <2>5 DEF Running, Returns
<1>5. CASE ExitTomorrow
  <2>1. Running /\ Returns
    BY <1>5 DEF ExitTomorrow, Called
  <2>2. Effect(c) /\ DateEffect(c)
    BY <1>5 DEF ExitTomorrow, Called, Arg, Today, Effect, DateEffect, SetDate, Fields
  <2> QED  BY <2>1, <2>2 DEF Running, Returns
<1>6. CASE ExitDaysFromNow
  <2>1. Running /\ Returns
    BY <1>6 DEF ExitDaysFromNow, Called
  <2>2. Effect(c) /\ DateEffect(c)
    BY <1>6 DEF ExitDaysFromNow, Called, Arg, Today, Effect, DateEffect, SetDate, Fields
  <2> QED  BY <2>1, <2>2 DEF Running, Returns
<1>7. CASE ExitWeek
  <2>1. Running /\ Returns
    BY <1>7 DEF ExitWeek, Called
  <2>2. Effect(c) /\ DateEffect(c)
    BY <1>7 DEF ExitWeek, Called, Arg, Today, Effect, DateEffect, SetDate, ToWeek,
                   NeighbourWeeks, Fields
  <2> QED  BY <2>1, <2>2 DEF Running, Returns
<1>8. CASE ExitDayOfNeighbourWeek
  <2>1. Running /\ Returns
    BY <1>8 DEF ExitDayOfNeighbourWeek, Called
  <2>2. Effect(c) /\ DateEffect(c)
    BY <1>8 DEF ExitDayOfNeighbourWeek, Called, Arg, Today, Effect, DateEffect, SetDate, Fields
  <2> QED  BY <2>1, <2>2 DEF Running, Returns
<1>9. CASE ExitWeekday
  <2>1. Running /\ Returns
    BY <1>9 DEF ExitWeekday, Called
  <2>2. Effect(c) /\ DateEffect(c)
    BY <1>9 DEF ExitWeekday, Called, Arg, Today, Effect, DateEffect, SetDate, ToWeekday, Fields
  <2> QED  BY <2>1, <2>2 DEF Running, Returns
<1>10. CASE ExitSpelledMonth
  <2>1. Running /\ Returns
    BY <1>10 DEF ExitSpelledMonth, Called
  <2>2. c.on = "spelled_month"
    BY <1>10 DEF ExitSpelledMonth, Called
  <2>3. self' = [number |-> self.number, year |-> self.year, monthNum |-> self.monthNum,
                 dayNum |-> self.dayNum, dayOfWeek |-> self.dayOfWeek, month |-> c.arg,
                 dateTime |-> InNextMonthDay(self.dateTime, c.arg, 1)]
    BY <1>10 DEF ExitSpelledMonth, SetField, Arg, Today, Fields
  <2>4. Effect(c)
    BY <2>2, <2>3 DEF Effect
  <2>5. DateEffect(c)
    BY <2>2, <2>3 DEF DateEffect
  <2> QED  BY <2>1, <2>4, <2>5 DEF Running, Returns
<1>11. CASE ExitSpelledMonthDay
  <2>1. Running /\ Returns
    BY <1>11 DEF ExitSpelledMonthDay, Called
  <2>2. Effect(c) /\ DateEffect(c)
    BY <1>11 DEF ExitSpelledMonthDay, Called, Arg, Today, Effect, DateEffect, SetDate, Fields
  <2> QED  BY <2>1, <2>2 DEF Running, Returns
<1>12. CASE ExitYear
  <2>1. Running /\ Returns
    BY <1>12 DEF ExitYear, Called
  <2>2. Effect(c) /\ DateEffect(c)
    BY <1>12 DEF ExitYear, Called, Arg, Today, Effect, DateEffect, Fields
  <2> QED  BY <2>1, <2>2 DEF Running, Returns
<1>13. CASE ExitShortYear
  <2>1. Running /\ Returns
    BY <1>13 DEF ExitShortYear, Called
  <2>2. Effect(c) /\ DateEffect(c)
    BY <1>13 DEF ExitShortYear, Called, Arg, Today, Effect, DateEffect, Fields
  <2> QED  BY <2>1, <2>2 DEF Running, Returns
<1>14. CASE ExitFullYear
  <2>1. Running /\ Returns
    BY <1>14 DEF ExitFullYear, Called
  <2>2. c.on = "full_year"
    BY <1>14 DEF ExitFullYear, Called
  <2>3. self' = [number |-> self.number, year |-> c.arg, monthNum |-> self.monthNum,
                 dayNum |-> self.dayNum, dayOfWeek |-> self.dayOfWeek, month |-> self.month,
                 dateTime |-> Date(c.arg, 1, 1)]
    BY <1>14 DEF ExitFullYear, SetField, Arg, Today, Fields
  <2>4. Effect(c)
    BY <2>2, <2>3 DEF Effect
  <2>5. DateEffect(c)
    BY <2>2, <2>3 DEF DateEffect
  <2> QED  BY <2>1, <2>4, <2>5 DEF Running, Returns
<1>15. CASE ExitMonthDayYear
  <2>1. Running /\ Returns
    BY <1>15 DEF ExitMonthDayYear, Called
  <2>2. Effect(c) /\ DateEffect(c)
    BY <1>15 DEF ExitMonthDayYear, Called, Arg, Today, Effect, DateEffect, SetDate, Fields
  <2> QED  BY <2>1, <2>2 DEF Running, Returns
<1>16. CASE ExitFormatFullDate
  <2>1. Running /\ Returns
    BY <1>16 DEF ExitFormatFullDate, Called
  <2>2. Effect(c) /\ DateEffect(c)
    BY <1>16 DEF ExitFormatFullDate, Called, Arg, Today, Effect, DateEffect, SetDate, Fields
  <2> QED  BY <2>1, <2>2 DEF Running, Returns
<1>17. CASE ExitFormatMonthDay
  <2>1. Running /\ Returns
    BY <1>17 DEF ExitFormatMonthDay, Called
  <2>2. Effect(c) /\ DateEffect(c)
    BY <1>17 DEF ExitFormatMonthDay, Called, Arg, Today, Effect, DateEffect, SetDate, Fields
  <2> QED  BY <2>1, <2>2 DEF Running, Returns
<1>18. CASE ThrowSpelledMonthDay
  BY <1>18 DEF ThrowSpelledMonthDay, Called, Running, Throws
<1>19. CASE ThrowFormat
  BY <1>19 DEF ThrowFormat, Called, Running, Throws
<1> QED  BY <1>1, <1>2, <1>3, <1>4, <1>5, <1>6, <1>7, <1>8, <1>9, <1>10, <1>11, <1>12,
            <1>13, <1>14, <1>15, <1>16, <1>17, <1>18, <1>19 DEF Handler

--------------------------------------------------------------------------
(* The dates of the handlers are days. *)

\* A date with a day of its month is a day of the calendar.
LEMMA DatesAreDays ==
  ASSUME NEW y \in Nat, NEW m \in Month, NEW d \in 1..MonthLength(y, m)
  PROVE  /\ IsDay(Date(y, m, d)) /\ MonthLength(y, m) \in 28..31
         /\ Date(y, m, d).y = y /\ Date(y, m, d).m = m /\ Date(y, m, d).d = d
<1>1. MonthLength(y, m) \in 28..31
  BY DEF MonthLength
<1>2. d \in Nat /\ m \in Nat
  BY <1>1 DEF Month
<1>3. Date(y, m, d) \in Days
  BY <1>2 DEF Date, Days
<1>4. Date(y, m, d).y = y /\ Date(y, m, d).m = m /\ Date(y, m, d).d = d
  BY DEF Date
<1> QED  BY <1>1, <1>3, <1>4 DEF IsDay, IsDate

\* The last day of a month that is too short is a day.
LEMMA ClampedDays ==
  ASSUME NEW y \in Nat, NEW m \in Month, NEW d \in Nat, d >= 1
  PROVE  /\ IsDay(Clamp(y, m, d)) /\ Clamp(y, m, d).y = y /\ Clamp(y, m, d).m = m
         /\ d <= MonthLength(y, m) => Clamp(y, m, d) = Date(y, m, d)
         /\ d <= 31 => Clamp(y, m, d).d = d \/ (Clamp(y, m, d).d < d /\ d \in 29..31)
         /\ MonthLength(y, m) \in 28..31
<1>1. MonthLength(y, m) \in 28..31
  BY DEF MonthLength
<1> DEFINE e == IF d <= MonthLength(y, m) THEN d ELSE MonthLength(y, m)
<1>2. e \in 1..MonthLength(y, m)
  BY <1>1
<1>3. Clamp(y, m, d) = Date(y, m, e)
  BY DEF Clamp
<1>4. e = d \/ (e < d /\ e >= 28)
  BY <1>1
<1>5. d <= MonthLength(y, m) => e = d
  OBVIOUS
<1> HIDE DEF e
<1>6. /\ IsDay(Date(y, m, e)) /\ Date(y, m, e).y = y /\ Date(y, m, e).m = m /\ Date(y, m, e).d = e
  BY <1>2, DatesAreDays
<1>7. d <= 31 => e = d \/ (e < d /\ d \in 29..31)
  BY <1>1, <1>2, <1>4
<1> QED  BY <1>1, <1>3, <1>5, <1>6, <1>7

\* A clamped day is the day or an earlier one, when it is a 29th, 30th or 31st.
LEMMA ClampIs ==
  ASSUME NEW y \in Nat, NEW m \in Month, NEW d \in 1..31, NEW u, u = Clamp(y, m, d)
  PROVE  /\ IsDay(u) /\ u.y = y /\ u.m = m /\ u.d \in 1..31
         /\ u.d = d \/ (u.d < d /\ d \in 29..31)
<1>1. d \in Nat /\ d >= 1 /\ d <= 31
  OBVIOUS
<1>2. IsDay(u) /\ u.y = y /\ u.m = m /\ (u.d = d \/ (u.d < d /\ d \in 29..31))
  BY <1>1, ClampedDays
<1>3. u.d \in Nat /\ u.d \in 1..MonthLength(u.y, u.m) /\ MonthLength(u.y, u.m) \in 28..31
  BY <1>2, NumberOfDay
<1> DEFINE k == u.d
           n == MonthLength(u.y, u.m)
<1>4. k \in 1..n /\ n \in 28..31
  BY <1>3
<1> HIDE DEF k, n
<1>5. k \in 1..31
  BY <1>4
<1> QED  BY <1>2, <1>5 DEF k

\* withMonth, withYear and withDayOfMonth return days.
LEMMA WithDays ==
  ASSUME NEW t, IsDay(t), NEW m \in Month, NEW y \in Nat, NEW d, Holds(t, d)
  PROVE  /\ IsDay(WithMonth(t, m)) /\ WithMonth(t, m) = Clamp(t.y, m, t.d)
         /\ IsDay(WithYear(t, y)) /\ WithYear(t, y) = Clamp(y, t.m, t.d)
         /\ IsDay(WithDay(t, d)) /\ WithDay(t, d) = Date(t.y, t.m, d)
<1>1. t.y \in Nat /\ t.m \in Month /\ t.d \in Nat /\ t.d >= 1
  BY NumberOfDay
<1>2. IsDay(Clamp(t.y, m, t.d)) /\ IsDay(Clamp(y, t.m, t.d))
  BY <1>1, ClampedDays
<1>3. IsDay(Date(t.y, t.m, d))
  BY <1>1, DatesAreDays DEF Holds
<1> QED  BY <1>2, <1>3 DEF WithMonth, WithYear, WithDay

\* The first of a month on or after the day t.
LEMMA FirstOfMonth ==
  ASSUME NEW t, IsDay(t), NEW m \in Month
  PROVE  LET y == IF t.m > m \/ (t.m = m /\ t.d > 1) THEN t.y + 1 ELSE t.y
         IN  y \in Nat /\ InNextMonthDay(t, m, 1) = Date(y, m, 1) /\ IsDay(Date(y, m, 1))
<1>1. t.y \in Nat /\ t.m \in Month /\ t.d \in Nat /\ t.d >= 1
  BY NumberOfDay
<1>2. WithMonth(t, m).y = t.y /\ WithMonth(t, m).m = m
  BY <1>1, ClampedDays DEF WithMonth
<1>3. WithDay(WithMonth(t, m), 1) = Date(t.y, m, 1)
  BY <1>2 DEF WithDay
<1>4. /\ Date(t.y, m, 1).y = t.y /\ Date(t.y, m, 1).m = m /\ Date(t.y, m, 1).d = 1
  BY DEF Date
<1>5. WithYear(Date(t.y, m, 1), t.y + 1) = Date(t.y + 1, m, 1)
  <2>1. 1 <= MonthLength(t.y + 1, m)
    BY DEF MonthLength
  <2> QED  BY <1>1, <1>4, <2>1 DEF WithYear, Clamp
<1>6. IsDay(Date(t.y, m, 1)) /\ IsDay(Date(t.y + 1, m, 1))
  <2>1. 1 \in 1..MonthLength(t.y + 1, m) /\ 1 \in 1..MonthLength(t.y, m)
    BY DEF MonthLength
  <2> QED  BY <1>1, <2>1, DatesAreDays
<1> QED  BY <1>1, <1>3, <1>4, <1>5, <1>6 DEF InNextMonthDay

\* From the first of a month to a day of it.
LEMMA DayOfMonth ==
  ASSUME NEW y \in Nat, NEW m \in Month, NEW d, Holds(WithMonth(Date(y, m, 1), m), d)
  PROVE  /\ InNextMonthDay(Date(y, m, 1), m, d) = Date(y, m, d)
         /\ IsDay(Date(y, m, d)) /\ d \in 1..MonthLength(y, m)
<1> DEFINE t == Date(y, m, 1)
<1>1. t.y = y /\ t.m = m /\ t.d = 1
  BY DEF Date
<1>2. WithMonth(t, m) = t
  <2>1. 1 <= MonthLength(y, m)
    BY DEF MonthLength
  <2> QED  BY <2>1, <1>1 DEF WithMonth, Clamp
<1>3. d \in 1..MonthLength(y, m)
  BY <1>1, <1>2 DEF Holds
<1>4. MonthLength(y, m) \in 28..31
  BY DEF MonthLength
<1>5. ~(t.m > m \/ (t.m = m /\ t.d > d))
  BY <1>1, <1>3, <1>4 DEF Month
<1>6. InNextMonthDay(t, m, d) = Date(y, m, d)
  BY <1>1, <1>2, <1>5 DEF InNextMonthDay, WithDay
<1> QED  BY <1>3, <1>6, DatesAreDays

\* The year that the month of a phrase falls in, on the day t.
ComingYear(p, t) == IF t.m > p.m \/ (t.m = p.m /\ t.d > 1) THEN t.y + 1 ELSE t.y

\* What the handlers of a month and a day make of the day t.
LEMMA MonthAndDayOf ==
  ASSUME NEW p, NamesMonthAndDay(p), NEW t, IsDay(t), FitsIn(p, t)
  PROVE  LET u == AfterMonthAndDay(p, t, Count(p))
         IN  /\ p.by = "numbers" => u = Clamp(t.y, p.m, p.d)
             /\ p.by # "numbers" => u = Date(ComingYear(p, t), p.m, p.d)
             /\ IsDay(u)
<1>1. p.m \in Month /\ p.d \in NumberedDay /\ p.d \in Nat /\ p.d >= 1
      /\ p.by \in {"month", "month_first", "day_first", "numbers"}
      /\ (p.by = "month" => p.d = 1)
  BY DEF NamesMonthAndDay, NumberedDay
<1>2. CASE p.by = "numbers"
  <2>1. Holds(t, p.d) /\ AfterMonthAndDay(p, t, Count(p)) = WithMonth(WithDay(t, p.d), p.m)
    BY <1>2 DEF FitsIn, AfterMonthAndDay, Count
  <2>2. t.y \in Nat
    BY NumberOfDay
  <2>3. IsDay(WithDay(t, p.d)) /\ WithDay(t, p.d) = Date(t.y, t.m, p.d)
    BY <1>1, <2>1, <2>2, WithDays
  <2>4. Date(t.y, t.m, p.d).y = t.y /\ Date(t.y, t.m, p.d).d = p.d
    BY DEF Date
  <2>5. WithMonth(WithDay(t, p.d), p.m) = Clamp(t.y, p.m, p.d)
    BY <2>3, <2>4 DEF WithMonth
  <2> QED  BY <1>1, <1>2, <2>1, <2>2, <2>5, ClampedDays
<1>3. CASE p.by # "numbers"
  <2> DEFINE y == ComingYear(p, t)
             first == InNextMonthDay(t, p.m, 1)
  <2>1. y \in Nat /\ first = Date(y, p.m, 1) /\ IsDay(Date(y, p.m, 1))
    BY <1>1, FirstOfMonth DEF ComingYear
  <2> HIDE DEF y
  <2>2. CASE p.by = "month"
    BY <1>1, <2>1, <2>2 DEF AfterMonthAndDay, Count, y
  <2>3. CASE p.by # "month"
    <3>1. Holds(WithMonth(Date(y, p.m, 1), p.m), p.d)
      BY <1>3, <2>1, <2>3 DEF FitsIn
    <3>2. AfterMonthAndDay(p, t, Count(p)) = InNextMonthDay(Date(y, p.m, 1), p.m, p.d)
      BY <1>1, <1>3, <2>1, <2>3 DEF AfterMonthAndDay, Count
    <3>3. InNextMonthDay(Date(y, p.m, 1), p.m, p.d) = Date(y, p.m, p.d)
          /\ IsDay(Date(y, p.m, p.d))
      BY <1>1, <2>1, <3>1, DayOfMonth
    <3> QED  BY <1>3, <3>2, <3>3 DEF y
  <2> QED  BY <2>2, <2>3
<1> QED  BY <1>2, <1>3

\* They make days of it, whenever they are interrupted.
LEMMA MonthAndDayDays ==
  ASSUME NEW p, NamesMonthAndDay(p), NEW t, IsDay(t), NEW j \in 0..Count(p),
         j = Count(p) => FitsIn(p, t)
  PROVE  IsDay(AfterMonthAndDay(p, t, j))
<1>1. CASE j = Count(p)
  BY <1>1, MonthAndDayOf
<1>2. CASE j # Count(p)
  <2>1. IsDay(InNextMonthDay(t, p.m, 1))
    BY FirstOfMonth DEF NamesMonthAndDay
  <2> QED  BY <1>2, <2>1 DEF AfterMonthAndDay, Count, NamesMonthAndDay
<1> QED  BY <1>1, <1>2

\* The days since 1970 are far from the first of the calendar.
LEMMA DaysOf1970 ==
  ASSUME NEW s, IsDay(s), s.y >= 1970
  PROVE  DayNumber(s) >= 1000
<1>1. YearStart(1970) <= YearStart(s.y)
  BY NumberOfDay, YearStartMonotone
<1>2. YearStart(1970) >= 1000 /\ YearStart(1970) \in Int
  BY DEF YearStart
<1>3. YearStart(s.y) \in Int /\ DayNumber(s) \in Int
  BY NumberOfDay
<1> QED  BY <1>1, <1>2, <1>3, DayInYear

\* The Monday of this week, of the next and of the last.
LEMMA WeekDays ==
  ASSUME NEW s, IsDay(s), s.y >= 1970, NEW which \in NeighbourWeeks
  PROVE  LET t == ToWeek(s, which)
         IN  /\ IsDay(t) /\ DayOfWeekOf(t) = 1
             /\ DayNumber(t) \in Int /\ DayNumber(t) - DayNumber(s) \in -13..7
             /\ which = "next" => DayNumber(t) - DayNumber(s) \in 1..7
             /\ which = "last" => DayNumber(t) - DayNumber(s) \in -13..-7
             /\ which = "this" => DayNumber(t) - DayNumber(s) \in -6..0
<1>1. DayNumber(s) >= 1000 /\ DayNumber(s) \in Int
  BY DaysOf1970, NumberOfDay
<1>2. 1 \in DayOfWeek
  BY DEF DayOfWeek
<1>3. CASE which = "next"
  <2>1. /\ IsDay(NextDow(s, 1)) /\ DayOfWeekOf(NextDow(s, 1)) = 1
        /\ DayNumber(NextDow(s, 1)) - DayNumber(s) \in 1..7
    BY <1>1, <1>2, AdjustedDays
  <2> QED  BY <1>1, <1>3, <2>1, NumberOfDay DEF ToWeek
<1>4. CASE which = "this"
  <2>1. /\ IsDay(PreviousOrSameDow(s, 1)) /\ DayOfWeekOf(PreviousOrSameDow(s, 1)) = 1
        /\ DayNumber(PreviousOrSameDow(s, 1)) - DayNumber(s) \in -6..0
    BY <1>1, <1>2, AdjustedDays
  <2> QED  BY <1>1, <1>4, <2>1, NumberOfDay DEF ToWeek
<1>5. CASE which = "last"
  <2> DEFINE u == PlusDays(s, -7)
  <2>1. IsDay(u) /\ DayNumber(u) = DayNumber(s) + (-7)
    BY <1>1, DaysOn
  <2> HIDE DEF u
  <2>2. /\ IsDay(PreviousOrSameDow(u, 1)) /\ DayOfWeekOf(PreviousOrSameDow(u, 1)) = 1
        /\ DayNumber(PreviousOrSameDow(u, 1)) - DayNumber(u) \in -6..0
    BY <1>1, <1>2, <2>1, AdjustedDays
  <2>3. DayNumber(PreviousOrSameDow(u, 1)) \in Int
    BY <2>2, NumberOfDay
  <2>4. ToWeek(s, which) = PreviousOrSameDow(u, 1)
    BY <1>5 DEF ToWeek, u
  <2> QED  BY <1>1, <1>5, <2>1, <2>2, <2>3, <2>4
<1> QED  BY <1>3, <1>4, <1>5 DEF NeighbourWeeks

\* It has one of the days the adjusters are about.
LEMMA WeekIsDay ==
  ASSUME NEW s, IsDay(s), s.y >= 1970, NEW which \in NeighbourWeeks
  PROVE  IsDay(ToWeek(s, which)) /\ DayNumber(ToWeek(s, which)) >= 8
<1>. DEFINE t == ToWeek(s, which)
            a == DayNumber(s)
            b == DayNumber(t)
<1>1. a >= 1000 /\ a \in Int
  BY DaysOf1970, NumberOfDay
<1>2. IsDay(t) /\ b \in Int /\ b - a \in -13..7
  BY WeekDays
<1>. HIDE DEF a, b
<1>3. b >= 8
  BY <1>1, <1>2
<1>. QED BY <1>2, <1>3 DEF b

\* The day a weekday alone is resolved to.
LEMMA WeekdayDays ==
  ASSUME NEW s, IsDay(s), s.y >= 1970, NEW which \in {"next", "previous", "this"},
         NEW dow \in DayOfWeek
  PROVE  LET t == ToWeekday(s, which, dow)
         IN  /\ IsDay(t) /\ DayOfWeekOf(t) = dow
             /\ which = "next" => DayNumber(t) - DayNumber(s) \in 1..7
             /\ which = "previous" => DayNumber(t) - DayNumber(s) \in -7..-1
             /\ which = "this" =>
                  \/ DayOfWeekOf(s) < dow /\ DayNumber(t) - DayNumber(s) \in 1..7
                  \/ DayOfWeekOf(s) > dow /\ DayNumber(t) - DayNumber(s) \in -7..-1
                  \/ t = s
<1>1. DayNumber(s) >= 8 /\ DayNumber(s) \in Int
  BY DaysOf1970, NumberOfDay
<1>2. /\ DayOfWeekOf(s) \in 1..7 /\ dow \in 1..7
      /\ IsDay(NextDow(s, dow)) /\ DayOfWeekOf(NextDow(s, dow)) = dow
      /\ DayNumber(NextDow(s, dow)) - DayNumber(s) \in 1..7
      /\ IsDay(PreviousDow(s, dow)) /\ DayOfWeekOf(PreviousDow(s, dow)) = dow
      /\ DayNumber(PreviousDow(s, dow)) - DayNumber(s) \in -7..-1
  BY <1>1, AdjustedDays DEF DayOfWeek
<1>3. CASE which = "next" \/ (which = "this" /\ DayOfWeekOf(s) < dow)
  BY <1>2, <1>3 DEF ToWeekday
<1>4. CASE ~(which = "next" \/ (which = "this" /\ DayOfWeekOf(s) < dow))
           /\ (which = "previous" \/ DayOfWeekOf(s) > dow)
  BY <1>2, <1>4 DEF ToWeekday
<1>5. CASE which = "this" /\ DayOfWeekOf(s) = dow
  BY <1>2, <1>5 DEF ToWeekday
<1> QED  BY <1>2, <1>3, <1>4, <1>5

\* The date before the year of a phrase is read, and after.
LEMMA YearDays ==
  ASSUME NEW p, NamesYear(p), NEW t, IsDay(t)
  PROVE  IsDay(ToYear(p, t))
<1>1. CASE p.which = "full"
  <2>1. p.y \in Nat /\ 1 \in Month
    BY <1>1 DEF NamesYear, Month
  <2>2. 1 \in 1..MonthLength(p.y, 1)
    BY DEF MonthLength
  <2> QED  BY <1>1, <2>1, <2>2, DatesAreDays DEF ToYear
<1>2. CASE p.which # "full"
  BY <1>2 DEF ToYear
<1> QED  BY <1>1, <1>2

\* The answer of a date in numbers: the day is set first, in the month of NumericStart.
LEMMA NumericDays ==
  ASSUME NEW p, IsPhrase(p), p.form = "full_date", NEW s, IsDay(s)
  PROVE  /\ IsDay(NumericStart(p, s))
         /\ Holds(NumericStart(p, s), p.d) =>
              LET u == WithDay(NumericStart(p, s), p.d)
                  v == WithYear(u, p.y)
              IN  /\ u = Date(NumericStart(p, s).y, NumericStart(p, s).m, p.d)
                  /\ IsDay(v) /\ v = Clamp(p.y, NumericStart(p, s).m, p.d)
                  /\ IsDay(WithMonth(v, p.m)) /\ WithMonth(v, p.m) = Clamp(p.y, p.m, v.d)
<1>1. p.y \in Nat /\ p.m \in Month /\ p.d \in 1..31
  BY DEF IsPhrase, NamesMonthAndDay, NumberedDay
<1>2. IsDay(NumericStart(p, s))
  <2>1. 1 \in 1..MonthLength(p.y, 1) /\ 1 \in Month
    BY DEF MonthLength, Month
  <2> QED  BY <1>1, <2>1, DatesAreDays DEF NumericStart
<1> DEFINE t == NumericStart(p, s)
<1> HIDE DEF t
<1>3. ASSUME Holds(t, p.d)
      PROVE  LET u == WithDay(t, p.d)
                 v == WithYear(u, p.y)
             IN  /\ u = Date(t.y, t.m, p.d)
                 /\ IsDay(v) /\ v = Clamp(p.y, t.m, p.d)
                 /\ IsDay(WithMonth(v, p.m)) /\ WithMonth(v, p.m) = Clamp(p.y, p.m, v.d)
  <2> DEFINE u == WithDay(t, p.d)
             v == WithYear(u, p.y)
  <2>0. IsDay(t)
    BY <1>2 DEF t
  <2>1. IsDay(u) /\ u = Date(t.y, t.m, p.d)
    BY <1>1, <1>3, <2>0, WithDays
  <2>2. u.m = t.m /\ u.d = p.d
    BY <2>1 DEF Date
  <2>3. t.m \in Month /\ p.d \in Nat /\ p.d >= 1
    BY <1>1, <2>0, NumberOfDay
  <2> HIDE DEF u
  <2>4. v = Clamp(p.y, t.m, p.d)
    BY <2>2 DEF WithYear
  <2>5. IsDay(v) /\ v.y = p.y
    BY <1>1, <2>3, <2>4, ClampedDays
  <2>6. v.d \in Nat /\ v.d >= 1
    BY <2>5, NumberOfDay
  <2> HIDE DEF v
  <2>7. WithMonth(v, p.m) = Clamp(p.y, p.m, v.d)
    BY <2>5 DEF WithMonth
  <2>8. IsDay(Clamp(p.y, p.m, v.d))
    BY <1>1, <2>6, ClampedDays
  <2> QED  BY <2>1, <2>4, <2>5, <2>7, <2>8 DEF u, v
<1> QED  BY <1>2, <1>3 DEF t

\* withYear returns a day.
LEMMA YearChange ==
  ASSUME NEW t, IsDay(t), NEW v \in Nat
  PROVE  IsDay(WithYear(t, v))
<1>1. t.m \in Month /\ t.d \in Nat /\ t.d >= 1
  BY NumberOfDay
<1> QED  BY <1>1, ClampedDays DEF WithYear

\* After any number of calls of a phrase the date is a day of the calendar.
LEMMA DateAfterIsDay ==
  ASSUME NEW p, IsPhrase(p), NEW s, IsDay(s), s.y >= 1970,
         NEW k \in 0..Len(p.calls), NEW v \in Nat, Fitted(p, s, k)
  PROVE  IsDay(DateAfter(p, s, k, v))
<1>. DEFINE n == Count(p)
<1>1. DayNumber(s) >= 1000 /\ DayNumber(s) \in Int
  BY DaysOf1970, NumberOfDay
<1>2. k \in Nat /\ n \in {1, 3, 4}
  <2>1. Len(p.calls) \in Nat
    BY CallsFit DEF Shape
  <2> QED  BY <2>1 DEF Count
<1>3. CASE p.form = "weekday"
  <2>1. p.which \in {"next", "previous", "this"} /\ p.dow \in DayOfWeek
    BY <1>3 DEF IsPhrase
  <2>2. IsDay(ToWeekday(s, p.which, p.dow))
    BY <2>1, WeekdayDays
  <2> QED  BY <1>3, <2>2 DEF DateAfter
<1>4. CASE p.form = "weekday_of_week"
  <2>1. p.which \in NeighbourWeeks /\ p.dow \in DayOfWeek
    BY <1>4 DEF IsPhrase
  <2>2. IsDay(ToWeek(s, p.which)) /\ DayNumber(ToWeek(s, p.which)) >= 8
    BY <2>1, WeekIsDay
  <2>3. IsDay(NextOrSameDow(ToWeek(s, p.which), p.dow))
    BY <2>1, <2>2, AdjustedDays
  <2> QED  BY <1>4, <2>2, <2>3 DEF DateAfter
<1>5. CASE p.form = "today"
  BY <1>5 DEF DateAfter
<1>6. CASE p.form = "tomorrow"
  <2>1. IsDay(PlusDays(s, 1))
    BY <1>1, DaysOn
  <2> QED  BY <1>6, <2>1 DEF DateAfter
<1>7. CASE p.form = "days"
  <2>1. p.n \in 1..31
    BY <1>7 DEF IsPhrase, NumberedDay
  <2> DEFINE a == DayNumber(s)
             b == p.n
  <2>4. a \in Int /\ a >= 1000 /\ b \in 1..31
    BY <1>1, <2>1
  <2> HIDE DEF a, b
  <2>5. b \in Int /\ a + b >= 1
    BY <2>4
  <2>2. p.n \in Int /\ DayNumber(s) + p.n >= 1
    BY <2>5 DEF a, b
  <2>3. IsDay(PlusDays(s, p.n))
    BY <2>2, DaysOn
  <2> QED  BY <1>7, <2>3 DEF DateAfter
<1>8. CASE p.form = "week"
  <2>1. p.which \in NeighbourWeeks
    BY <1>8 DEF IsPhrase
  <2>2. IsDay(ToWeek(s, p.which))
    BY <2>1, WeekDays
  <2> QED  BY <1>8, <2>2 DEF DateAfter
<1>9. CASE p.form = "year"
  <2>1. IsDay(ToYear(p, s))
    BY <1>9, YearDays DEF IsPhrase
  <2> QED  BY <1>9, <2>1 DEF DateAfter
<1>10. CASE p.form = "month_day"
  <2>1. NamesMonthAndDay(p) /\ k \in 0..Count(p)
    BY <1>10, CallsFit DEF IsPhrase, Shape
  <2>2. IsDay(AfterMonthAndDay(p, s, k))
    BY <1>10, <2>1, MonthAndDayDays DEF Fitted
  <2> QED  BY <1>10, <2>2 DEF DateAfter
<1>11. CASE p.form = "year_month_day"
  <2> DEFINE t == ToYear(p, s)
  <2>1. NamesMonthAndDay(p) /\ Len(p.calls) = n + 2
    <3>1. NamesMonthAndDay(p)
      BY <1>11 DEF IsPhrase
    <3>2. Shape(p)
      BY CallsFit
    <3> QED  BY <1>11, <3>1, <3>2 DEF Shape
  <2>2. IsDay(t)
    BY <1>11, YearDays DEF IsPhrase
  <2>3. k > n => FitsIn(p, t)
    BY <1>11 DEF Fitted
  <2>4. ASSUME k > 0, k <= n + 1
        PROVE  IsDay(AfterMonthAndDay(p, t, k - 1))
    <3>1. k - 1 \in 0..n /\ (k - 1 = n => k > n)
      BY <1>2, <2>4
    <3> HIDE DEF t
    <3> QED  BY <2>1, <2>2, <2>3, <3>1, MonthAndDayDays
  <2>5. ASSUME k > n + 1
        PROVE  IsDay(WithYear(AfterMonthAndDay(p, t, n), v))
    <3>1. FitsIn(p, t)
      BY <1>2, <2>3, <2>5
    <3>2. IsDay(AfterMonthAndDay(p, t, n))
      BY <2>1, <2>2, <3>1, MonthAndDayOf
    <3> HIDE DEF t
    <3> QED  BY <3>2, YearChange
  <2> HIDE DEF n
  <2>6. DateAfter(p, s, k, v) = IF k = 0 THEN s
             ELSE IF k <= n + 1 THEN AfterMonthAndDay(p, t, k - 1)
             ELSE WithYear(AfterMonthAndDay(p, t, n), v)
    BY <1>11 DEF DateAfter, n
  <2> HIDE DEF t
  <2> QED  BY <1>2, <2>4, <2>5, <2>6
<1>12. CASE p.form = "month_day_year"
  <2> DEFINE t == AfterMonthAndDay(p, s, n)
             u == ToYear(p, t)
  <2>1. NamesMonthAndDay(p) /\ Len(p.calls) = n + 2 /\ NamesYear(p)
    BY <1>12, CallsFit DEF IsPhrase, Shape
  <2>2. k >= n => FitsIn(p, s)
    BY <1>12 DEF Fitted
  <2>3. ASSUME k <= n
        PROVE  IsDay(AfterMonthAndDay(p, s, k))
    <3>1. k \in 0..n /\ (k = n => k >= n)
      BY <1>2, <2>3
    <3> QED  BY <2>1, <2>2, <3>1, MonthAndDayDays
  <2>4. ASSUME k > n
        PROVE  IsDay(u) /\ IsDay(WithYear(u, v))
    <3>1. FitsIn(p, s)
      BY <1>2, <2>2, <2>4
    <3>2. IsDay(t)
      BY <2>1, <3>1, MonthAndDayOf
    <3> HIDE DEF t
    <3>3. IsDay(u)
      BY <2>1, <3>2, YearDays
    <3> HIDE DEF u
    <3> QED  BY <3>3, YearChange
  <2> HIDE DEF n
  <2>6. DateAfter(p, s, k, v) = IF k <= n THEN AfterMonthAndDay(p, s, k)
             ELSE IF k = n + 1 THEN u ELSE WithYear(u, v)
    BY <1>12 DEF DateAfter, n
  <2> HIDE DEF u
  <2> QED  BY <1>2, <2>3, <2>4, <2>6
<1>13. CASE p.form = "full_date"
  <2>1. k <= 5
    <3>1. Len(p.calls) = 5
      BY <1>13, CallsFit DEF Shape
    <3> QED  BY <3>1
  <2>2. IsDay(NumericStart(p, s))
    BY <1>13, NumericDays
  <2>3. k = 5 => Holds(NumericStart(p, s), p.d)
    BY <1>13 DEF Fitted
  <2>4. k = 5 => IsDay(WithMonth(WithYear(WithDay(NumericStart(p, s), p.d), p.y), p.m))
    BY <1>13, <2>3, NumericDays
  <2>5. DateAfter(p, s, k, v) = IF k < 4 THEN s ELSE IF k = 4 THEN NumericStart(p, s)
             ELSE WithMonth(WithYear(WithDay(NumericStart(p, s), p.d), p.y), p.m)
    BY <1>13 DEF DateAfter
  <2> QED  BY <1>2, <2>1, <2>2, <2>4, <2>5
<1>14. p.form \in {"weekday", "weekday_of_week", "today", "tomorrow", "days", "week", "year",
                  "month_day", "year_month_day", "month_day_year", "full_date"}
  BY DEF IsPhrase
<1> QED  BY <1>3, <1>4, <1>5, <1>6, <1>7, <1>8, <1>9, <1>10, <1>11, <1>12, <1>13, <1>14
--------------------------------------------------------------------------
(* A handler keeps the invariant. *)

\* The clock never shows a year before that in which the listener was made.
LEMMA ClocksInOrder ==
  ASSUME ClocksAreDays
  PROVE  made.y \in Nat /\ now.y \in Nat /\ made.y <= now.y /\ now.y >= 1970
<1>1. made.y \in Nat /\ now.y \in Nat /\ DayNumber(made) \in Int /\ DayNumber(now) \in Int
  BY NumberOfDay DEF ClocksAreDays
<1>2. ~(now.y < made.y)
  BY <1>1, LaterYear DEF ClocksAreDays
<1> QED  BY <1>1, <1>2 DEF ClocksAreDays

\* A handler sets its own field, and no later handler sets it again.
LEMMA FieldsAreReadStep ==
  ASSUME CallsLeft, FieldsAreRead, ClocksAreDays, calls # <<>>, IsPhrase(phrase),
         UNCHANGED <<phrase, made, now>>, calls' = Tail(calls), Effect(Head(calls))
  PROVE  FieldsAreRead'
<1> DEFINE c == Head(calls)
           k == Returned
           years == made.y..now.y
<1>1. c = phrase.calls[k + 1] /\ k \in Nat /\ k + 1 \in 1..Len(phrase.calls)
  BY NextCall
<1>2. Returned' = k + 1
  BY CallsLeftStep
<1>3. Once(phrase.calls)
  BY CallsFit
<1>4. now.y \in years
  BY ClocksInOrder
<1>5. Effect(c)
  OBVIOUS
<1>6. \A j \in 1..k : FieldRead(self, phrase.calls[j], years)
  BY DEF FieldsAreRead
<1> HIDE DEF c, k, years
<1>7. FieldRead(self', c, years)
  BY <1>4, <1>5 DEF FieldRead, Effect
<1>8. ASSUME NEW j \in 1..k
      PROVE  FieldRead(self', phrase.calls[j], years)
  <2> DEFINE b == phrase.calls[j]
  <2>1. j \in 1..Len(phrase.calls) /\ j # k + 1
    <3>1. phrase.calls \in Seq(Calls)
      BY CallsFit DEF Shape
    <3>2. Len(phrase.calls) \in Nat
      BY <3>1
    <3> QED  BY <1>1, <3>2
  <2>2. /\ b.on # c.on
        /\ ~(b.on \in YearNames /\ c.on \in YearNames)
    BY <1>1, <1>3, <2>1 DEF Once
  <2>3. FieldRead(self, b, years)
    BY <1>6
  <2> HIDE DEF b
  <2>4. FieldRead(self', b, years)
    BY <1>5, <2>2, <2>3 DEF FieldRead, Effect, YearNames
  <2> QED  BY <2>4 DEF b
<1>9. ASSUME NEW j \in 1..(k + 1)
      PROVE  FieldRead(self', phrase.calls[j], years)
  <2>1. j \in 1..k \/ j = k + 1
    BY <1>1
  <2> QED  BY <1>1, <1>7, <1>8, <2>1
<1>10. (made.y..now.y)' = years
  BY DEF years
<1> QED  BY <1>2, <1>9, <1>10 DEF FieldsAreRead

\* The fields stay in their ranges, but for the date.
LEMMA FieldRanges ==
  ASSUME self \in Fields, ClocksAreDays, NEW c, Effect(c),
         c.on \in {"number", "day_number"} => c.arg \in NumberedDay,
         c.on \in {"month_number", "spelled_month"} => c.arg \in Month,
         c.on = "day_of_week" => c.arg \in DayOfWeek,
         c.on = "year" => c.arg \in NeighbourYears,
         c.on = "full_year" => c.arg \in Nat,
         c.on = "short_year" => 2000 + c.arg \in Nat,
         IsDay(self'.dateTime)
  PROVE  self' \in Fields
<1>1. c.on = "year" => now.y + Ahead(c.arg) \in Nat
  <2>1. now.y \in Nat /\ now.y >= 1970
    BY ClocksInOrder
  <2>2. c.on = "year" => Ahead(c.arg) \in {-1, 0, 1}
    BY DEF Ahead, NeighbourYears
  <2> HIDE DEF Ahead
  <2> QED  BY <2>1, <2>2
<1>2. /\ self.number \in 0..31 /\ self.year \in Nat /\ self.monthNum \in 0..12
      /\ self.dayNum \in 0..31 /\ self.dayOfWeek \in 0..7 /\ self.month \in 0..12
  BY DEF Fields
<1>3. /\ self'.number \in 0..31 /\ self'.monthNum \in 0..12
      /\ self'.dayNum \in 0..31 /\ self'.dayOfWeek \in 0..7 /\ self'.month \in 0..12
  BY <1>2 DEF Effect, NumberedDay, Month, DayOfWeek
<1>4. self'.year \in Nat
  BY <1>1, <1>2 DEF Effect
<1>5. self'.dateTime \in Days
  BY DEF IsDay
<1>6. self' = [number |-> self'.number, year |-> self'.year, monthNum |-> self'.monthNum,
               dayNum |-> self'.dayNum, dayOfWeek |-> self'.dayOfWeek,
               month |-> self'.month, dateTime |-> self'.dateTime]
  BY DEF Effect
<1> QED  BY <1>3, <1>4, <1>5, <1>6 DEF Fields

\* One call of a month and a day, of those from o + 1 on.
LEMMA MonthAndDayStep ==
  ASSUME NEW p, NamesMonthAndDay(p), NEW c, NEW o \in {0, 1}, MonthAndDayCalls(p, c, o),
         NEW t, NEW j \in 0..(Count(p) - 1), NEW years,
         self.dateTime = AfterMonthAndDay(p, t, j),
         \A i \in (o + 1)..(o + j) : FieldRead(self, c[i], years),
         Effect(c[o + j + 1]), DateEffect(c[o + j + 1])
  PROVE  /\ self'.dateTime = AfterMonthAndDay(p, t, j + 1)
         /\ j + 1 = Count(p) => FitsIn(p, t)
         /\ c[o + j + 1].on \in MonthAndDayNames
<1>1. CASE p.by = "month"
  <2>1. j = 0
    BY <1>1 DEF Count
  <2>2. c[o + j + 1] = CallOf("spelled_month", p.m)
    BY <1>1, <2>1 DEF MonthAndDayCalls
  <2>3. c[o + j + 1].on = "spelled_month" /\ c[o + j + 1].arg = p.m
    BY <2>2 DEF CallOf
  <2>4. self'.dateTime = InNextMonthDay(t, p.m, 1)
    BY <1>1, <2>1, <2>3 DEF DateEffect, AfterMonthAndDay
  <2> QED  BY <1>1, <2>1, <2>3, <2>4 DEF AfterMonthAndDay, FitsIn, MonthAndDayNames
<1>2. CASE p.by \in {"month_first", "day_first"}
  <2>1. j \in {0, 1, 2} /\ Count(p) = 3
    BY <1>2 DEF Count
  <2>2. /\ c[o + 3].on = "spelled_month_day"
        /\ \/ /\ p.by = "month_first"
              /\ c[o + 1].on = "spelled_month" /\ c[o + 1].arg = p.m
              /\ c[o + 2].on = "number" /\ c[o + 2].arg = p.d
           \/ /\ p.by = "day_first"
              /\ c[o + 2].on = "spelled_month" /\ c[o + 2].arg = p.m
              /\ c[o + 1].on = "number" /\ c[o + 1].arg = p.d
    BY <1>2 DEF MonthAndDayCalls, CallOf
  <2>3. CASE j \in {0, 1}
    <3>1. /\ c[o + j + 1].on = "number" => self'.dateTime = self.dateTime
          /\ c[o + j + 1].on = "spelled_month" =>
               self'.dateTime = InNextMonthDay(self.dateTime, c[o + j + 1].arg, 1)
      BY DEF DateEffect
    <3> QED  BY <1>2, <2>1, <2>2, <2>3, <3>1 DEF AfterMonthAndDay, MonthAndDayNames
  <2>4. CASE j = 2
    <3>1. FieldRead(self, c[o + 1], years) /\ FieldRead(self, c[o + 2], years)
      BY <2>4
    <3>2. self.month = p.m /\ self.number = p.d
      BY <2>2, <3>1 DEF FieldRead
    <3>3. c[o + j + 1].on = "spelled_month_day"
      BY <2>2, <2>4
    <3>4. MonthDayFits /\ self'.dateTime = InNextMonthDay(self.dateTime, p.m, p.d)
      BY <3>2, <3>3 DEF DateEffect
    <3>5. self.dateTime = InNextMonthDay(t, p.m, 1)
      BY <1>2, <2>4 DEF AfterMonthAndDay
    <3> QED  BY <1>2, <2>4, <3>2, <3>3, <3>4, <3>5
             DEF AfterMonthAndDay, FitsIn, MonthDayFits, Today, MonthAndDayNames
  <2> QED  BY <2>1, <2>3, <2>4
<1>3. CASE p.by = "numbers"
  <2>1. j \in {0, 1, 2, 3} /\ Count(p) = 4
    BY <1>3 DEF Count
  <2>2. /\ c[o + 4].on = "format_month_day"
        /\ \/ /\ c[o + 1].on = "number" /\ c[o + 2].on = "day_number" /\ c[o + 2].arg = p.d
              /\ c[o + 3].on = "month_number" /\ c[o + 3].arg = p.m
           \/ /\ c[o + 1].on = "month_number" /\ c[o + 1].arg = p.m
              /\ c[o + 2].on = "number" /\ c[o + 3].on = "day_number" /\ c[o + 3].arg = p.d
    BY <1>3 DEF MonthAndDayCalls, DayAndMonthCalls, CallOf
  <2>3. CASE j \in {0, 1, 2}
    <3>1. c[o + j + 1].on \in {"number", "day_number", "month_number"}
      BY <2>2, <2>3
    <3>2. self'.dateTime = self.dateTime
      BY <3>1 DEF DateEffect
    <3> QED  BY <1>3, <2>1, <2>3, <3>1, <3>2 DEF AfterMonthAndDay, MonthAndDayNames
  <2>4. CASE j = 3
    <3>1. FieldRead(self, c[o + 1], years) /\ FieldRead(self, c[o + 2], years)
          /\ FieldRead(self, c[o + 3], years)
      BY <2>4
    <3>2. self.monthNum = p.m /\ self.dayNum = p.d
      BY <2>2, <3>1 DEF FieldRead
    <3>3. c[o + j + 1].on = "format_month_day"
      BY <2>2, <2>4
    <3>4. DayFits /\ self'.dateTime = WithMonth(WithDay(self.dateTime, p.d), p.m)
      BY <3>2, <3>3 DEF DateEffect
    <3>5. self.dateTime = t
      BY <1>3, <2>4 DEF AfterMonthAndDay
    <3> QED  BY <1>3, <2>4, <3>2, <3>3, <3>4, <3>5
             DEF AfterMonthAndDay, FitsIn, DayFits, Today, MonthAndDayNames
  <2> QED  BY <2>1, <2>3, <2>4
<1> QED  BY <1>1, <1>2, <1>3 DEF NamesMonthAndDay

\* One call of a year.
LEMMA YearStep ==
  ASSUME NEW p, NamesYear(p), Effect(YearCall(p)), DateEffect(YearCall(p))
  PROVE  /\ self'.dateTime = ToYear(p, self.dateTime)
         /\ YearCall(p).on \in {"full_year", "year"}
<1>1. CASE p.which = "full"
  BY <1>1 DEF YearCall, CallOf, ToYear, DateEffect
<1>2. CASE p.which # "full"
  BY <1>2 DEF YearCall, CallOf, ToYear, DateEffect
<1> QED  BY <1>1, <1>2

\* One call of a phrase without a month.
LEMMA RelativeStep ==
  ASSUME NEW p, IsPhrase(p), NEW s, NEW k \in 0..(Len(p.calls) - 1), NEW years,
         p.form \in {"weekday", "weekday_of_week", "today", "tomorrow", "days", "week", "year"},
         self.dateTime = DateAfter(p, s, k, self.year),
         \A i \in 1..k : FieldRead(self, p.calls[i], years),
         Effect(p.calls[k + 1]), DateEffect(p.calls[k + 1])
  PROVE  self'.dateTime = DateAfter(p, s, k + 1, self'.year)
<1>0. Shape(p)
  BY CallsFit
<1>1. CASE p.form = "weekday"
  <2>1. /\ p.calls[1].on = "day_of_week" /\ p.calls[1].arg = p.dow
        /\ p.calls[2].on = "weekday" /\ p.calls[2].arg = p.which
    BY <1>0, <1>1 DEF Shape, CallOf
  <2>2. k \in {0, 1}
    <3>1. Len(p.calls) = 2
      BY <1>0, <1>1 DEF Shape
    <3> QED  BY <3>1
  <2>3. self.dateTime = s
    BY <1>1, <2>2 DEF DateAfter
  <2>4. CASE k = 0
    <3>1. self'.dateTime = s
      BY <2>1, <2>3, <2>4 DEF DateEffect
    <3> QED  BY <1>1, <2>4, <3>1 DEF DateAfter
  <2>5. CASE k = 1
    <3>1. FieldRead(self, p.calls[1], years)
      BY <2>5
    <3>2. self.dayOfWeek = p.dow
      BY <2>1, <3>1 DEF FieldRead
    <3>3. self'.dateTime = ToWeekday(s, p.which, p.dow)
      BY <2>1, <2>3, <2>5, <3>2 DEF DateEffect
    <3> QED  BY <1>1, <2>5, <3>3 DEF DateAfter
  <2> QED  BY <2>2, <2>4, <2>5
<1>2. CASE p.form = "weekday_of_week"
  <2>1. /\ p.calls[1].on = "day_of_week" /\ p.calls[1].arg = p.dow
        /\ p.calls[2].on = "week" /\ p.calls[2].arg = p.which
        /\ p.calls[3].on = "day_of_neighbour_week"
    BY <1>0, <1>2 DEF Shape, CallOf
  <2>2. k \in {0, 1, 2}
    <3>1. Len(p.calls) = 3
      BY <1>0, <1>2 DEF Shape
    <3> QED  BY <3>1
  <2>3. self.dateTime = IF k < 2 THEN s ELSE ToWeek(s, p.which)
    BY <1>2, <2>2 DEF DateAfter
  <2>4. CASE k = 0
    <3>1. self'.dateTime = s
      BY <2>1, <2>3, <2>4 DEF DateEffect
    <3> QED  BY <1>2, <2>4, <3>1 DEF DateAfter
  <2>5. CASE k = 1
    <3>1. self'.dateTime = ToWeek(s, p.which)
      BY <2>1, <2>3, <2>5 DEF DateEffect
    <3> QED  BY <1>2, <2>5, <3>1 DEF DateAfter
  <2>6. CASE k = 2
    <3>1. FieldRead(self, p.calls[1], years)
      BY <2>6
    <3>2. self.dayOfWeek = p.dow
      BY <2>1, <3>1 DEF FieldRead
    <3>3. self'.dateTime = NextOrSameDow(ToWeek(s, p.which), p.dow)
      BY <2>1, <2>3, <2>6, <3>2 DEF DateEffect
    <3> QED  BY <1>2, <2>6, <3>3 DEF DateAfter
  <2> QED  BY <2>2, <2>4, <2>5, <2>6
<1>3. CASE p.form = "today"
  <2>1. Len(p.calls) = 0
    BY <1>0, <1>3 DEF Shape
  <2> QED  BY <2>1
<1>4. CASE p.form = "tomorrow"
  <2>1. Len(p.calls) = 1
    BY <1>0, <1>4 DEF Shape
  <2>2. k = 0
    BY <2>1
  <2>3. p.calls[1].on = "tomorrow"
    BY <1>0, <1>4 DEF Shape, CallOf
  <2>4. self'.dateTime = PlusDays(s, 1)
    BY <1>4, <2>2, <2>3 DEF DateAfter, DateEffect
  <2> QED  BY <1>4, <2>2, <2>4 DEF DateAfter
<1>5. CASE p.form = "days"
  <2>1. /\ p.calls[1].on = "number" /\ p.calls[1].arg = p.n
        /\ p.calls[2].on = "days_from_now"
    BY <1>0, <1>5 DEF Shape, CallOf
  <2>2. k \in {0, 1}
    <3>1. Len(p.calls) = 2
      BY <1>0, <1>5 DEF Shape
    <3> QED  BY <3>1
  <2>3. self.dateTime = s
    BY <1>5, <2>2 DEF DateAfter
  <2>4. CASE k = 0
    <3>1. self'.dateTime = s
      BY <2>1, <2>3, <2>4 DEF DateEffect
    <3> QED  BY <1>5, <2>4, <3>1 DEF DateAfter
  <2>5. CASE k = 1
    <3>1. FieldRead(self, p.calls[1], years)
      BY <2>5
    <3>2. self.number = p.n
      BY <2>1, <3>1 DEF FieldRead
    <3>3. self'.dateTime = PlusDays(s, p.n)
      BY <2>1, <2>3, <2>5, <3>2 DEF DateEffect
    <3> QED  BY <1>5, <2>5, <3>3 DEF DateAfter
  <2> QED  BY <2>2, <2>4, <2>5
<1>6. CASE p.form = "week"
  <2>1. Len(p.calls) = 1
    BY <1>0, <1>6 DEF Shape
  <2>2. k = 0
    BY <2>1
  <2>3. p.calls[1].on = "week" /\ p.calls[1].arg = p.which
    BY <1>0, <1>6 DEF Shape, CallOf
  <2>4. self'.dateTime = ToWeek(s, p.which)
    BY <1>6, <2>2, <2>3 DEF DateAfter, DateEffect
  <2> QED  BY <1>6, <2>2, <2>4 DEF DateAfter
<1>7. CASE p.form = "year"
  <2>1. Len(p.calls) = 1 /\ p.calls[1] = YearCall(p)
    BY <1>0, <1>7 DEF Shape
  <2>2. k = 0
    BY <2>1
  <2>3. self'.dateTime = ToYear(p, self.dateTime)
    BY <1>7, <2>1, <2>2, YearStep DEF IsPhrase
  <2>4. self.dateTime = s
    BY <1>7, <2>2 DEF DateAfter
  <2> QED  BY <1>7, <2>2, <2>3, <2>4 DEF DateAfter
<1> QED  BY <1>1, <1>2, <1>3, <1>4, <1>5, <1>6, <1>7

\* One call of a phrase with a month and a day.
LEMMA MonthDayPhraseStep ==
  ASSUME NEW p, IsPhrase(p), NEW s, NEW k \in 0..(Len(p.calls) - 1), NEW years,
         p.form = "month_day",
         self.dateTime = DateAfter(p, s, k, self.year),
         \A i \in 1..k : FieldRead(self, p.calls[i], years),
         Effect(p.calls[k + 1]), DateEffect(p.calls[k + 1])
  PROVE  /\ self'.dateTime = DateAfter(p, s, k + 1, self'.year)
         /\ Fitted(p, s, k + 1)
<1>1. NamesMonthAndDay(p) /\ Len(p.calls) = Count(p) /\ MonthAndDayCalls(p, p.calls, 0)
  BY CallsFit DEF Shape, IsPhrase
<1>2. k \in 0..(Count(p) - 1) /\ 0 + k + 1 = k + 1 /\ (0 + 1)..(0 + k) = 1..k
  BY <1>1
<1>3. self.dateTime = AfterMonthAndDay(p, s, k)
  BY DEF DateAfter
<1>4. self'.dateTime = AfterMonthAndDay(p, s, k + 1) /\ (k + 1 = Count(p) => FitsIn(p, s))
  BY <1>1, <1>2, <1>3, MonthAndDayStep
<1> QED  BY <1>4 DEF DateAfter, Fitted

\* One call of a phrase that starts with a year.
LEMMA YearMonthDayStep ==
  ASSUME NEW p, IsPhrase(p), NEW s, NEW k \in 0..(Len(p.calls) - 1), NEW years,
         p.form = "year_month_day",
         self.dateTime = DateAfter(p, s, k, self.year), Fitted(p, s, k),
         \A i \in 1..k : FieldRead(self, p.calls[i], years),
         Effect(p.calls[k + 1]), DateEffect(p.calls[k + 1])
  PROVE  /\ self'.dateTime = DateAfter(p, s, k + 1, self'.year)
         /\ Fitted(p, s, k + 1)
<1> DEFINE n == Count(p)
           t == ToYear(p, s)
           c == p.calls
<1>1. /\ NamesMonthAndDay(p) /\ NamesYear(p) /\ Len(c) = n + 2
      /\ c[1] = YearCall(p) /\ MonthAndDayCalls(p, c, 1)
      /\ c[n + 2] = CallOf("month_day_year", 0)
  BY CallsFit DEF Shape, IsPhrase
<1>2. n \in {1, 3, 4} /\ k \in 0..(n + 1)
  BY <1>1 DEF Count
<1>3. \A j, v : DateAfter(p, s, j, v) =
             IF j = 0 THEN s
             ELSE IF j <= n + 1 THEN AfterMonthAndDay(p, t, j - 1)
             ELSE WithYear(AfterMonthAndDay(p, t, n), v)
  BY DEF DateAfter
<1>4. \A j : Fitted(p, s, j) <=> (j > n => FitsIn(p, t))
  BY DEF Fitted
<1>5. Effect(c[k + 1]) /\ DateEffect(c[k + 1]) /\ \A i \in 1..k : FieldRead(self, c[i], years)
  OBVIOUS
<1>6. CASE k = 0
  <2>1. self.dateTime = s
    BY <1>3, <1>6
  <2>2. self'.dateTime = t
    BY <1>1, <1>5, <1>6, <2>1, YearStep
  <2>3. AfterMonthAndDay(p, t, 0) = t
    BY DEF AfterMonthAndDay
  <2> HIDE DEF n, t, c
  <2>4. DateAfter(p, s, 0 + 1, self'.year) = t
    BY <1>2, <1>3, <2>3
  <2> QED  BY <1>2, <1>4, <1>6, <2>2, <2>4
<1>7. CASE k \in 1..n
  <2> DEFINE j == k - 1
  <2>1. j \in 0..(n - 1) /\ 1 + j + 1 = k + 1 /\ (j + 1 = n <=> k = n)
    BY <1>2, <1>7
  <2>2. \A i \in (1 + 1)..(1 + j) : FieldRead(self, c[i], years)
    BY <1>2, <1>5
  <2>3. self.dateTime = AfterMonthAndDay(p, t, j)
    BY <1>2, <1>3, <1>7
  <2> HIDE DEF t, c, j
  <2>4. self'.dateTime = AfterMonthAndDay(p, t, j + 1) /\ (j + 1 = n => FitsIn(p, t))
    BY <1>1, <1>5, <2>1, <2>2, <2>3, MonthAndDayStep
  <2> HIDE DEF n
  <2>5. DateAfter(p, s, k + 1, self'.year) = AfterMonthAndDay(p, t, k + 1 - 1)
    BY <1>2, <1>3, <1>7
  <2>6. k + 1 - 1 = j + 1
    BY <1>7 DEF j
  <2>7. k + 1 > n => k = n
    BY <1>2, <1>7
  <2> QED  BY <1>4, <2>1, <2>4, <2>5, <2>6, <2>7
<1>8. CASE k = n + 1
  <2>1. c[k + 1].on = "month_day_year"
    <3>1. k + 1 = n + 2
      BY <1>2, <1>8
    <3> QED  BY <1>1, <3>1 DEF CallOf
  <2>2. self'.year = self.year /\ self'.dateTime = WithYear(self.dateTime, self.year)
    BY <1>5, <2>1 DEF Effect, DateEffect
  <2>3. self.dateTime = AfterMonthAndDay(p, t, n)
    <3>1. k # 0 /\ k <= n + 1 /\ k - 1 = n
      BY <1>2, <1>8
    <3> QED  BY <1>3, <3>1
  <2>4. FitsIn(p, t)
    BY <1>2, <1>4, <1>8
  <2> HIDE DEF n, t, c
  <2>5. DateAfter(p, s, k + 1, self'.year) = WithYear(AfterMonthAndDay(p, t, n), self'.year)
    BY <1>2, <1>3, <1>8
  <2> QED  BY <1>4, <2>2, <2>3, <2>4, <2>5
<1> QED  BY <1>2, <1>6, <1>7, <1>8

\* One call of a phrase that ends with a year.
LEMMA MonthDayYearStep ==
  ASSUME NEW p, IsPhrase(p), NEW s, NEW k \in 0..(Len(p.calls) - 1), NEW years,
         p.form = "month_day_year",
         self.dateTime = DateAfter(p, s, k, self.year), Fitted(p, s, k),
         \A i \in 1..k : FieldRead(self, p.calls[i], years),
         Effect(p.calls[k + 1]), DateEffect(p.calls[k + 1])
  PROVE  /\ self'.dateTime = DateAfter(p, s, k + 1, self'.year)
         /\ Fitted(p, s, k + 1)
<1> DEFINE n == Count(p)
           t == AfterMonthAndDay(p, s, n)
           c == p.calls
<1>1. /\ NamesMonthAndDay(p) /\ NamesYear(p) /\ Len(c) = n + 2
      /\ c[n + 1] = YearCall(p) /\ MonthAndDayCalls(p, c, 0)
      /\ c[n + 2] = CallOf("month_day_year", 0)
  BY CallsFit DEF Shape, IsPhrase
<1>2. n \in {1, 3, 4} /\ k \in 0..(n + 1)
  BY <1>1 DEF Count
<1>3. \A j, v : DateAfter(p, s, j, v) =
             IF j <= n THEN AfterMonthAndDay(p, s, j)
             ELSE IF j = n + 1 THEN ToYear(p, t)
             ELSE WithYear(ToYear(p, t), v)
  BY DEF DateAfter
<1>4. \A j : Fitted(p, s, j) <=> (j >= n => FitsIn(p, s))
  BY DEF Fitted
<1>5. Effect(c[k + 1]) /\ DateEffect(c[k + 1]) /\ \A i \in 1..k : FieldRead(self, c[i], years)
  OBVIOUS
<1>6. CASE k \in 0..(n - 1)
  <2>1. 0 + k + 1 = k + 1 /\ (0 + 1)..(0 + k) = 1..k /\ (k + 1 >= n => k + 1 = n)
    BY <1>2, <1>6
  <2>2. self.dateTime = AfterMonthAndDay(p, s, k)
    BY <1>2, <1>3, <1>6
  <2> HIDE DEF t, c
  <2>3. self'.dateTime = AfterMonthAndDay(p, s, k + 1) /\ (k + 1 = n => FitsIn(p, s))
    BY <1>1, <1>5, <1>6, <2>1, <2>2, MonthAndDayStep
  <2> HIDE DEF n
  <2>4. DateAfter(p, s, k + 1, self'.year) = AfterMonthAndDay(p, s, k + 1)
    BY <1>2, <1>3, <1>6
  <2> QED  BY <1>4, <2>1, <2>3, <2>4
<1>7. CASE k = n
  <2>1. self.dateTime = t
    BY <1>2, <1>3, <1>7
  <2>2. FitsIn(p, s)
    BY <1>2, <1>4, <1>7
  <2> HIDE DEF t
  <2>3. self'.dateTime = ToYear(p, t)
    BY <1>1, <1>5, <1>7, <2>1, YearStep
  <2> HIDE DEF n, c
  <2>4. DateAfter(p, s, k + 1, self'.year) = ToYear(p, t)
    BY <1>2, <1>3, <1>7
  <2> QED  BY <1>4, <2>2, <2>3, <2>4
<1>8. CASE k = n + 1
  <2>1. c[k + 1].on = "month_day_year"
    <3>1. k + 1 = n + 2
      BY <1>2, <1>8
    <3> QED  BY <1>1, <3>1 DEF CallOf
  <2>2. self'.year = self.year /\ self'.dateTime = WithYear(self.dateTime, self.year)
    BY <1>5, <2>1 DEF Effect, DateEffect
  <2>3. self.dateTime = ToYear(p, t)
    BY <1>2, <1>3, <1>8
  <2>4. FitsIn(p, s)
    BY <1>2, <1>4, <1>8
  <2> HIDE DEF n, t, c
  <2>5. DateAfter(p, s, k + 1, self'.year) = WithYear(ToYear(p, t), self'.year)
    BY <1>2, <1>3, <1>8
  <2> QED  BY <1>4, <2>2, <2>3, <2>4, <2>5
<1> QED  BY <1>2, <1>6, <1>7, <1>8

\* A date in numbers has a year, a month and a day.
LEMMA FullDateYear ==
  ASSUME NEW p, IsPhrase(p), p.form = "full_date"
  PROVE  p.y \in Nat /\ NamesMonthAndDay(p)
  BY DEF IsPhrase

\* One call of a date in numbers.
LEMMA FullDateStep ==
  ASSUME NEW p, IsPhrase(p), NEW s, NEW k \in 0..(Len(p.calls) - 1), NEW years,
         p.form = "full_date",
         self.dateTime = DateAfter(p, s, k, self.year),
         \A i \in 1..k : FieldRead(self, p.calls[i], years),
         Effect(p.calls[k + 1]), DateEffect(p.calls[k + 1])
  PROVE  /\ self'.dateTime = DateAfter(p, s, k + 1, self'.year)
         /\ Fitted(p, s, k + 1)
<1> DEFINE c == p.calls
           t == NumericStart(p, s)
<1>1. /\ Len(c) = 5 /\ DayAndMonthCalls(p, c, 0)
      /\ c[4] = (IF p.short THEN CallOf("short_year", p.y - 2000)
                                ELSE CallOf("full_year", p.y))
      /\ c[5] = CallOf("format_full_date", 0)
  BY CallsFit DEF Shape
<1>2. k \in {0, 1, 2, 3, 4}
  BY <1>1
<1>3. \/ /\ c[1].on = "number" /\ c[2].on = "day_number" /\ c[2].arg = p.d
         /\ c[3].on = "month_number" /\ c[3].arg = p.m
      \/ /\ c[1].on = "month_number" /\ c[1].arg = p.m
         /\ c[2].on = "number" /\ c[3].on = "day_number" /\ c[3].arg = p.d
  BY <1>1 DEF DayAndMonthCalls, CallOf
<1>4. c[5].on = "format_full_date"
  BY <1>1 DEF CallOf
<1>5. /\ p.short => c[4].on = "short_year" /\ c[4].arg = p.y - 2000
      /\ ~p.short => c[4].on = "full_year" /\ c[4].arg = p.y
  BY <1>1 DEF CallOf
<1>6. \A j, v : DateAfter(p, s, j, v) =
             IF j < 4 THEN s
             ELSE IF j = 4 THEN t
             ELSE WithMonth(WithYear(WithDay(t, p.d), p.y), p.m)
  BY DEF DateAfter
<1>7. \A j : Fitted(p, s, j) <=> (j = 5 => Holds(t, p.d))
  BY DEF Fitted
<1>8. Effect(c[k + 1]) /\ DateEffect(c[k + 1]) /\ \A i \in 1..k : FieldRead(self, c[i], years)
  OBVIOUS
<1>9. p.y \in Nat
  BY FullDateYear
<1> HIDE DEF c
<1>10. CASE k \in {0, 1, 2}
  <2>1. c[k + 1].on \in {"number", "day_number", "month_number"}
    BY <1>3, <1>10
  <2>2. self'.dateTime = self.dateTime
    BY <1>8, <2>1 DEF DateEffect
  <2> HIDE DEF t
  <2> QED  BY <1>6, <1>7, <1>10, <2>2
<1>11. CASE k = 3
  <2>1. self.dateTime = s
    BY <1>6, <1>11
  <2>2. self'.dateTime = t
    <3>1. CASE p.short
      <4>1. self'.dateTime = self.dateTime
        BY <1>5, <1>8, <1>11, <3>1 DEF DateEffect
      <4> QED  BY <2>1, <3>1, <4>1 DEF NumericStart
    <3>2. CASE ~p.short
      <4>1. self'.dateTime = Date(p.y, 1, 1)
        BY <1>5, <1>8, <1>11, <3>2 DEF DateEffect
      <4> QED  BY <3>2, <4>1 DEF NumericStart
    <3> QED  BY <3>1, <3>2
  <2> HIDE DEF t
  <2> QED  BY <1>6, <1>7, <1>11, <2>2
<1>12. CASE k = 4
  <2> HIDE DEF t
  <2>1. self.dateTime = t
    BY <1>6, <1>12
  <2>2. /\ FieldRead(self, c[1], years) /\ FieldRead(self, c[2], years)
        /\ FieldRead(self, c[3], years) /\ FieldRead(self, c[4], years)
    BY <1>8, <1>12
  <2>3. self.dayNum = p.d /\ self.monthNum = p.m
    BY <1>3, <2>2 DEF FieldRead
  <2>4. self.year = p.y
    <3>1. self.year = 2000 + (p.y - 2000) \/ self.year = p.y
      BY <1>5, <2>2 DEF FieldRead
    <3> QED  BY <1>9, <3>1
  <2>5. DayFits /\ self'.dateTime = WithMonth(WithYear(WithDay(t, p.d), p.y), p.m)
    BY <1>4, <1>8, <1>12, <2>1, <2>3, <2>4 DEF DateEffect
  <2>6. Holds(t, p.d)
    BY <2>1, <2>3, <2>5 DEF DayFits, Today
  <2> QED  BY <1>6, <1>7, <1>12, <2>5, <2>6
<1> QED  BY <1>2, <1>10, <1>11, <1>12

\* One call of any phrase.
LEMMA CalledStep ==
  ASSUME NEW p, IsPhrase(p), NEW s, NEW k \in 0..(Len(p.calls) - 1), NEW years,
         self.dateTime = DateAfter(p, s, k, self.year), Fitted(p, s, k),
         \A i \in 1..k : FieldRead(self, p.calls[i], years),
         Effect(p.calls[k + 1]), DateEffect(p.calls[k + 1])
  PROVE  /\ self'.dateTime = DateAfter(p, s, k + 1, self'.year)
         /\ Fitted(p, s, k + 1)
<1>1. CASE p.form \in {"weekday", "weekday_of_week", "today", "tomorrow", "days", "week", "year"}
  <2>1. self'.dateTime = DateAfter(p, s, k + 1, self'.year)
    BY <1>1, RelativeStep
  <2>2. Fitted(p, s, k + 1)
    BY <1>1 DEF Fitted
  <2> QED  BY <2>1, <2>2
<1>2. p.form \in {"weekday", "weekday_of_week", "today", "tomorrow", "days", "week", "year",
                  "month_day", "year_month_day", "month_day_year", "full_date"}
  BY DEF IsPhrase
<1> QED  BY <1>1, <1>2, MonthDayPhraseStep, YearMonthDayStep, MonthDayYearStep, FullDateStep

\* Nothing has happened to the date when no handler was called.
LEMMA NothingCalled ==
  ASSUME NEW p, IsPhrase(p), NEW s, NEW v
  PROVE  DateAfter(p, s, 0, v) = s /\ Fitted(p, s, 0)
<1>1. Count(p) \in {1, 3, 4}
  BY DEF Count
<1>2. \A t : AfterMonthAndDay(p, t, 0) = t
  BY DEF AfterMonthAndDay
<1>3. p.form \in {"weekday", "weekday_of_week", "today", "tomorrow", "days", "week", "year",
                  "month_day", "year_month_day", "month_day_year", "full_date"}
  BY DEF IsPhrase
<1> QED  BY <1>1, <1>2, <1>3 DEF DateAfter, Fitted

\* The invariant holds when the listener is made.
LEMMA StartsInvariant ==
  ASSUME Init
  PROVE  IInv
<1>1. phrase \in Phrases /\ IsPhrase(phrase) /\ made \in Clocks /\ now = made
      /\ calls = phrase.calls /\ status = "running"
  BY PhraseAssumption DEF Init
<1>2. phrase.calls \in Seq(Calls)
  BY <1>1, CallsFit DEF Shape
<1>3. Returned = 0
  <2>1. Len(calls) \in Nat /\ Len(phrase.calls) = Len(calls)
    BY <1>1, <1>2
  <2> QED  BY <2>1 DEF Returned
<1>4. CallsLeft
  <2>1. calls \in Seq(Calls) /\ Len(calls) \in Nat /\ Len(calls) = Len(phrase.calls)
    BY <1>1, <1>2
  <2>2. \A j \in 1..Len(calls) : 0 + j = j
    OBVIOUS
  <2> QED  BY <1>1, <1>3, <2>1, <2>2 DEF CallsLeft
<1>5. ClocksAreDays
  <2>1. IsDay(made) /\ made.y >= 1970
    BY <1>1, ClockAssumption DEF IsDay, Days
  <2>2. DayNumber(made) \in Int
    BY <2>1, NumberOfDay
  <2> QED  BY <1>1, <2>1, <2>2 DEF ClocksAreDays
<1>6. self = [number |-> 0, year |-> 0, monthNum |-> 0, dayNum |-> 0,
              dayOfWeek |-> 0, month |-> 0, dateTime |-> made]
  BY DEF Init
<1>7. self \in Fields
  <2>1. made \in Days
    BY <1>5 DEF ClocksAreDays, IsDay
  <2> QED  BY <1>6, <2>1 DEF Fields
<1>8. FieldsAreRead
  BY <1>3 DEF FieldsAreRead
<1>9. DateIsReached /\ WhatFitted
  <2>1. self.dateTime = made
    BY <1>6
  <2> QED  BY <1>1, <1>3, <2>1, NothingCalled DEF DateIsReached, WhatFitted
<1>10. StatusIsOfCalls
  BY <1>1 DEF StatusIsOfCalls
<1> QED  BY <1>4, <1>5, <1>7, <1>8, <1>9, <1>10 DEF IInv

\* Every handler keeps it.
LEMMA HandlerKeeps ==
  ASSUME IInv, Handler
  PROVE  IInv'
<1> DEFINE c == Head(calls)
           p == phrase
           k == Returned
           years == made.y..now.y
<1>1. calls # <<>> /\ status = "running"
  BY DEF Handler, Running, Called, ExitNumber, ExitDayOfWeek, ExitDayNumber, ExitMonthNumber,
         ExitTomorrow, ExitDaysFromNow, ExitWeek, ExitDayOfNeighbourWeek, ExitWeekday,
         ExitSpelledMonth, ExitSpelledMonthDay, ExitYear, ExitShortYear, ExitFullYear,
         ExitMonthDayYear, ExitFormatFullDate, ExitFormatMonthDay, ThrowSpelledMonthDay,
         ThrowFormat
<1>2. IsPhrase(p)
  BY PhraseAssumption DEF IInv, CallsLeft
<1>3. c = p.calls[k + 1] /\ k \in Nat /\ k + 1 \in 1..Len(p.calls)
  BY <1>1, <1>2, NextCall DEF IInv
<1>4. ArgumentsFit(p.calls)
  BY <1>2, CallsFit
<1>5. /\ c.on \in {"number", "day_number"} => c.arg \in NumberedDay
      /\ c.on \in {"month_number", "spelled_month"} => c.arg \in Month
      /\ c.on = "day_of_week" => c.arg \in DayOfWeek
      /\ c.on = "week" => c.arg \in NeighbourWeeks
      /\ c.on = "year" => c.arg \in NeighbourYears
      /\ c.on = "full_year" => c.arg \in Nat
      /\ c.on = "short_year" => 2000 + c.arg \in Nat
  BY <1>3, <1>4 DEF ArgumentsFit
<1>6. /\ UNCHANGED <<phrase, made, now>>
      /\ \/ status' = status /\ calls' = Tail(calls) /\ Effect(c) /\ DateEffect(c)
         \/ /\ status' = "thrown" /\ UNCHANGED <<self, calls>>
            /\ \/ c.on = "spelled_month_day" /\ ~MonthDayFits
               \/ c.on \in {"format_full_date", "format_month_day"} /\ ~DayFits
  BY <1>5, HandlerStep DEF IInv
<1>7. CASE status' = status /\ calls' = Tail(calls) /\ Effect(c) /\ DateEffect(c)
  <2>1. CallsLeft' /\ Returned' = k + 1
    BY <1>1, <1>2, <1>6, <1>7, CallsLeftStep DEF IInv
  <2>2. ClocksAreDays'
    BY <1>6 DEF IInv, ClocksAreDays
  <2>3. FieldsAreRead'
    BY <1>1, <1>2, <1>6, <1>7, FieldsAreReadStep DEF IInv
  <2>4. self'.dateTime = DateAfter(p, made, k + 1, self'.year) /\ Fitted(p, made, k + 1)
    <3>1. k \in 0..(Len(p.calls) - 1)
      <4>1. Len(p.calls) \in Nat
        BY <1>2, CallsFit DEF Shape
      <4> QED  BY <1>3, <4>1
    <3>2. /\ self.dateTime = DateAfter(p, made, k, self.year) /\ Fitted(p, made, k)
          /\ \A i \in 1..k : FieldRead(self, p.calls[i], years)
      BY DEF IInv, DateIsReached, WhatFitted, FieldsAreRead
    <3>3. Effect(p.calls[k + 1]) /\ DateEffect(p.calls[k + 1])
      BY <1>3, <1>7
    <3> HIDE DEF c, p, k, years
    <3> QED  BY <1>2, <3>1, <3>2, <3>3, CalledStep
  <2>5. DateIsReached' /\ WhatFitted'
    BY <1>6, <2>1, <2>4 DEF DateIsReached, WhatFitted
  <2>6. self'.year \in Nat
    <3>1. self.year \in Nat /\ now.y \in Nat /\ now.y >= 1970
      BY ClocksInOrder DEF IInv, Fields
    <3>2. c.on = "year" => Ahead(c.arg) \in {-1, 0, 1}
      BY <1>5 DEF Ahead, NeighbourYears
    <3> HIDE DEF c
    <3> QED  BY <1>5, <1>7, <3>1, <3>2 DEF Effect
  <2>7. IsDay(self'.dateTime)
    <3>1. IsDay(made) /\ made.y >= 1970
      BY DEF IInv, ClocksAreDays
    <3>2. k + 1 \in 0..Len(p.calls)
      BY <1>3
    <3> HIDE DEF p, k
    <3> QED  BY <1>2, <2>4, <2>6, <3>1, <3>2, DateAfterIsDay
  <2>8. self' \in Fields
    BY <1>5, <1>7, <2>7, FieldRanges DEF IInv
  <2>9. StatusIsOfCalls'
    BY <1>1, <1>7 DEF StatusIsOfCalls
  <2> QED  BY <2>1, <2>2, <2>3, <2>5, <2>8, <2>9 DEF IInv
<1>8. CASE /\ status' = "thrown" /\ UNCHANGED <<self, calls>>
           /\ \/ c.on = "spelled_month_day" /\ ~MonthDayFits
              \/ c.on \in {"format_full_date", "format_month_day"} /\ ~DayFits
  <2>1. CallsLeft' /\ ClocksAreDays' /\ self' \in Fields
    BY <1>6, <1>8 DEF IInv, CallsLeft, ClocksAreDays, Returned
  <2>2. FieldsAreRead' /\ DateIsReached' /\ WhatFitted'
    BY <1>6, <1>8 DEF IInv, FieldsAreRead, DateIsReached, WhatFitted, Returned
  <2>3. StatusIsOfCalls'
    BY <1>1, <1>8 DEF StatusIsOfCalls, MonthDayFits, DayFits, Today
  <2> QED  BY <2>1, <2>2, <2>3 DEF IInv
<1> QED  BY <1>6, <1>7, <1>8

\* Midnight keeps it: the years the clock may have shown grow.
LEMMA MidnightKeeps ==
  ASSUME IInv, Midnight
  PROVE  IInv'
<1>1. UNCHANGED <<phrase, made, self, calls, status>> /\ now' = PlusDays(now, 1)
  BY DEF Midnight
<1>2. /\ IsDay(now') /\ DayNumber(now') = DayNumber(now) + 1
      /\ DayNumber(made) \in Int /\ DayNumber(now) \in Int
      /\ DayNumber(made) <= DayNumber(now) /\ IsDay(now)
  <2>1. DayNumber(made) >= 1000 /\ DayNumber(made) \in Int /\ DayNumber(now) \in Int
        /\ DayNumber(made) <= DayNumber(now) /\ IsDay(now)
    BY DaysOf1970, NumberOfDay DEF IInv, ClocksAreDays
  <2>2. DayNumber(now) + 1 >= 1
    BY <2>1
  <2> QED  BY <1>1, <2>1, <2>2, DaysOn
<1>3. ClocksAreDays'
  BY <1>1, <1>2 DEF IInv, ClocksAreDays
<1>4. FieldsAreRead'
  <2>1. ~(now'.y < now.y)
    BY <1>2, LaterYear
  <2>2. now.y \in Nat /\ now'.y \in Nat /\ made.y \in Nat
    BY <1>2, ClocksInOrder, NumberOfDay DEF IInv
  <2>3. made.y..now.y \subseteq made'.y..now'.y
    BY <1>1, <2>1, <2>2
  <2> DEFINE years == made.y..now.y
             later == made'.y..now'.y
  <2>4. \A j \in 1..Returned : FieldRead(self, phrase.calls[j], years)
    BY DEF IInv, FieldsAreRead
  <2>5. years \subseteq later
    BY <2>3
  <2> HIDE DEF years, later
  <2>6. \A j \in 1..Returned : FieldRead(self, phrase.calls[j], later)
    BY <2>4, <2>5 DEF FieldRead
  <2>7. Returned' = Returned /\ self' = self /\ phrase' = phrase
    BY <1>1 DEF Returned
  <2> QED  BY <2>6, <2>7 DEF FieldsAreRead, later
<1>5. CallsLeft' /\ self' \in Fields /\ DateIsReached' /\ WhatFitted'
  BY <1>1 DEF IInv, CallsLeft, DateIsReached, WhatFitted, Returned
<1>6. StatusIsOfCalls'
  BY <1>1 DEF IInv, StatusIsOfCalls, MonthDayFits, DayFits, Today
<1> QED  BY <1>3, <1>4, <1>5, <1>6 DEF IInv

\* The end of the parse keeps it.
LEMMA OthersKeep ==
  ASSUME IInv, Done \/ UNCHANGED vars
  PROVE  IInv'
<1>1. UNCHANGED <<phrase, made, now, self, calls>>
  BY DEF Done, vars
<1>2. CallsLeft' /\ ClocksAreDays' /\ self' \in Fields
  BY <1>1 DEF IInv, CallsLeft, ClocksAreDays, Returned
<1>3. FieldsAreRead' /\ DateIsReached' /\ WhatFitted'
  BY <1>1 DEF IInv, FieldsAreRead, DateIsReached, WhatFitted, Returned
<1>4. StatusIsOfCalls'
  BY <1>1 DEF IInv, StatusIsOfCalls, MonthDayFits, DayFits, Today, Done, vars
<1> QED  BY <1>2, <1>3, <1>4 DEF IInv

\* The fields and the date are always those after the calls that have returned, and a
\* handler has thrown only where the day does not fit.
THEOREM Invariance ==
  Spec => []IInv
<1>1. Init => IInv
  BY StartsInvariant
<1>2. IInv /\ [Next]_vars => IInv'
  BY HandlerKeeps, MidnightKeeps, OthersKeep DEF Next
<1> QED  BY <1>1, <1>2, PTL DEF Spec

\* The fields hold what the rules can put there, and the date is a day of the calendar.
THEOREM TypeCorrect ==
  Spec => []TypeOK
<1>1. IInv => TypeOK
  <2>1. ASSUME IInv PROVE TypeOK
    <3>1. self \in Fields /\ ClocksAreDays /\ status \in {"running", "done", "thrown"}
      BY <2>1 DEF IInv, StatusIsOfCalls
    <3>2. IsDate(self.dateTime)
      <4> DEFINE p == phrase
                 k == Returned
                 v == self.year
      <4>1. IsPhrase(p) /\ calls \in Seq(Calls) /\ Len(calls) <= Len(p.calls)
        BY <2>1, PhraseAssumption DEF IInv, CallsLeft
      <4>2. p.calls \in Seq(Calls)
        BY <4>1, CallsFit DEF Shape
      <4>3. k \in 0..Len(p.calls)
        <5>1. Len(calls) \in Nat /\ Len(p.calls) \in Nat
          BY <4>1, <4>2
        <5> QED  BY <4>1, <5>1 DEF Returned
      <4>4. IsDay(made) /\ made.y >= 1970 /\ Fitted(p, made, k) /\ v \in Nat
            /\ self.dateTime = DateAfter(p, made, k, v)
        BY <2>1, <3>1 DEF IInv, ClocksAreDays, WhatFitted, DateIsReached, Fields
      <4> HIDE DEF p, k, v
      <4>5. IsDay(self.dateTime)
        BY <4>1, <4>3, <4>4, DateAfterIsDay
      <4> QED  BY <4>5 DEF IsDay
    <3> QED  BY <3>1, <3>2 DEF TypeOK, Fields, Days, ClocksAreDays
  <2> QED  BY <2>1
<1> QED  BY <1>1, Invariance, PTL

--------------------------------------------------------------------------
(* The answers. *)

\* When the parser is done, the answer is the date after all the phrase's calls.
LEMMA AnswerIs ==
  ASSUME IInv, status = "done"
  PROVE  LET n == Len(phrase.calls)
         IN  /\ IsPhrase(phrase) /\ Shape(phrase)
             /\ IsDay(made) /\ made.y >= 1970
             /\ Answer = DateAfter(phrase, made, n, self.year)
             /\ Fitted(phrase, made, n)
             /\ \A i \in 1..n : FieldRead(self, phrase.calls[i], made.y..now.y)
             /\ self.year \in Nat
<1>1. IsPhrase(phrase) /\ Shape(phrase)
  BY PhraseAssumption, CallsFit DEF IInv, CallsLeft
<1>2. calls = <<>>
  BY DEF IInv, StatusIsOfCalls
<1>3. Returned = Len(phrase.calls)
  <2>1. Len(calls) = 0
    BY <1>2
  <2>2. phrase.calls \in Seq(Calls)
    BY <1>1 DEF Shape
  <2>3. Len(phrase.calls) \in Nat
    BY <2>2
  <2> QED  BY <2>1, <2>3 DEF Returned
<1> QED  BY <1>1, <1>3 DEF IInv, ClocksAreDays, DateIsReached, WhatFitted, FieldsAreRead,
                           Answer, Fields

\* The Monday of a day's week.
LEMMA MondayOf ==
  ASSUME NEW t, IsDay(t), DayNumber(t) >= 8
  PROVE  /\ DayNumber(Monday(t)) = DayNumber(t) - (DayOfWeekOf(t) - 1)
         /\ DayNumber(Monday(t)) \in Int /\ DayOfWeekOf(t) \in 1..7
         /\ DayOfWeekOf(t) = ((DayNumber(t) + 6) % 7) + 1
<1> DEFINE n == DayNumber(t)
           w == DayOfWeekOf(t)
<1>1. n \in Nat /\ n >= 8
  BY NumberOfDay
<1>2. w = ((n + 6) % 7) + 1
  BY DEF DayOfWeekOf
<1> HIDE DEF n, w
<1>3. w \in 1..7
  BY <1>1, <1>2
<1> DEFINE k == -((w - 1 + 7) % 7)
<1>4. k = -(w - 1) /\ k \in Int
  BY <1>3
<1>5. Monday(t) = PlusDays(t, k)
  BY DEF Monday, PreviousOrSameDow, w
<1> HIDE DEF k
<1>6. n + k >= 1
  BY <1>1, <1>3, <1>4
<1>7. DayNumber(PlusDays(t, k)) = n + k
  BY <1>4, <1>6, DaysOn DEF n
<1>8. DayNumber(Monday(t)) = n - (w - 1)
  BY <1>1, <1>3, <1>4, <1>5, <1>7
<1> QED  BY <1>1, <1>2, <1>3, <1>8 DEF n, w

\* Days of one week, by their numbers and days of the week.
LEMMA SameWeek ==
  ASSUME NEW a \in Nat, NEW b \in Nat, NEW v \in 1..7, NEW w \in 1..7,
         v = ((a + 6) % 7) + 1, w = ((b + 6) % 7) + 1
  PROVE  /\ b - a \in 1..7 /\ v < w => b - (w - 1) = a - (v - 1)
         /\ b - a \in -7..-1 /\ v > w => b - (w - 1) = a - (v - 1)
  OBVIOUS

\* A Monday is as many weeks away as its number says.
LEMMA WeekOfMonday ==
  ASSUME NEW a \in Nat, NEW b \in Nat, NEW v \in 1..7,
         v = ((a + 6) % 7) + 1, (b + 6) % 7 = 0
  PROVE  /\ b - a \in 1..7 => (b - (a - (v - 1))) \div 7 = 1
         /\ b - a \in -6..0 => (b - (a - (v - 1))) \div 7 = 0
         /\ b - a \in -13..-7 => (b - (a - (v - 1))) \div 7 = -1
<1>1. b - a \in 1..7 => b - (a - (v - 1)) = 7
  OBVIOUS
<1>2. b - a \in -6..0 => b - (a - (v - 1)) = 0
  OBVIOUS
<1>3. b - a \in -13..-7 => b - (a - (v - 1)) = -7
  OBVIOUS
<1>4. 7 \div 7 = 1 /\ 0 \div 7 = 0 /\ (-7) \div 7 = -1
  OBVIOUS
<1> QED  BY <1>1, <1>2, <1>3, <1>4

\* The Monday on or up to six days before a day is the Monday of its week.
LEMMA MondayBefore ==
  ASSUME NEW b \in Nat, (b + 6) % 7 = 0, NEW c \in Nat, c - b \in 0..6,
         NEW w \in 1..7, w = ((c + 6) % 7) + 1
  PROVE  c - (w - 1) = b
  OBVIOUS

\* What a phrase with a day of the week is resolved to, from the day s.
LEMMA WeekdayAnswer ==
  ASSUME NEW p, IsPhrase(p), p.form = "weekday", NEW s, IsDay(s), s.y >= 1970
  PROVE  LET u == ToWeekday(s, p.which, p.dow)
             ahead == DayNumber(u) - DayNumber(s)
         IN  /\ DayOfWeekOf(u) = p.dow
             /\ p.which = "next" => ahead \in 1..7
             /\ p.which = "previous" => ahead \in -7..-1
             /\ p.which = "this" => DayNumber(Monday(u)) = DayNumber(Monday(s))
             /\ p.which \in {"next", "previous", "this"}
<1> DEFINE u == ToWeekday(s, p.which, p.dow)
           a == DayNumber(s)
           b == DayNumber(u)
<1>1. p.which \in {"next", "previous", "this"} /\ p.dow \in DayOfWeek
  BY DEF IsPhrase
<1>2. /\ IsDay(u) /\ DayOfWeekOf(u) = p.dow
      /\ p.which = "next" => b - a \in 1..7
      /\ p.which = "previous" => b - a \in -7..-1
      /\ p.which = "this" =>
           \/ DayOfWeekOf(s) < p.dow /\ b - a \in 1..7
           \/ DayOfWeekOf(s) > p.dow /\ b - a \in -7..-1
           \/ u = s
  BY <1>1, WeekdayDays
<1>3. a >= 1000 /\ a \in Int /\ b \in Int
  BY <1>2, DaysOf1970, NumberOfDay
<1> HIDE DEF u
<1>4. ASSUME p.which = "this", u # s
      PROVE  DayNumber(Monday(u)) = DayNumber(Monday(s))
  <2> HIDE DEF a, b
  <2>1. b \in Nat /\ b >= 8 /\ a \in Nat /\ a >= 8
    BY <1>2, <1>3, <1>4
  <2>2. /\ DayNumber(Monday(u)) = b - (p.dow - 1) /\ p.dow \in 1..7
        /\ p.dow = ((b + 6) % 7) + 1
    BY <1>2, <2>1, MondayOf DEF b
  <2>3. /\ DayNumber(Monday(s)) = a - (DayOfWeekOf(s) - 1) /\ DayOfWeekOf(s) \in 1..7
        /\ DayOfWeekOf(s) = ((a + 6) % 7) + 1
    BY <2>1, MondayOf DEF a
  <2> DEFINE v == DayOfWeekOf(s)
             w == p.dow
  <2>4. \/ v < w /\ b - a \in 1..7
        \/ v > w /\ b - a \in -7..-1
    BY <1>2, <1>4
  <2>5. v \in 1..7 /\ w \in 1..7 /\ v = ((a + 6) % 7) + 1 /\ w = ((b + 6) % 7) + 1
    BY <2>2, <2>3
  <2>6. DayNumber(Monday(u)) = b - (w - 1) /\ DayNumber(Monday(s)) = a - (v - 1)
    BY <2>2, <2>3
  <2> HIDE DEF v, w
  <2>7. b - (w - 1) = a - (v - 1)
    BY <2>1, <2>4, <2>5, SameWeek
  <2> QED  BY <2>6, <2>7
<1> QED  BY <1>1, <1>2, <1>4 DEF u

\* What "friday next week" is resolved to, from the day s.
LEMMA WeekdayOfWeekAnswer ==
  ASSUME NEW p, IsPhrase(p), p.form = "weekday_of_week", NEW s, IsDay(s), s.y >= 1970
  PROVE  LET u == NextOrSameDow(ToWeek(s, p.which), p.dow)
         IN  /\ DayOfWeekOf(u) = p.dow
             /\ (DayNumber(Monday(u)) - DayNumber(Monday(s))) \div 7 = Ahead(p.which)
<1> DEFINE t == ToWeek(s, p.which)
           u == NextOrSameDow(t, p.dow)
           a == DayNumber(s)
           b == DayNumber(t)
           c == DayNumber(u)
           v == DayOfWeekOf(s)
<1>1. p.which \in NeighbourWeeks /\ p.dow \in DayOfWeek
  BY DEF IsPhrase
<1>2. /\ IsDay(t) /\ DayOfWeekOf(t) = 1 /\ b \in Int /\ b - a \in -13..7
      /\ p.which = "next" => b - a \in 1..7
      /\ p.which = "last" => b - a \in -13..-7
      /\ p.which = "this" => b - a \in -6..0
  BY <1>1, WeekDays
<1>3. a >= 1000 /\ a \in Int
  BY DaysOf1970, NumberOfDay
<1> HIDE DEF t, a, b
<1>4. a \in Nat /\ a >= 8 /\ b \in Nat /\ b >= 8
  BY <1>2, <1>3
<1>5. IsDay(u) /\ DayOfWeekOf(u) = p.dow /\ c - b \in 0..6 /\ c \in Int
  BY <1>1, <1>2, <1>4, AdjustedDays, NumberOfDay DEF b
<1> HIDE DEF u, c
<1>6. c \in Nat /\ c >= 8
  BY <1>4, <1>5
<1>7. DayNumber(Monday(s)) = a - (v - 1) /\ v \in 1..7 /\ v = ((a + 6) % 7) + 1
  BY <1>4, MondayOf DEF a
<1>8. /\ DayNumber(Monday(u)) = c - (p.dow - 1) /\ p.dow \in 1..7
      /\ p.dow = ((c + 6) % 7) + 1
  BY <1>5, <1>6, MondayOf DEF c
<1>9. (b + 6) % 7 = 0
  <2>1. DayOfWeekOf(t) = ((b + 6) % 7) + 1
    BY <1>2, <1>4, MondayOf DEF b
  <2>2. (b + 6) % 7 \in Int
    BY <1>4
  <2> QED  BY <1>2, <2>1, <2>2
<1> HIDE DEF v
<1>10. /\ b - a \in 1..7 => (b - (a - (v - 1))) \div 7 = 1
       /\ b - a \in -6..0 => (b - (a - (v - 1))) \div 7 = 0
       /\ b - a \in -13..-7 => (b - (a - (v - 1))) \div 7 = -1
       /\ c - (p.dow - 1) = b
  <2> DEFINE w == p.dow
  <2>1. w \in 1..7 /\ w = ((c + 6) % 7) + 1
    BY <1>8
  <2> HIDE DEF w
  <2>2. c - (w - 1) = b
    BY <1>4, <1>5, <1>6, <1>9, <2>1, MondayBefore
  <2> QED  BY <1>4, <1>7, <1>9, <2>2, WeekOfMonday DEF w
<1>11. (b - (a - (v - 1))) \div 7 = Ahead(p.which)
  BY <1>1, <1>2, <1>10 DEF NeighbourWeeks, Ahead
<1>12. DayOfWeekOf(u) = p.dow
       /\ (DayNumber(Monday(u)) - DayNumber(Monday(s))) \div 7 = Ahead(p.which)
  BY <1>5, <1>7, <1>8, <1>10, <1>11
<1> QED  BY <1>12 DEF u, t

\* A phrase with a day of the week is resolved to that day, in the week it names or
\* within seven days, after any number of calls and midnights in between.
THEOREM WeekdaysAlwaysFallInTheirWeek ==
  Spec => []WeekdaysFallInTheirWeek
<1>1. ASSUME IInv PROVE WeekdaysFallInTheirWeek
  <2>1. SUFFICES ASSUME status = "done"
                 PROVE  WeekdaysFallInTheirWeek
    BY DEF WeekdaysFallInTheirWeek
  <2>2. /\ IsPhrase(phrase) /\ Shape(phrase)
        /\ IsDay(made) /\ made.y >= 1970
        /\ Answer = DateAfter(phrase, made, Len(phrase.calls), self.year)
    BY <1>1, <2>1, AnswerIs
  <2>3. DayNumber(Monday(made)) \in Int
    <3>1. DayNumber(made) >= 1000 /\ DayNumber(made) \in Int
      BY <2>2, DaysOf1970, NumberOfDay
    <3>2. DayNumber(made) >= 8
      BY <3>1
    <3> QED  BY <2>2, <3>2, MondayOf
  <2>4. CASE phrase.form = "weekday"
    <3>1. Len(phrase.calls) = 2
      BY <2>2, <2>4 DEF Shape
    <3>2. Answer = ToWeekday(made, phrase.which, phrase.dow)
      BY <2>2, <2>4, <3>1 DEF DateAfter
    <3> DEFINE u == Answer
    <3>3. /\ DayOfWeekOf(u) = phrase.dow
          /\ phrase.which = "next" => DayNumber(u) - DayNumber(made) \in 1..7
          /\ phrase.which = "previous" => DayNumber(u) - DayNumber(made) \in -7..-1
          /\ phrase.which = "this" => DayNumber(Monday(u)) = DayNumber(Monday(made))
          /\ phrase.which \in {"next", "previous", "this"}
      BY <2>2, <2>4, <3>2, WeekdayAnswer
    <3> HIDE DEF u
    <3>4. phrase.which = "this" => WeeksAway(u) = 0
      BY <2>3, <3>3 DEF WeeksAway
    <3> QED  BY <2>4, <3>3, <3>4 DEF WeekdaysFallInTheirWeek, u
  <2>5. CASE phrase.form = "weekday_of_week"
    <3>1. Len(phrase.calls) = 3
      BY <2>2, <2>5 DEF Shape
    <3>2. Answer = NextOrSameDow(ToWeek(made, phrase.which), phrase.dow)
      BY <2>2, <2>5, <3>1 DEF DateAfter
    <3>3. DayOfWeekOf(Answer) = phrase.dow /\ WeeksAway(Answer) = Ahead(phrase.which)
      BY <2>2, <2>5, <3>2, WeekdayOfWeekAnswer DEF WeeksAway
    <3> QED  BY <2>5, <3>3 DEF WeekdaysFallInTheirWeek
  <2>6. CASE phrase.form \notin {"weekday", "weekday_of_week"}
    BY <2>6 DEF WeekdaysFallInTheirWeek
  <2> QED  BY <2>4, <2>5, <2>6
<1> QED  BY <1>1, Invariance, PTL

\* A spelled month and day without a year come in this year or the next, and are not
\* before the day on which the listener was made.  The code never goes back, and so not
\* for a month alone that runs (what test.json:408 expects of "In January").
THEOREM MonthDaysAreNeverPast ==
  Spec => []MonthDaysAreNotPast
<1>1. ASSUME IInv PROVE MonthDaysAreNotPast
  <2>1. SUFFICES ASSUME status = "done", phrase.form = "month_day", phrase.by # "numbers"
                 PROVE  /\ Answer.m = phrase.m /\ Answer.d = phrase.d
                        /\ ~Before(Answer, made)
                        /\ Answer.y \in {made.y, made.y + 1}
    BY DEF MonthDaysAreNotPast
  <2> DEFINE p == phrase
             y == ComingYear(p, made)
  <2>2. /\ IsPhrase(p) /\ Shape(p) /\ IsDay(made)
        /\ Answer = DateAfter(p, made, Len(p.calls), self.year)
        /\ Fitted(p, made, Len(p.calls))
    BY <1>1, <2>1, AnswerIs
  <2>3. NamesMonthAndDay(p) /\ Len(p.calls) = Count(p)
    BY <2>1, <2>2 DEF Shape, IsPhrase
  <2>4. FitsIn(p, made) /\ Answer = AfterMonthAndDay(p, made, Count(p))
    BY <2>1, <2>2, <2>3 DEF Fitted, DateAfter
  <2>5. Answer = Date(y, p.m, p.d) /\ IsDay(Answer)
    BY <2>1, <2>2, <2>3, <2>4, MonthAndDayOf
  <2>6. Answer.y = y /\ Answer.m = p.m /\ Answer.d = p.d
    BY <2>5 DEF Date
  <2>7. /\ made.y \in Nat /\ made.m \in Nat /\ made.d \in Nat
        /\ p.m \in Nat /\ p.d \in Nat /\ p.d >= 1
        /\ DayNumber(made) \in Int /\ DayNumber(Answer) \in Int
    <3>1. p.m \in Nat /\ p.d \in Nat /\ p.d >= 1
      <4>1. p.m \in Month /\ p.d \in NumberedDay
        BY <2>3 DEF NamesMonthAndDay
      <4> HIDE DEF p
      <4> QED  BY <4>1 DEF NumberedDay, Month
    <3>2. made.y \in Nat /\ made.m \in Month /\ made.d \in Nat /\ DayNumber(made) \in Int
      BY <2>2, NumberOfDay
    <3>3. DayNumber(Answer) \in Int
      BY <2>5, NumberOfDay
    <3>4. made.m \in Nat
      BY <3>2 DEF Month
    <3> QED  BY <3>1, <3>2, <3>3, <3>4
  <2>8. CASE made.m > p.m \/ (made.m = p.m /\ made.d > 1)
    <3>1. y = made.y + 1
      BY <2>8 DEF ComingYear
    <3>2. made.y < Answer.y
      BY <2>6, <2>7, <3>1
    <3>3. DayNumber(made) < DayNumber(Answer)
      BY <2>2, <2>5, <3>2, LaterYear
    <3> QED  BY <2>6, <2>7, <3>1, <3>3 DEF Before
  <2>9. CASE ~(made.m > p.m \/ (made.m = p.m /\ made.d > 1))
    <3>1. y = made.y
      BY <2>9 DEF ComingYear
    <3>2. made.m < Answer.m \/ (made.m = Answer.m /\ made.d <= Answer.d)
      BY <2>6, <2>7, <2>9
    <3>3. DayNumber(made) <= DayNumber(Answer)
      BY <2>2, <2>5, <2>6, <3>1, <3>2, LaterInYear
    <3> QED  BY <2>6, <2>7, <3>1, <3>3 DEF Before
  <2> QED  BY <2>8, <2>9
<1> QED  BY <1>1, Invariance, PTL

--------------------------------------------------------------------------
(* What throws. *)

\* A handler of a month and a day throws when they do not fit.
LEMMA MonthAndDayThrow ==
  ASSUME NEW p, NamesMonthAndDay(p), NEW c, NEW o \in {0, 1}, MonthAndDayCalls(p, c, o),
         NEW t, NEW j \in 0..(Count(p) - 1), NEW years,
         self.dateTime = AfterMonthAndDay(p, t, j),
         \A i \in (o + 1)..(o + j) : FieldRead(self, c[i], years),
         \/ c[o + j + 1].on = "spelled_month_day" /\ ~MonthDayFits
         \/ c[o + j + 1].on \in {"format_full_date", "format_month_day"} /\ ~DayFits
  PROVE  p.by # "month" /\ ~FitsIn(p, t)
<1>1. CASE p.by = "month"
  <2>1. j = 0
    BY <1>1 DEF Count
  <2>2. c[o + j + 1].on = "spelled_month"
    BY <1>1, <2>1 DEF MonthAndDayCalls, CallOf
  <2> QED  BY <2>2
<1>2. CASE p.by \in {"month_first", "day_first"}
  <2>1. j \in {0, 1, 2} /\ Count(p) = 3
    BY <1>2 DEF Count
  <2>2. /\ c[o + 3].on = "spelled_month_day"
        /\ \/ /\ p.by = "month_first"
              /\ c[o + 1].on = "spelled_month" /\ c[o + 1].arg = p.m
              /\ c[o + 2].on = "number" /\ c[o + 2].arg = p.d
           \/ /\ p.by = "day_first"
              /\ c[o + 2].on = "spelled_month" /\ c[o + 2].arg = p.m
              /\ c[o + 1].on = "number" /\ c[o + 1].arg = p.d
    BY <1>2 DEF MonthAndDayCalls, CallOf
  <2>3. j = 2
    BY <2>1, <2>2
  <2>4. FieldRead(self, c[o + 1], years) /\ FieldRead(self, c[o + 2], years)
    BY <2>3
  <2>5. self.month = p.m /\ self.number = p.d
    BY <2>2, <2>4 DEF FieldRead
  <2>6. ~MonthDayFits
    BY <2>2, <2>3
  <2>7. self.dateTime = InNextMonthDay(t, p.m, 1)
    BY <1>2, <2>3 DEF AfterMonthAndDay
  <2> QED  BY <1>2, <2>5, <2>6, <2>7 DEF FitsIn, MonthDayFits, Today
<1>3. CASE p.by = "numbers"
  <2>1. j \in {0, 1, 2, 3} /\ Count(p) = 4
    BY <1>3 DEF Count
  <2>2. /\ c[o + 4].on = "format_month_day"
        /\ \/ /\ c[o + 1].on = "number" /\ c[o + 2].on = "day_number" /\ c[o + 2].arg = p.d
              /\ c[o + 3].on = "month_number" /\ c[o + 3].arg = p.m
           \/ /\ c[o + 1].on = "month_number" /\ c[o + 1].arg = p.m
              /\ c[o + 2].on = "number" /\ c[o + 3].on = "day_number" /\ c[o + 3].arg = p.d
    BY <1>3 DEF MonthAndDayCalls, DayAndMonthCalls, CallOf
  <2>3. j = 3
    BY <2>1, <2>2
  <2>4. FieldRead(self, c[o + 1], years) /\ FieldRead(self, c[o + 2], years)
        /\ FieldRead(self, c[o + 3], years)
    BY <2>3
  <2>5. self.dayNum = p.d
    BY <2>2, <2>4 DEF FieldRead
  <2>6. ~DayFits
    BY <2>2, <2>3
  <2>7. self.dateTime = t
    BY <1>3, <2>3 DEF AfterMonthAndDay
  <2> QED  BY <1>3, <2>5, <2>6, <2>7 DEF FitsIn, DayFits, Today
<1> QED  BY <1>1, <1>2, <1>3 DEF NamesMonthAndDay

\* The date on which the month and the day of a phrase are set, made on s.
MonthDayStart(p, s) == IF p.form = "year_month_day" THEN ToYear(p, s) ELSE s

\* A phrase without a month never throws, nor does a month alone.
LEMMA ThrownAt ==
  ASSUME IInv, status = "thrown"
  PROVE  LET p == phrase
         IN  /\ IsPhrase(p) /\ IsDay(made) /\ made.y >= 1970
             /\ \/ p.form = "full_date" /\ ~Holds(NumericStart(p, made), p.d)
                \/ /\ p.form \in {"month_day", "year_month_day", "month_day_year"}
                   /\ p.by # "month" /\ ~FitsIn(p, MonthDayStart(p, made))
<1> DEFINE p == phrase
           k == Returned
           c == p.calls
           n == Count(p)
           years == made.y..now.y
<1>1. IsPhrase(p) /\ Shape(p)
  BY PhraseAssumption, CallsFit DEF IInv, CallsLeft
<1>2. /\ calls # <<>>
      /\ \/ Head(calls).on = "spelled_month_day" /\ ~MonthDayFits
         \/ Head(calls).on \in {"format_full_date", "format_month_day"} /\ ~DayFits
  BY DEF IInv, StatusIsOfCalls
<1>3. Head(calls) = c[k + 1] /\ k \in Nat /\ k + 1 \in 1..Len(c)
  BY <1>1, <1>2, NextCall DEF IInv
<1>4. \/ c[k + 1].on = "spelled_month_day" /\ ~MonthDayFits
      \/ c[k + 1].on \in {"format_full_date", "format_month_day"} /\ ~DayFits
  BY <1>2, <1>3
<1>5. /\ self.dateTime = DateAfter(p, made, k, self.year)
      /\ \A i \in 1..k : FieldRead(self, c[i], years)
      /\ IsDay(made) /\ made.y >= 1970
  BY DEF IInv, DateIsReached, FieldsAreRead, ClocksAreDays
<1>6. n \in {1, 3, 4}
  BY DEF Count
<1> HIDE DEF p, k, years
<1>7. CASE p.form \in {"weekday", "weekday_of_week", "today", "tomorrow", "days", "week"}
  <2>1. \A i \in 1..Len(c) : c[i].on \notin {"spelled_month_day", "format_full_date", "format_month_day"}
    <3>3. CASE p.form = "weekday_of_week"
      <4>1. Len(c) = 3
        BY <1>1, <3>3 DEF Shape
      <4>2. \A i \in 1..Len(c) : i \in {1, 2, 3}
        BY <4>1
      <4> QED  BY <1>1, <3>3, <4>2 DEF Shape, CallOf
    <3>4. CASE p.form \in {"weekday", "days"}
      <4>1. Len(c) = 2
        BY <1>1, <3>4 DEF Shape
      <4>2. \A i \in 1..Len(c) : i \in {1, 2}
        BY <4>1
      <4> QED  BY <1>1, <3>4, <4>2 DEF Shape, CallOf
    <3>5. CASE p.form \in {"tomorrow", "week"}
      <4>1. Len(c) = 1
        BY <1>1, <3>5 DEF Shape
      <4>2. \A i \in 1..Len(c) : i = 1
        BY <4>1
      <4> QED  BY <1>1, <3>5, <4>2 DEF Shape, CallOf
    <3>6. CASE p.form = "today"
      <4>1. Len(c) = 0
        BY <1>1, <3>6 DEF Shape
      <4> QED  BY <4>1
    <3> QED  BY <1>7, <3>3, <3>4, <3>5, <3>6
  <2> QED  BY <1>3, <1>4, <2>1
<1>8. ASSUME p.form \in {"year", "year_month_day", "month_day_year"}
      PROVE  YearCall(p).on \in {"year", "full_year"}
  BY DEF YearCall, CallOf
<1>9. CASE p.form = "year"
  <2>1. Len(c) = 1 /\ c[1] = YearCall(p)
    BY <1>1, <1>9 DEF Shape
  <2>2. k = 0
    BY <1>3, <2>1
  <2> QED  BY <1>4, <1>8, <1>9, <2>1, <2>2
<1>10. CASE p.form = "month_day"
  <2>1. NamesMonthAndDay(p) /\ Len(c) = n /\ MonthAndDayCalls(p, c, 0)
    BY <1>1, <1>10 DEF Shape, IsPhrase
  <2>2. k \in 0..(n - 1) /\ 0 + k + 1 = k + 1 /\ (0 + 1)..(0 + k) = 1..k
    BY <1>3, <1>6, <2>1
  <2>3. self.dateTime = AfterMonthAndDay(p, made, k)
    BY <1>5, <1>10 DEF DateAfter
  <2>4. p.by # "month" /\ ~FitsIn(p, made)
    <3>1. \A i \in (0 + 1)..(0 + k) : FieldRead(self, c[i], years)
      BY <1>5, <2>2
    <3>2. \/ c[0 + k + 1].on = "spelled_month_day" /\ ~MonthDayFits
          \/ c[0 + k + 1].on \in {"format_full_date", "format_month_day"} /\ ~DayFits
      BY <1>4, <2>2
    <3> HIDE DEF c
    <3> QED  BY <2>1, <2>2, <2>3, <3>1, <3>2, MonthAndDayThrow
  <2> QED  BY <1>1, <1>5, <1>10, <2>4 DEF MonthDayStart, p
<1>11. CASE p.form = "year_month_day"
  <2> DEFINE t == ToYear(p, made)
             j == k - 1
  <2>1. /\ NamesMonthAndDay(p) /\ Len(c) = n + 2
        /\ c[1] = YearCall(p) /\ MonthAndDayCalls(p, c, 1)
        /\ c[n + 2] = CallOf("month_day_year", 0)
    BY <1>1, <1>11 DEF Shape, IsPhrase
  <2>2. k # 0 /\ k # n + 1
    <3>1. k = 0 => c[k + 1].on \in {"year", "full_year"}
      BY <1>8, <1>11, <2>1
    <3>2. k = n + 1 => c[k + 1] = CallOf("month_day_year", 0)
      BY <1>6, <2>1
    <3>3. k = n + 1 => c[k + 1].on = "month_day_year"
      BY <3>2 DEF CallOf
    <3> QED  BY <1>4, <3>1, <3>3
  <2>3. k \in 1..n
    BY <1>3, <1>6, <2>1, <2>2
  <2>4. j \in 0..(n - 1) /\ 1 + j + 1 = k + 1 /\ (1 + 1)..(1 + j) = 2..k
    BY <1>6, <2>3
  <2>5. self.dateTime = AfterMonthAndDay(p, t, j)
    BY <1>5, <1>6, <1>11, <2>3 DEF DateAfter
  <2>6. \A i \in (1 + 1)..(1 + j) : FieldRead(self, c[i], years)
    BY <1>3, <1>5, <2>4
  <2> HIDE DEF t, j
  <2>7. p.by # "month" /\ ~FitsIn(p, t)
    BY <1>4, <2>1, <2>4, <2>5, <2>6, MonthAndDayThrow
  <2> QED  BY <1>1, <1>5, <1>11, <2>7 DEF MonthDayStart, p, t
<1>12. CASE p.form = "month_day_year"
  <2>1. /\ NamesMonthAndDay(p) /\ Len(c) = n + 2
        /\ c[n + 1] = YearCall(p) /\ MonthAndDayCalls(p, c, 0)
        /\ c[n + 2] = CallOf("month_day_year", 0)
    BY <1>1, <1>12 DEF Shape, IsPhrase
  <2>2. k # n /\ k # n + 1
    <3>1. k = n => c[k + 1].on \in {"year", "full_year"}
      BY <1>8, <1>12, <2>1
    <3>2. k = n + 1 => c[k + 1] = CallOf("month_day_year", 0)
      BY <1>6, <2>1
    <3>3. k = n + 1 => c[k + 1].on = "month_day_year"
      BY <3>2 DEF CallOf
    <3> QED  BY <1>4, <3>1, <3>3
  <2>3. k \in 0..(n - 1) /\ 0 + k + 1 = k + 1 /\ (0 + 1)..(0 + k) = 1..k
    BY <1>3, <1>6, <2>1, <2>2
  <2>4. self.dateTime = AfterMonthAndDay(p, made, k)
    BY <1>5, <1>6, <1>12, <2>3 DEF DateAfter
  <2>5. p.by # "month" /\ ~FitsIn(p, made)
    <3>1. \A i \in (0 + 1)..(0 + k) : FieldRead(self, c[i], years)
      BY <1>5, <2>3
    <3>2. \/ c[0 + k + 1].on = "spelled_month_day" /\ ~MonthDayFits
          \/ c[0 + k + 1].on \in {"format_full_date", "format_month_day"} /\ ~DayFits
      BY <1>4, <2>3
    <3> HIDE DEF c
    <3> QED  BY <2>1, <2>3, <2>4, <3>1, <3>2, MonthAndDayThrow
  <2> QED  BY <1>1, <1>5, <1>12, <2>5 DEF MonthDayStart, p
<1>13. CASE p.form = "full_date"
  <2>1. /\ Len(c) = 5 /\ DayAndMonthCalls(p, c, 0)
        /\ c[4] = (IF p.short THEN CallOf("short_year", p.y - 2000)
                                ELSE CallOf("full_year", p.y))
        /\ c[5] = CallOf("format_full_date", 0)
    BY <1>1, <1>13 DEF Shape
  <2>2. \/ /\ c[1].on = "number" /\ c[2].on = "day_number" /\ c[2].arg = p.d
           /\ c[3].on = "month_number"
        \/ /\ c[1].on = "month_number"
           /\ c[2].on = "number" /\ c[3].on = "day_number" /\ c[3].arg = p.d
    BY <2>1 DEF DayAndMonthCalls, CallOf
  <2>3. c[4].on \in {"short_year", "full_year"} /\ c[5].on = "format_full_date"
    BY <2>1 DEF CallOf
  <2>4. k \in {0, 1, 2, 3, 4}
    BY <1>3, <2>1
  <2> HIDE DEF c
  <2>5. k = 4
    BY <1>4, <2>2, <2>3, <2>4
  <2>6. FieldRead(self, c[2], years) /\ FieldRead(self, c[3], years)
    BY <1>5, <2>5
  <2>7. self.dayNum = p.d /\ ~DayFits
    BY <1>4, <2>2, <2>3, <2>5, <2>6 DEF FieldRead
  <2>8. self.dateTime = NumericStart(p, made)
    BY <1>5, <1>13, <2>5 DEF DateAfter
  <2>9. ~Holds(NumericStart(p, made), p.d)
    BY <2>7, <2>8 DEF DayFits, Today
  <2> QED  BY <1>1, <1>5, <1>13, <2>9 DEF p
<1>14. p.form \in {"weekday", "weekday_of_week", "today", "tomorrow", "days", "week", "year",
                  "month_day", "year_month_day", "month_day_year", "full_date"}
  BY <1>1 DEF IsPhrase
<1> QED  BY <1>7, <1>9, <1>10, <1>11, <1>12, <1>13, <1>14

\* A spelled month and day that do not fit do not exist in the coming year.
LEMMA NoSuchDay ==
  ASSUME NEW p, NamesMonthAndDay(p), p.by # "month", p.by # "numbers",
         NEW t, IsDay(t), ~FitsIn(p, t)
  PROVE  LET y == ComingYear(p, t)
         IN  /\ y \in Nat /\ y \in {t.y, t.y + 1}
             /\ ~Holds(Date(y, p.m, 1), p.d)
             /\ ~IsDate(Date(y, p.m, p.d))
<1> DEFINE y == ComingYear(p, t)
<1>1. p.m \in Month /\ p.d \in 1..31 /\ t.y \in Nat
  BY NumberOfDay DEF NamesMonthAndDay, NumberedDay
<1>2. y \in Nat /\ y \in {t.y, t.y + 1} /\ InNextMonthDay(t, p.m, 1) = Date(y, p.m, 1)
  BY <1>1, FirstOfMonth DEF ComingYear
<1> HIDE DEF y
<1>3. WithMonth(Date(y, p.m, 1), p.m) = Date(y, p.m, 1)
  <2>1. 1 <= MonthLength(y, p.m)
    BY DEF MonthLength
  <2>2. Date(y, p.m, 1).y = y /\ Date(y, p.m, 1).d = 1
    BY DEF Date
  <2> QED  BY <2>1, <2>2 DEF WithMonth, Clamp
<1>4. ~(IsMonthDay(p.m, p.d) /\ Holds(Date(y, p.m, 1), p.d))
  BY <1>2, <1>3 DEF FitsIn
<1>5. Holds(Date(y, p.m, 1), p.d) <=> p.d \in 1..MonthLength(y, p.m)
  BY DEF Holds, Date
<1>6. IsDate(Date(y, p.m, p.d)) => p.d \in 1..MonthLength(y, p.m)
  BY DEF IsDate, Date
<1>7. p.d \in 1..MonthLength(y, p.m) => IsMonthDay(p.m, p.d)
  <2>1. MonthLength(y, p.m) <= MonthLength(2000, p.m)
        /\ MonthLength(y, p.m) \in Int /\ MonthLength(2000, p.m) \in Int
    BY DEF MonthLength, Leap
  <2> QED  BY <1>1, <2>1 DEF IsMonthDay
<1> QED  BY <1>2, <1>4, <1>5, <1>6, <1>7 DEF y

\* A year in front of a month and a day is where they are put, whichever day it is.
LEMMA AfterAYear ==
  ASSUME NEW p, NamesYear(p), NamesMonthAndDay(p), NEW s, IsDay(s), NEW v \in Nat,
         FitsIn(p, ToYear(p, s)), p.which = "full" => v = p.y
  PROVE  LET u == WithYear(AfterMonthAndDay(p, ToYear(p, s), Count(p)), v)
         IN  /\ p.which = "full" =>
                  /\ u = Clamp(p.y, p.m, p.d)
                  /\ p.by # "numbers" => IsDate(Date(p.y, p.m, p.d))
             /\ u.y = v /\ u.m = p.m
             /\ u.d = p.d \/ (u.d < p.d /\ p.d \in 29..31)
<1> DEFINE t == ToYear(p, s)
           a == AfterMonthAndDay(p, t, Count(p))
           u == WithYear(a, v)
<1>1. p.m \in Month /\ p.d \in 1..31 /\ IsDay(t)
  BY YearDays DEF NamesMonthAndDay, NumberedDay
<1>2. t.y \in Nat /\ FitsIn(p, t)
  BY <1>1, NumberOfDay
<1>3. p.which = "full" => t = Date(p.y, 1, 1) /\ p.y \in Nat
  BY DEF ToYear, NamesYear
<1> HIDE DEF t
<1>4. /\ p.by = "numbers" => a = Clamp(t.y, p.m, p.d)
      /\ p.by # "numbers" => a = Date(ComingYear(p, t), p.m, p.d)
      /\ IsDay(a)
  BY <1>1, <1>2, MonthAndDayOf
<1> HIDE DEF a
<1>5. a.m = p.m /\ a.d \in 1..31
      /\ (a.d = p.d \/ (a.d < p.d /\ p.d \in 29..31))
  <2>1. CASE p.by = "numbers"
    BY <1>1, <1>2, <1>4, <2>1, ClampIs, Z3
  <2>2. CASE p.by # "numbers"
    <3>1. a.m = p.m /\ a.d = p.d
      BY <1>4, <2>2 DEF Date
    <3> QED  BY <1>1, <3>1
  <2> QED  BY <2>1, <2>2
<1>6. u = Clamp(v, p.m, a.d)
  BY <1>5 DEF WithYear
<1> HIDE DEF u
<1>7. u.y = v /\ u.m = p.m /\ (u.d = a.d \/ (u.d < a.d /\ a.d \in 29..31)) /\ IsDay(u)
  <2>1. p.m \in Month /\ a.d \in 1..31
    BY <1>1, <1>5
  <2> QED  BY <1>6, <2>1, ClampIs, Z3
<1>8. u.d = p.d \/ (u.d < p.d /\ p.d \in 29..31)
  <2> DEFINE x == u.d
             y == a.d
             z == p.d
  <2>1. /\ x = y \/ (x < y /\ y \in 29..31)
        /\ y = z \/ (y < z /\ z \in 29..31)
        /\ z \in 1..31 /\ y \in Nat /\ x \in Nat
    BY <1>1, <1>5, <1>7, NumberOfDay
  <2> HIDE DEF x, y, z
  <2>2. x = z \/ (x < z /\ z \in 29..31)
    BY <2>1
  <2> QED  BY <2>2 DEF x, z
<1>9. ASSUME p.which = "full"
      PROVE  u = Clamp(p.y, p.m, p.d) /\ (p.by # "numbers" => IsDate(Date(p.y, p.m, p.d)))
  <2>1. v = p.y /\ p.y \in Nat /\ t.y = p.y /\ t.m = 1 /\ t.d = 1
    BY <1>3, <1>9 DEF Date
  <2>2. CASE p.by = "numbers"
    <3>1. a = Clamp(p.y, p.m, p.d)
      BY <1>4, <2>1, <2>2
    <3>2. Clamp(p.y, p.m, a.d) = a
      <4>1. a.y = p.y /\ a.m = p.m /\ a = Date(a.y, a.m, a.d) /\ a.d \in 1..MonthLength(a.y, a.m)
        <5>1. p.d \in Nat /\ p.d >= 1
          BY <1>1
        <5>2. a.y = p.y /\ a.m = p.m
          BY <1>1, <2>1, <3>1, <5>1, ClampedDays
        <5> QED  BY <1>4, <5>2, NumberOfDay
      <4>2. a.d <= MonthLength(p.y, p.m)
        <5>1. MonthLength(p.y, p.m) \in Int
          BY DEF MonthLength
        <5> QED  BY <4>1, <5>1
      <4> QED  BY <4>1, <4>2 DEF Clamp
    <3> QED  BY <1>6, <2>1, <2>2, <3>1, <3>2
  <2>3. CASE p.by # "numbers"
    <3>1. ComingYear(p, t) = p.y
      BY <1>1, <2>1 DEF ComingYear, Month
    <3>2. a = Date(p.y, p.m, p.d)
      BY <1>4, <2>3, <3>1
    <3>3. a.d = p.d
      BY <3>2 DEF Date
    <3>4. IsDate(Date(p.y, p.m, p.d))
      BY <1>4, <3>2 DEF IsDay
    <3> QED  BY <1>6, <2>1, <3>3, <3>4
  <2> QED  BY <2>2, <2>3
<1> QED  BY <1>7, <1>8, <1>9 DEF u, a, t

\* A year in front of a month and a day is the year of the answer: four digits leave
\* nothing of the day on which the listener was made.
THEOREM LeadingYearIsAlwaysKept ==
  Spec => []LeadingYearIsKept
<1>1. ASSUME IInv PROVE LeadingYearIsKept
  <2> DEFINE p == phrase
             n == Count(p)
             c == p.calls
             v == self.year
             t == ToYear(p, made)
  <2>1. SUFFICES ASSUME p.form = "year_month_day"
                 PROVE  LeadingYearIsKept
    BY DEF LeadingYearIsKept
  <2>2. IsPhrase(p) /\ Shape(p)
    BY <1>1, PhraseAssumption, CallsFit DEF IInv, CallsLeft
  <2>3. /\ NamesYear(p) /\ NamesMonthAndDay(p) /\ Len(c) = n + 2 /\ c[1] = YearCall(p)
    BY <2>1, <2>2 DEF Shape, IsPhrase
  <2>4. ASSUME status = "done"
        PROVE  /\ phrase.which = "full" =>
                    /\ Answer = Clamp(phrase.y, phrase.m, phrase.d)
                    /\ phrase.by # "numbers" => IsDate(Date(phrase.y, phrase.m, phrase.d))
               /\ phrase.which # "full" =>
                    /\ Answer.m = phrase.m
                    /\ Answer.d = phrase.d \/ (Answer.d < phrase.d /\ phrase.d \in 29..31)
                    /\ \E y \in made.y..now.y : Answer.y = y + Ahead(phrase.which)
    <3>1. /\ IsDay(made) /\ Answer = DateAfter(p, made, Len(c), v) /\ Fitted(p, made, Len(c))
          /\ \A i \in 1..Len(c) : FieldRead(self, c[i], made.y..now.y)
          /\ v \in Nat
      BY <1>1, <2>4, AnswerIs
    <3>2. n \in {1, 3, 4}
      BY DEF Count
    <3>3. 1 \in 1..Len(c)
      BY <2>3, <3>2
    <3>4. FieldRead(self, YearCall(p), made.y..now.y)
      BY <2>3, <3>1, <3>3
    <3>5. p.which = "full" => v = p.y
      BY <3>4 DEF FieldRead, YearCall, CallOf
    <3>6. p.which # "full" => \E y \in made.y..now.y : v = y + Ahead(p.which)
      BY <3>4 DEF FieldRead, YearCall, CallOf
    <3>7. FitsIn(p, t)
      BY <2>1, <2>3, <3>1, <3>2 DEF Fitted
    <3>8. Answer = WithYear(AfterMonthAndDay(p, t, n), v)
      <4> HIDE DEF t, v
      <4> QED  BY <2>1, <2>3, <3>1, <3>2 DEF DateAfter, t
    <3> HIDE DEF p, n, v
    <3>9. /\ p.which = "full" =>
               /\ Answer = Clamp(p.y, p.m, p.d)
               /\ p.by # "numbers" => IsDate(Date(p.y, p.m, p.d))
          /\ Answer.y = v /\ Answer.m = p.m
          /\ Answer.d = p.d \/ (Answer.d < p.d /\ p.d \in 29..31)
      BY <2>3, <3>1, <3>5, <3>7, <3>8, AfterAYear DEF n
    <3> HIDE DEF t, c
    <3> QED  BY <3>6, <3>9 DEF p
  <2>5. ASSUME status = "thrown", p.which = "full"
        PROVE  phrase.by # "numbers" /\ ~IsDate(Date(phrase.y, phrase.m, phrase.d))
    <3>1. IsDay(made) /\ p.by # "month" /\ ~FitsIn(p, t)
      BY <1>1, <2>1, <2>5, ThrownAt DEF MonthDayStart
    <3>2. t = Date(p.y, 1, 1) /\ p.y \in Nat /\ IsDay(t)
      BY <2>3, <2>5, <3>1, YearDays DEF ToYear, NamesYear
    <3>3. t.y = p.y /\ t.m = 1 /\ t.d = 1
      BY <3>2 DEF Date
    <3>4. p.d \in 1..31 /\ p.m \in Month
      BY <2>3 DEF NamesMonthAndDay, NumberedDay
    <3>5. p.by # "numbers"
      <4>1. Holds(t, p.d)
        BY <3>3, <3>4 DEF Holds, MonthLength
      <4> QED  BY <3>1, <4>1 DEF FitsIn
    <3>6. ComingYear(p, t) = p.y
      BY <3>3, <3>4 DEF ComingYear, Month
    <3> HIDE DEF t, p
    <3>7. ~IsDate(Date(p.y, p.m, p.d))
      BY <2>3, <3>1, <3>2, <3>5, <3>6, NoSuchDay
    <3> QED  BY <3>5, <3>7 DEF p
  <2> QED  BY <2>4, <2>5 DEF LeadingYearIsKept
<1> QED  BY <1>1, Invariance, PTL

\* A month too short for a day is too short in one of any three years.
LEMMA ShortMonth ==
  ASSUME NEW y \in Nat, NEW m \in Month, NEW d \in 1..31, ~Holds(Date(y, m, 1), d),
         NEW s \in Nat
  PROVE  \E z \in s..(s + 2) : ~Holds(Date(z, m, 1), d)
<1>1. \A z \in Nat : Holds(Date(z, m, 1), d) <=> d <= MonthLength(z, m)
  <2>1. \A z \in Nat : Date(z, m, 1).y = z /\ Date(z, m, 1).m = m
    BY DEF Date
  <2>2. \A z \in Nat : MonthLength(z, m) \in Int
    BY DEF MonthLength
  <2> QED  BY <2>1, <2>2 DEF Holds
<1>2. ~(d <= MonthLength(y, m))
  BY <1>1
<1>3. PICK z \in {s, s + 1} : ~Leap(z)
  BY DEF Leap
<1>4. ~(d <= MonthLength(z, m))
  BY <1>2, <1>3 DEF MonthLength
<1>5. z \in Nat /\ z \in s..(s + 2)
  OBVIOUS
<1> QED  BY <1>1, <1>4, <1>5

\* A date in numbers is the very date; with a short year the day was put in the month
\* of the day on which the listener was made first.
LEMMA NumericAnswer ==
  ASSUME NEW p, IsPhrase(p), p.form = "full_date", NEW s, IsDay(s),
         Holds(NumericStart(p, s), p.d)
  PROVE  LET inFebruary == p.short /\ s.m = 2 /\ p.d = 29 /\ ~Leap(p.y)
         IN  WithMonth(WithYear(WithDay(NumericStart(p, s), p.d), p.y), p.m)
               = Clamp(p.y, p.m, IF inFebruary THEN 28 ELSE p.d)
<1> DEFINE inFebruary == p.short /\ s.m = 2 /\ p.d = 29 /\ ~Leap(p.y)
           t == NumericStart(p, s)
           v == WithYear(WithDay(t, p.d), p.y)
<1>1. p.y \in Nat /\ p.m \in Month /\ p.d \in 1..31
  BY FullDateYear DEF NamesMonthAndDay, NumberedDay
<1>2. v = Clamp(p.y, t.m, p.d) /\ WithMonth(v, p.m) = Clamp(p.y, p.m, v.d) /\ IsDay(t)
  BY NumericDays
<1> HIDE DEF v
<1>3. v.d = IF p.d <= MonthLength(p.y, t.m) THEN p.d ELSE MonthLength(p.y, t.m)
  BY <1>2 DEF Clamp, Date
<1>4. CASE p.short
  <2>1. t = s
    BY <1>4 DEF NumericStart
  <2>2. p.d <= MonthLength(s.y, s.m)
    <3>1. MonthLength(s.y, s.m) \in Int
      BY DEF MonthLength
    <3> QED  BY <1>1, <2>1, <3>1 DEF Holds
  <2> HIDE DEF t
  <2>3. v.d = IF inFebruary THEN 28 ELSE p.d
    BY <1>1, <1>3, <1>4, <2>1, <2>2 DEF MonthLength
  <2> QED  BY <1>2, <2>3 DEF t, v
<1>5. CASE ~p.short
  <2>1. t.m = 1
    BY <1>5 DEF NumericStart, Date
  <2> HIDE DEF t
  <2>2. v.d = p.d
    BY <1>1, <1>3, <2>1 DEF MonthLength
  <2>3. (IF inFebruary THEN 28 ELSE p.d) = p.d
    BY <1>5
  <2> QED  BY <1>2, <2>2, <2>3 DEF t, v
<1> QED  BY <1>4, <1>5

\* A date in numbers, with the day in front when it can be one as the grammar has it
\* (test.json:543 has the month there), is resolved to itself or the last day of its
\* month, and nothing but a day that a month does not have makes a handler throw.
THEOREM NumericDatesAreAlwaysExact ==
  Spec => []NumericDatesAreExact
<1>1. ASSUME IInv PROVE NumericDatesAreExact
  <2> DEFINE p == phrase
  <2>1. ASSUME status = "done", p.form = "full_date"
        PROVE  LET inFebruary == p.short /\ made.m = 2 /\ p.d = 29 /\ ~Leap(p.y)
               IN  Answer = Clamp(p.y, p.m, IF inFebruary THEN 28 ELSE p.d)
    <3>1. /\ IsPhrase(p) /\ Shape(p) /\ IsDay(made)
          /\ Answer = DateAfter(p, made, Len(p.calls), self.year)
          /\ Fitted(p, made, Len(p.calls))
      BY <1>1, <2>1, AnswerIs
    <3>2. Len(p.calls) = 5
      BY <2>1, <3>1 DEF Shape
    <3>3. /\ Holds(NumericStart(p, made), p.d)
          /\ Answer = WithMonth(WithYear(WithDay(NumericStart(p, made), p.d), p.y), p.m)
      BY <2>1, <3>1, <3>2 DEF Fitted, DateAfter
    <3> QED  BY <2>1, <3>1, <3>3, NumericAnswer
  <2>2. ASSUME status = "done", p.form = "month_day", p.by = "numbers"
        PROVE  Answer = Clamp(made.y, p.m, p.d)
    <3>1. /\ IsPhrase(p) /\ Shape(p) /\ IsDay(made)
          /\ Answer = DateAfter(p, made, Len(p.calls), self.year)
          /\ Fitted(p, made, Len(p.calls))
      BY <1>1, <2>2, AnswerIs
    <3>2. NamesMonthAndDay(p) /\ Len(p.calls) = Count(p)
      BY <2>2, <3>1 DEF Shape, IsPhrase
    <3>3. FitsIn(p, made) /\ Answer = AfterMonthAndDay(p, made, Count(p))
      BY <2>2, <3>1, <3>2 DEF Fitted, DateAfter
    <3> QED  BY <2>2, <3>1, <3>2, <3>3, MonthAndDayOf
  <2>3. ASSUME status = "thrown"
        PROVE  \/ p.form = "full_date" /\ p.short /\ p.d > MonthLength(made.y, made.m)
               \/ /\ p.form \in {"month_day", "year_month_day", "month_day_year"}
                  /\ IF p.by = "numbers"
                     THEN p.d > MonthLength(made.y, made.m)
                     ELSE \E y \in made.y..(made.y + 2) : ~Holds(Date(y, p.m, 1), p.d)
    <3>1. /\ IsPhrase(p) /\ IsDay(made)
          /\ \/ p.form = "full_date" /\ ~Holds(NumericStart(p, made), p.d)
             \/ /\ p.form \in {"month_day", "year_month_day", "month_day_year"}
                /\ p.by # "month" /\ ~FitsIn(p, MonthDayStart(p, made))
      BY <1>1, <2>3, ThrownAt
    <3>2. p.form \in {"month_day", "year_month_day", "month_day_year", "full_date"}
      BY <3>1
    <3>3. NamesMonthAndDay(p) /\ p.m \in Month /\ p.d \in 1..31
      BY <3>1, <3>2 DEF IsPhrase, NamesMonthAndDay, NumberedDay
    <3>4. made.y \in Nat /\ MonthLength(made.y, made.m) \in Int
      BY <3>1, NumberOfDay
    <3>5. Holds(Date(p.y, 1, 1), p.d)
      BY <3>3 DEF Holds, Date, MonthLength
    <3>6. ~Holds(made, p.d) => p.d > MonthLength(made.y, made.m)
      BY <3>3, <3>4 DEF Holds
    <3>7. CASE p.form = "full_date"
      <4>1. ~Holds(NumericStart(p, made), p.d)
        BY <3>1, <3>7
      <4> QED  BY <3>5, <3>6, <3>7, <4>1 DEF NumericStart
    <3>8. CASE p.form # "full_date"
      <4> DEFINE t == MonthDayStart(p, made)
      <4>1. p.by # "month" /\ ~FitsIn(p, t)
        BY <3>1, <3>8
      <4>2. \/ t = made
            \/ t = Date(p.y, 1, 1) /\ p.form = "year_month_day" /\ p.which = "full"
        BY DEF MonthDayStart, ToYear
      <4>3. CASE p.by = "numbers"
        <5>1. ~Holds(t, p.d)
          BY <4>1, <4>3 DEF FitsIn
        <5> HIDE DEF t
        <5> QED  BY <3>2, <3>5, <3>6, <3>8, <4>2, <4>3, <5>1
      <4>4. CASE p.by # "numbers"
        <5>1. IsDay(t)
          <6>1. p.form = "year_month_day" => NamesYear(p)
            BY <3>1 DEF IsPhrase
          <6> QED  BY <3>1, <6>1, YearDays DEF MonthDayStart
        <5> DEFINE y == ComingYear(p, t)
        <5> HIDE DEF t
        <5>2. y \in Nat /\ ~Holds(Date(y, p.m, 1), p.d)
          BY <3>3, <4>1, <4>4, <5>1, NoSuchDay
        <5> HIDE DEF y, p
        <5>3. \E z \in made.y..(made.y + 2) : ~Holds(Date(z, p.m, 1), p.d)
          BY <3>3, <3>4, <5>2, ShortMonth
        <5> QED  BY <3>2, <3>8, <4>4, <5>3
      <4> QED  BY <4>3, <4>4
    <3> QED  BY <3>7, <3>8
  <2> QED  BY <2>1, <2>2, <2>3 DEF NumericDatesAreExact
<1> QED  BY <1>1, Invariance, PTL
====
