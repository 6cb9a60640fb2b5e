SPECIFICATION Spec
CONSTANTS
  Clocks <- TestDay
  Phrases <- DayMonthYear
  MaxTicks = 0
INVARIANT DayMonthYearIsTheDate
CHECK_DEADLOCK FALSE
