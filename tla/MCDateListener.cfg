SPECIFICATION Spec
CONSTANTS
  Clocks <- MCClocks
  Phrases <- MCPhrases
  MaxTicks = 1
INVARIANTS TypeOK WeekdaysFallInTheirWeek MonthDaysAreNotPast LeadingYearIsKept NumericDatesAreExact
CHECK_DEADLOCK FALSE
