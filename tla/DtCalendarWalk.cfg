CONSTANTS
  Unset = Unset
  LastHour = 25
  Walks <- Turns
  Clocks <- GoodAndBad
SPECIFICATION Spec
INVARIANT DayOfYearCounts
INVARIANT WeekdayRightEarlyInCentury
PROPERTY NoDayLost
CHECK_DEADLOCK FALSE
