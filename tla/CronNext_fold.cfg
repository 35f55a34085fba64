SPECIFICATION FairSpec
CONSTANTS
  MinutesPerHour = 2
  HoursPerDay = 4
  DaysPerWeek = 3
  MonthsPerYear = 2
  LongestMonth = 3
  MonthStart <- MCMonthStart
  LastMonth = 9
  SearchYears = 1
  Zones <- MCFallBackWest
  RegularZones = {}
  Exprs <- MCBuiltin
  Starts <- MCStarts
  Epoch = 12
  Horizon = 100
PROPERTY NextReturns
CHECK_DEADLOCK FALSE
