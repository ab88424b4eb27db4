CONSTANTS
  PerDay = 2
  DaysPerMonth = 3
  MonthsPerYear = 2
  Daily = 2
  Months = 2
  Years = 2
  MaxDay = 25
  MaxManual = 0
  MaxFaults = 0
SPECIFICATION Spec
INVARIANT RecentKept
CHECK_DEADLOCK FALSE
