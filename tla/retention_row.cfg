CONSTANTS
  PerDay = 1
  DaysPerMonth = 3
  MonthsPerYear = 2
  Daily = 2
  Months = 2
  Years = 2
  MaxDay = 25
  MaxManual = 0
  MaxFaults = 1
SPECIFICATION SpecPrompt
INVARIANT PrunedMeansGone
CHECK_DEADLOCK FALSE
