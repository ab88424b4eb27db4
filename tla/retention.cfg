CONSTANTS
  PerDay = 2
  DaysPerMonth = 3
  MonthsPerYear = 2
  Daily = 2
  Months = 2
  Years = 2
  MaxDay = 25
  MaxManual = 1
  MaxFaults = 2
SPECIFICATION SpecPrompt
INVARIANTS TypeOK HistoryKept StoreBounded
CHECK_DEADLOCK FALSE
