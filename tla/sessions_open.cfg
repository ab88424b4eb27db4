CONSTANTS
  Session = {s1, s2}
  EntryId = {e1}
  LineId = {l1, l2, l3}
  Account = {cash}
  SystemAccount = {}
  Amount = {1}
  NoEntry = NoEntry
  NoLine = NoLine
  MaxOpen = 2
  MaxLines = 3
SPECIFICATION SpecOpen
INVARIANT PostedOnce
PROPERTY SettledImmutable
SYMMETRY Keys
