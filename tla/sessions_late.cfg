CONSTANTS
  Session = {s1, s2}
  EntryId = {e1, e2}
  LineId = {l1, l2, l3}
  Account = {cash}
  SystemAccount = {}
  Amount = {1}
  NoEntry = NoEntry
  NoLine = NoLine
  MaxOpen = 1
  MaxLines = 3
SPECIFICATION SpecOpen
PROPERTY PostedImmutable
SYMMETRY Keys
