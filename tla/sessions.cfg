CONSTANTS
  Session = {s1, s2}
  EntryId = {e1, e2, e3}
  LineId = {l1, l2, l3, l4}
  Account = {cash}
  SystemAccount = {}
  Amount = {1}
  NoEntry = NoEntry
  NoLine = NoLine
  MaxOpen = 1
  MaxLines = 2
SPECIFICATION SpecServices
INVARIANTS TypeOK Exclusion
PROPERTY ImplementsJournal
SYMMETRY Keys
