CONSTANTS
  EntryId = {e1, e2, e3}
  LineId = {l1, l2, l3, l4}
  Account = {cash}
  SystemAccount = {}
  Amount = {1}
  NoEntry = NoEntry
  NoLine = NoLine
  MaxDraftLines = 4
SPECIFICATION SpecReparent
PROPERTY PostedImmutable
SYMMETRY Keys
