CONSTANTS
  Session = {s1}
  EntryId = {e1, e2, e3, e4}
  Account = {bank, loan, obe}
  SystemAccount = {obe}
  CarryForward = {bank, loan, obe}
  Inactive = {}
  Day = {1, 2}
  Amount = {1}
  MaxCalls = 3
  NoEntry = NoEntry
  NoValue = NoValue
SPECIFICATION Spec
INVARIANT RefusalsAudited
SYMMETRY Keys
