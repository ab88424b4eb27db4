CONSTANTS
  Session = {s1, s2}
  EntryId = {e1, e2, e3}
  Account = {bank, loan, old, obe}
  SystemAccount = {obe}
  CarryForward = {bank, loan, old, obe}
  Inactive = {old}
  Day = {1}
  Amount = {1}
  MaxCalls = 3
  NoEntry = NoEntry
  NoValue = NoValue
SPECIFICATION FairSpec
INVARIANTS TypeOK OneActivePerCaller RecordsAgree
PROPERTY CallsEnd
