CONSTANTS
  assets = assets
  bank = bank
  checking = checking
  salary = salary
  pay = pay
  spend = spend
  slip = slip
  Account = {assets, bank, checking, salary}
  Type = {"asset", "revenue"}
  DebitType = {"asset"}
  Date = {1, 2}
  Voucher <- Vouchers
  Charts <- TwoCharts
  NoAccount = NoAccount
  NoDate = NoDate
  MaxDepth = 4
  Filters <- AllTypes
  MaxEdits = 1
SPECIFICATION Spec
INVARIANT ChildrenShareType
CONSTRAINT Unfinished
CHECK_DEADLOCK FALSE
