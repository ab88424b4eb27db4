CONSTANTS
  Account = {a1, a2, obe}
  SystemAccount = {obe}
  Editor = {e1, e2}
  MaxDepth = 2
  MaxLined = 0
  NoAccount = NoAccount
SPECIFICATION ChartSpec
PROPERTY OverlapKeepsCap
SYMMETRY Numbers
