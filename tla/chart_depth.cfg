CONSTANTS
  Account = {a1, a2, a3, obe}
  SystemAccount = {obe}
  Editor = {e1}
  MaxDepth = 2
  MaxLined = 0
  NoAccount = NoAccount
SPECIFICATION ChartSpec
INVARIANT NoLongChain
SYMMETRY Numbers
