CONSTANTS
  Account = {a1, a2, obe}
  SystemAccount = {obe}
  Editor = {e1, e2}
  MaxDepth = 2
  MaxLined = 1
  NoAccount = NoAccount
SPECIFICATION ChartSpec
INVARIANTS ChartTypeOK NoDangling ResetGetsThrough
PROPERTIES CleanMovesKeepCap ResetKeepsSystem
CONSTRAINT Sparse
SYMMETRY Numbers
