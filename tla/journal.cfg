CONSTANTS
  EntryId = {e1, e2, e3}
  LineId = {l1, l2, l3, l4, l5, l6}
  Account = {cash, equity}
  SystemAccount = {equity}
  Amount = {1}
  NoEntry = NoEntry
  NoLine = NoLine
  MaxDraftLines = 3
SPECIFICATION Spec
INVARIANTS
  TypeOK
  PostedBalanced
  ReversalStructure
  AuditMatchesJournal
PROPERTIES
  PostedImmutable
  ImplementsLedger
CONSTRAINT SmallDrafts
SYMMETRY Keys
