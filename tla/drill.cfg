CONSTANTS
  e1 = e1
  e2 = e2
  Entry = {e1, e2}
  Opening = {e1}
  Effect <- Effects
  Future = {}
  ProdPrefix = "prod/"
  DrillPrefix = "dev-test/"
  None = None
  Recent = 0
  MaxTime = 1
  MaxFaults = 1
  MaxRestores = 1
  MaxRows = 6
SPECIFICATION Spec
INVARIANTS TypeOK PassedMeansSame LogMatchesBucket QuietDrillPasses
PROPERTY PrefixesApart
CONSTRAINT Bounded
CHECK_DEADLOCK FALSE
