CONSTANTS
  e1 = e1
  e2 = e2
  Entry = {e1, e2}
  Opening = {e2}
  Effect <- Effects
  Future = {}
  ProdPrefix = "prod/"
  DrillPrefix = "dev-test/"
  None = None
  Recent = 0
  MaxTime = 1
  MaxFaults = 0
  MaxRestores = 0
  MaxRows = 6
SPECIFICATION Spec
INVARIANT QuietDrillPasses
CONSTRAINT Bounded
CHECK_DEADLOCK FALSE
