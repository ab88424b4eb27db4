CONSTANTS
  m1 = m1
  Command = {c1, c2}
  Email = {m1, m2}
  Request = {r1, r2}
  Key = {k1, k2}
  Device = {d1, d2}
  Idle = 2
  Cap = 2
  MaxTime = 4
  None = None
SPECIFICATION Spec
INVARIANT TypeOK
CONSTRAINTS BootFirst OneReset
PROPERTIES CapHolds CutOff
SYMMETRY Names
CHECK_DEADLOCK FALSE
