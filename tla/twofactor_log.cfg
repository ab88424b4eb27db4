CONSTANTS
  Request = {r1}
  MaxGrace = 2
  MaxTime = 4
  MaxDeploys = 1
  NoTime = NoTime
SPECIFICATION Spec
PROPERTY ExpiryLogged
