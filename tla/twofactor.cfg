CONSTANTS
  Request = {r1, r2}
  MaxGrace = 2
  MaxTime = 3
  MaxDeploys = 1
  NoTime = NoTime
SPECIFICATION FairSpec
INVARIANTS TypeOK GraceBounded
PROPERTIES ServedOnlyWhenOff Sticky ExpiryEndsGrace
