SPECIFICATION FairSpec
CONSTANTS
  Visibility = 120
  Interval = 8
  MinExtend = 20
  MaxCall = 1
  MaxMisses = 1
CHECK_DEADLOCK FALSE
INVARIANTS
  TypeOK
  Owned
PROPERTIES
  LeftIsRetried
