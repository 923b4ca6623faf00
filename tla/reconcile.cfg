SPECIFICATION FairSpec
CONSTANTS
  reqOld = reqOld  reqNew = reqNew
  NoReq = NoReq
  ReqOf <- MCReqOf
  MaxUploads = 3
  MaxRestarts = 2
  MaxFailures = 3
  StartLimitBurst = 3
CHECK_DEADLOCK FALSE
INVARIANTS
  TypeOK
  Exclusive
  RunsWhole
  RunsCurrent
PROPERTIES
  Configured
