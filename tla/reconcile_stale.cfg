SPECIFICATION FairSpec
CONSTANTS
  reqOld = reqOld  reqNew = reqNew
  NoReq = NoReq
  ReqOf <- MCReqOf
  MaxUploads = 3
  MaxRestarts = 0
  MaxFailures = 0
  StartLimitBurst = 3
PROPERTIES
  PicksUp
