SPECIFICATION Spec
CONSTANTS
  Requests <- MCRequests
  MaxPoll = 50
  PollInterval = 1
  LambdaTimeout = 60
  CallTime = 2
  PageSize = 2
  MaxRows = 9
CHECK_DEADLOCK FALSE
INVARIANTS
  TypeOK
  AnswerTrue
  KilledReading
