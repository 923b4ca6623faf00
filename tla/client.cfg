SPECIFICATION FairSpec
CONSTANTS
  short = short  long = long  longer = longer
  Calls <- MCCalls
  LengthOf <- MCLengthOf
  Concurrency = 2
  MaxChars = 8
  MarkerLength = 3
  Readable = 8
  BackoffBase = 2
  MaxOutage = 5
  MaxOutages = 2
INVARIANTS
  TypeOK
  NoNeedlessError
PROPERTIES
  ImplementsTasks
  Answered
