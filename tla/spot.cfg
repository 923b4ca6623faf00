SPECIFICATION FairSpec
CONSTANTS
  c1 = c1  c2 = c2
  Calls <- MCCalls
  Faults = {"status"}
  CommitEveryRows = 2
  Concurrency = 2
  MaxInstances = 3
CHECK_DEADLOCK FALSE
INVARIANTS
  TypeOK
  InterruptedSticks
  LossBounded
  SuccessIsTrue
PROPERTIES
  FreshCommit
  Completed
