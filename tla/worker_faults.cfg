SPECIFICATION Spec
CONSTANTS
  c1 = c1  c2 = c2  c3 = c3
  shard = shard  badShard = badShard
  upload = upload  again = again  bad = bad  ping = ping  junk = junk
  NoMessage = NoMessage
  Calls <- MCCalls
  Shards <- MCShards
  CallsOf <- MCCallsOf
  Malformed <- MCMalformed
  KindOf <- MCKindOf
  KeyOf <- MCKeyOf
  Messages = {upload, ping}
  Faults = {"commit", "lostack", "scan", "llm", "sigterm", "kill"}
  CommitEveryRows = 2
  Concurrency = 2
  MaxReceive = 2
  DisableSelfTerminate = FALSE
  MaxSigterms = 1
  MaxKills = 1
INVARIANTS
  TypeOK
  RowsKept
  SuccessIsDurable
  LossNeedsSigterm
PROPERTIES
  RunAdvances
