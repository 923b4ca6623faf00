SPECIFICATION FairSpec
CONSTANTS
  c1 = c1  c2 = c2  c3 = c3
  shard = shard  badShard = badShard
  upload = upload  again = again  bad = bad  ping = ping  junk = junk
  NoMessage = NoMessage
  Calls <- MCCalls
  Shards <- MCShards
  CallsOf <- MCCallsOf
  Malformed <- MCMalformed
  KindOf <- MCKindOf
  KeyOf <- MCKeyOf
  Messages = {upload, bad, junk}
  Faults = {"kill"}
  CommitEveryRows = 1
  Concurrency = 1
  MaxReceive = 2
  DisableSelfTerminate = TRUE
  MaxSigterms = 0
  MaxKills = 1
PROPERTIES
  Resolved
  HealthyShardFinishes
