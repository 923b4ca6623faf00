SPECIFICATION Spec
CONSTANTS
  c1 = c1  c2 = c2  c3 = c3
  shard = shard  badShard = badShard
  upload = upload  again = again  bad = bad  ping = ping  junk = junk
  NoMessage = NoMessage
  Calls <- MCCalls
  Shards <- MCShards
  CallsOf <- MCCallsOf
  Malformed <- MCMalformed
  KindOf <- MCKindOf
  KeyOf <- MCKeyOf
  Messages = {upload}
  Faults = {"sigterm"}
  CommitEveryRows = 1
  Concurrency = 1
  MaxReceive = 2
  DisableSelfTerminate = FALSE
  MaxSigterms = 1
  MaxKills = 0
INVARIANTS
  NoLoss
