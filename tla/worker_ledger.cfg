SPECIFICATION Spec
CONSTANTS
  c1 = c1  c2 = c2  c3 = c3
  shard = shard  badShard = badShard
  upload = upload  again = again  bad = bad  ping = ping  junk = junk
  NoMessage = NoMessage
  Calls <- MCCalls
  Shards <- MCShards
  CallsOf <- MCThreeCallsOf
  Malformed <- MCMalformed
  KindOf <- MCKindOf
  KeyOf <- MCKeyOf
  Messages = {upload, again}
  Faults = {"commit", "catalog", "kill", "receive", "prepare", "delete", "early_visible"}
  CommitEveryRows = 2
  Concurrency = 1
  MaxReceive = 2
  DisableSelfTerminate = TRUE
  MaxSigterms = 0
  MaxKills = 1
INVARIANTS
  NoDuplicate
  RunNeverStuck
PROPERTIES
  NoReextraction
  ImplementsLedger
  ServesFleet
