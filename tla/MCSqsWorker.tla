------------------------------ MODULE MCSqsWorker ------------------------------
(***************************************************************************)
(* The small instance of SqsWorker: a shard of two calls or of three,      *)
(* announced once or twice, a shard whose file has a line that is not      *)
(* JSON, an s3:TestEvent and a body the worker does not know.              *)
(***************************************************************************)
EXTENDS SqsWorker

CONSTANTS c1, c2, c3, shard, badShard, upload, again, bad, ping, junk

MCCalls == {c1, c2, c3}
MCShards == {shard, badShard}
MCMalformed == {badShard}
MCCallsOf == [s \in MCShards |-> IF s = shard THEN {c1, c2} ELSE {c3}]
MCThreeCallsOf == [s \in MCShards |-> MCCalls]

MCKindOf ==
  [m \in Messages |->
    IF m = ping THEN "test" ELSE IF m = junk THEN "unknown" ELSE "object"]
MCKeyOf == [m \in Messages |-> IF m = bad THEN badShard ELSE shard]
==============================================================================
