------------------------------- MODULE SqsWorker -------------------------------
(***************************************************************************)
(* The worker process (extract_lib/sqs_worker.py) on the one instance the  *)
(* auto-scaling group allows: it polls the jobs queue, runs extract_batch  *)
(* in its own process for the shard a message names, and deletes the       *)
(* message if the run succeeded.  The process may be killed at any point,  *)
(* and gets SIGTERM at any point; its memory dies with it, the queue and   *)
(* the table do not.                                                       *)
(***************************************************************************)
EXTENDS ExtractBatch, JobsQueue

CONSTANTS
  Shards,                \* the uploaded objects
  CallsOf,               \* the calls in each shard's file
  Malformed,             \* the shards with a line that is not JSON
  KindOf,                \* what _parse_s3_event says of each message's body
  KeyOf,                 \* the shard each message names
  DisableSelfTerminate,  \* the DISABLE_SELF_TERMINATE switch
  NoMessage,
  MaxSigterms, MaxKills  \* bounds of the model: how often they happen

ASSUME WorkerAssumption ==
  /\ CallsOf \in [Shards -> SUBSET Calls]
  /\ Malformed \subseteq Shards
  /\ KindOf \in [Messages -> {"object", "test", "unknown"}]
  /\ KeyOf \in [Messages -> Shards]
  /\ DisableSelfTerminate \in BOOLEAN
  /\ NoMessage \notin Messages
  /\ MaxSigterms \in Nat
  /\ MaxKills \in Nat

VARIABLES
  pc,       \* where the main loop is
  cur,      \* msg, the message being processed
  ok,       \* what _process_shard returned
  flag,     \* _on_sigterm.flag
  handler,  \* the SIGTERM handler that is installed
  sigs,     \* how many SIGTERMs the worker has had, in all its processes
  kills     \* how many times its process was killed

workerVars == <<pc, cur, ok, flag, handler, sigs, kills>>
vars == <<writerVars, batchVars, queueVars, workerVars>>

TypeOK ==
  /\ WriterTypeOK
  /\ BatchTypeOK
  /\ QueueTypeOK
  /\ pc \in {"dead", "top", "recv", "prep", "run", "decide"}
  /\ cur \in Messages \cup {NoMessage}
  /\ ok \in BOOLEAN
  /\ flag \in BOOLEAN
  /\ handler \in {"worker", "batch"}
  /\ sigs \in 0 .. MaxSigterms
  /\ kills \in 0 .. MaxKills

Init ==
  /\ WriterInit
  /\ BatchInit
  /\ QueueInit
  /\ pc = "dead"
  /\ cur = NoMessage
  /\ ok = FALSE
  /\ flag = FALSE
  /\ handler = "worker"
  /\ sigs = 0
  /\ kills = 0

(* What a new process finds in its memory.                                 *)
FreshMemory ==
  /\ WriterNew
  /\ rpc' = "off"
  /\ stop' = FALSE
  /\ skip' = {}
  /\ task' = NoTasks
  /\ adding' = {}
  /\ input' = {}
  /\ malformed' = FALSE
  /\ cur' = NoMessage
  /\ ok' = FALSE
  /\ flag' = FALSE
  /\ handler' = "worker"

-----------------------------------------------------------------------------
(* The main loop.                                                          *)

Start ==
  /\ pc = "dead"
  /\ pc' = "top"
  /\ UNCHANGED <<cur, ok, flag, handler, sigs, kills>>
  /\ UNCHANGED <<writerVars, batchVars, queueVars>>

(* The process ends: a cap was reached (time is not modelled, so it may be *)
(* at any turn of the loop) or the flag is set.                            *)
SelfTerminate ==
  /\ pc = "top"
  /\ ~DisableSelfTerminate
  /\ pc' = "dead"
  /\ FreshMemory
  /\ UNCHANGED <<queueVars, sigs, kills>>

Poll ==
  /\ pc = "top"
  /\ DisableSelfTerminate \/ ~flag
  /\ pc' = "recv"
  /\ UNCHANGED <<cur, ok, flag, handler, sigs, kills>>
  /\ UNCHANGED <<writerVars, batchVars, queueVars>>

ReceiveDeletes(m) ==  \* variant: a message is deleted when it is received
  /\ pc = "recv"
  /\ Delete(m)
  /\ cur' = m
  /\ pc' = "prep"
  /\ UNCHANGED <<ok, flag, handler, sigs, kills, writerVars, batchVars>>

ReceiveMessage(m) ==
  /\ pc = "recv"
  /\ Receive(m)
  /\ cur' = m
  /\ pc' = "prep"
  /\ UNCHANGED <<ok, flag, handler, sigs, kills, writerVars, batchVars>>

ReceiveRedrives(m) ==
  /\ pc = "recv"
  /\ Redrive(m)
  /\ UNCHANGED <<workerVars, writerVars, batchVars>>

(* The long poll found nothing, or the call raised.                        *)
ReceiveNothing ==
  /\ pc = "recv"
  /\ \/ \A m \in Messages : msg[m] # "visible"
     \/ "receive" \in Faults
  /\ pc' = "top"
  /\ UNCHANGED <<cur, ok, flag, handler, sigs, kills>>
  /\ UNCHANGED <<writerVars, batchVars, queueVars>>

(* _process_shard without a run: an s3:TestEvent is to be deleted, a body  *)
(* it does not know is not, and neither is an object that could not be     *)
(* downloaded or whose writer could not be built.                          *)
ProcessWithoutRun ==
  /\ pc = "prep"
  /\ \/ KindOf[cur] = "test" /\ ok' = TRUE
     \/ KindOf[cur] = "unknown" /\ ok' = FALSE
     \/ KindOf[cur] = "object" /\ "prepare" \in Faults /\ ok' = FALSE
  /\ pc' = "decide"
  /\ UNCHANGED <<cur, flag, handler, sigs, kills>>
  /\ UNCHANGED <<writerVars, batchVars, queueVars>>

(* extract_batch.main() replaces the worker's SIGTERM handler with its own *)
(* and nothing ever puts it back.                                          *)
RunStart ==
  /\ pc = "prep"
  /\ KindOf[cur] = "object"
  /\ MainStart(CallsOf[KeyOf[cur]], KeyOf[cur] \in Malformed)
  /\ handler' = "batch"
  /\ pc' = "run"
  /\ UNCHANGED <<cur, ok, flag, sigs, kills, queueVars>>

RunStep ==
  /\ pc = "run"
  /\ BatchStep
  /\ UNCHANGED <<workerVars, queueVars>>

RunEnd ==
  /\ pc = "run"
  /\ rpc \in {"success", "failure"}
  /\ ok' = (rpc = "success")
  /\ rpc' = "off"
  /\ pc' = "decide"
  /\ UNCHANGED <<stop, skip, task, adding, input, malformed, writerVars>>
  /\ UNCHANGED <<cur, flag, handler, sigs, kills, queueVars>>

DecideAlways ==  \* variant: the message of a failed shard is deleted too
  /\ pc = "decide"
  /\ Delete(cur)
  /\ pc' = "top"
  /\ cur' = NoMessage
  /\ UNCHANGED <<ok, flag, handler, sigs, kills, writerVars, batchVars>>

(* delete_message, called iff the message was processed; its own failure   *)
(* is only logged.                                                         *)
Decide ==
  /\ pc = "decide"
  /\ \/ ok /\ Delete(cur)
     \/ ok /\ "delete" \in Faults /\ UNCHANGED queueVars
     \/ ~ok /\ UNCHANGED queueVars
  /\ pc' = "top"
  /\ cur' = NoMessage
  /\ UNCHANGED <<ok, flag, handler, sigs, kills, writerVars, batchVars>>

-----------------------------------------------------------------------------
(* The environment.                                                        *)

ObjectCreated(m) ==
  /\ Send(m)
  /\ UNCHANGED <<workerVars, writerVars, batchVars>>

(* The heartbeat keeps the current message invisible, unless its calls     *)
(* fail for too long.                                                      *)
VisibilityExpire(m) ==
  /\ BecomeVisible(m)
  /\ m # cur \/ "early_visible" \in Faults
  /\ UNCHANGED <<workerVars, writerVars, batchVars>>

Kill ==
  /\ "kill" \in Faults
  /\ pc # "dead"
  /\ kills < MaxKills
  /\ kills' = kills + 1
  /\ pc' = "dead"
  /\ FreshMemory
  /\ UNCHANGED <<queueVars, sigs>>

Sigterm ==
  /\ "sigterm" \in Faults
  /\ pc # "dead"
  /\ sigs < MaxSigterms
  /\ sigs' = sigs + 1
  /\ \/ /\ handler = "worker"
        /\ flag' = TRUE
        /\ UNCHANGED <<writerVars, batchVars>>
     \/ /\ handler = "batch"
        /\ BatchSigterm
        /\ UNCHANGED flag
  /\ UNCHANGED <<pc, cur, ok, handler, kills, queueVars>>

WorkerStep ==
  \/ Poll
  \/ \E m \in Messages : ReceiveMessage(m)
  \/ \E m \in Messages : ReceiveRedrives(m)
  \/ ReceiveNothing
  \/ ProcessWithoutRun
  \/ RunStart
  \/ RunStep
  \/ RunEnd
  \/ Decide

Next ==
  \/ Start
  \/ SelfTerminate
  \/ WorkerStep
  \/ \E m \in Messages : ObjectCreated(m)
  \/ \E m \in Messages : VisibilityExpire(m)
  \/ Kill
  \/ Sigterm

Spec == Init /\ [][Next]_vars

(* systemd restarts a process that was killed, the process runs, and a     *)
(* visibility timeout ends.  Nothing makes S3 send a message, a cap be     *)
(* reached, or a fault happen.                                             *)
FairSpec ==
  /\ Spec
  /\ WF_vars(Start)
  /\ WF_vars(WorkerStep)
  /\ \A m \in Messages : WF_vars(VisibilityExpire(m))

-----------------------------------------------------------------------------
(* Properties.                                                             *)

(* A deleted message has all calls of its shard committed, except where a  *)
(* SIGTERM stopped a run: no crash, failed or unacknowledged commit,       *)
(* failed scan, early redelivery or repeated notification loses a call.    *)
LossNeedsSigterm ==
  \A m \in Messages :
    msg[m] = "deleted" /\ KindOf[m] = "object"
      => CallsOf[KeyOf[m]] \subseteq Committed \/ sigs > 0

(* sqs_worker.py:23-25: a message is deleted only on a clean exit of the   *)
(* run.  The shard of a deleted message has every call committed.          *)
NoLoss ==
  \A m \in Messages :
    msg[m] = "deleted" /\ KindOf[m] = "object" => CallsOf[KeyOf[m]] \subseteq Committed

(* No call has two success rows in the table, whatever crashes, failed     *)
(* commits, retries of the shard and repeated notifications happen.        *)
NoDuplicate == \A c \in Calls : table[RowOf(c, "success")] <= 1

(* A call that already has a committed success row is never extracted      *)
(* again (sqs_worker.py:228: redelivery and --resume skip such calls).     *)
NoReextraction ==
  [][\A c \in Calls : task'[c] = "queued" /\ task[c] # "queued" => c \notin Committed]_vars

(* Every message leaves the queue: it is deleted or ends in the            *)
(* dead-letter queue.                                                      *)
Resolved ==
  \A m \in Messages : msg[m] = "visible" ~> msg[m] \in {"deleted", "dlq"}

(* One crash, wherever it hits, does not cost a well-formed shard: the     *)
(* second receive still finishes it and its message never goes to the      *)
(* dead-letter queue.                                                      *)
HealthyShardFinishes ==
  \A m \in Messages :
    msg[m] = "visible" /\ KindOf[m] = "object" /\ KeyOf[m] \notin Malformed
      ~> msg[m] = "deleted" /\ CallsOf[KeyOf[m]] \subseteq Committed

(* The ledger this worker keeps: a message is pending while it is in the   *)
(* queue, visible or not.  A test event asks for no call.                  *)
LedgerStatus ==
  [m \in Messages |->
    CASE msg[m] = "none" -> "absent"
      [] msg[m] \in {"visible", "inflight"} -> "pending"
      [] msg[m] = "deleted" -> "done"
      [] OTHER -> "quarantined"]

Needs == [m \in Messages |-> IF KindOf[m] = "object" THEN CallsOf[KeyOf[m]] ELSE {}]

Ledger == INSTANCE ShardLedger WITH
            Items <- Messages, NeedsOf <- Needs, CallIds <- Calls,
            MaxAttempts <- MaxReceive,
            status <- LedgerStatus, attempts <- receives, done <- Committed

(* The worker, its queue and its writer implement the ledger.              *)
ImplementsLedger == Ledger!LSpec

(* The worker as Fleet has it, on an instance that works all the time: a   *)
(* process that dies leaves its message, and none holds two.               *)
FleetView == INSTANCE Fleet WITH
               Invocations <- {}, Threshold <- 0, MaxSize <- 1, MaxForces <- 0, MaxFaults <- 0,
               FleetFaults <- IF "early_visible" \in Faults THEN {"heartbeat"} ELSE {},
               applied <- TRUE, desired <- 1, inst <- "working", dying <- FALSE,
               polled <- TRUE, at <- <<>>, forced <- <<>>, enough <- <<>>, aged <- <<>>,
               forces <- 0, faults <- 0

(* Whatever happens inside it, at the queue the worker does only what      *)
(* Fleet's worker does: it takes a message when it holds none, gives each  *)
(* one up deleted or untouched, and a message it holds becomes visible     *)
(* only if the heartbeat fails.                                            *)
ServesFleet ==
  [][\/ FleetView!WorkerStep
     \/ \E m \in Messages : FleetView!ObjectCreated(m) \/ FleetView!VisibilityExpire(m)
    ]_<<msg, receives, cur>>

(* Every step of a run brings it nearer to its end, and neither a SIGTERM  *)
(* nor what happens at the queue takes it back: no raised flush, error row *)
(* or signal makes a run go round for ever.                                *)
RunAdvances ==
  [][/\ RunStep => Rank' < Rank
     /\ pc = "run" /\ pc' = "run" => Rank' <= Rank]_vars

(* A run never waits for what cannot come: a task that raised has left its *)
(* place to the calls behind it, and a flush that failed, or a shard that  *)
(* is run again, leaves the run a next step (runner.py:55-98).             *)
RunNeverStuck == pc = "run" => ENABLED (RunStep \/ RunEnd)

-----------------------------------------------------------------------------
(* The strengthening that makes the safety properties inductive.           *)

(* What the worker knows of the message it holds.                          *)
WorkerInv ==
  /\ stop => sigs > 0
  /\ pc \in {"prep", "run", "decide"} <=> cur # NoMessage
  /\ pc = "run" => KindOf[cur] = "object" /\ input = CallsOf[KeyOf[cur]]
  /\ pc = "decide" /\ ok /\ KindOf[cur] = "object"
       => CallsOf[KeyOf[cur]] \subseteq Committed \/ sigs > 0

(* A message that is held is in the queue, invisible unless the heartbeat  *)
(* failed: nothing but Decide deletes it, nothing moves it to quarantine.  *)
HeldInv ==
  cur # NoMessage =>
    /\ receives[cur] > 0
    /\ \/ msg[cur] = "inflight"
       \/ "early_visible" \in Faults /\ msg[cur] = "visible"

IInv ==
  /\ TypeOK
  /\ BatchInv
  /\ WorkerInv
  /\ LossNeedsSigterm

(* The skip set that was read is still the whole set of committed calls of *)
(* the input, provided that the scan did not fail.                         *)
SkipFresh == rpc = "dispatch" => Committed \cap input \subseteq skip

(* Without failed scans, signals and lost answers a success row is in one  *)
(* place only: with its task, in the buffer or in the table.               *)
UniqueInv ==
  /\ NoDuplicate
  /\ fpc # "committed" => \A c \in Calls : RowOf(c, "success") \in buffer => c \notin Committed
  /\ fpc \in {"captured", "appending", "committed"} => rows = buffer
  /\ \A c \in Calls : task[c] \in Unfinished /\ (\A r \in adding : r.call # c)
       => c \notin Committed /\ RowOf(c, "success") \notin buffer

(* What is committed was asked for by the message in hand.                 *)
AskedInv ==
  /\ \A r \in buffer \cup rows \cup adding : r.call \in input
  /\ \A c \in Calls : task[c] # "none" => c \in input
  /\ HeldInv
=============================================================================
