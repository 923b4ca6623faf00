---------------------------- MODULE SqsWorkerProofs ----------------------------
(***************************************************************************)
(* Proofs about SqsWorker for every set of shards, calls and messages,     *)
(* every choice of faults and every bound: the invariants of the worker,   *)
(* that no call is committed or extracted twice, and that the worker       *)
(* implements ShardLedger and the worker of Fleet.                         *)
(***************************************************************************)
EXTENDS SqsWorker, ExtractBatchProofs

-----------------------------------------------------------------------------
(* The worker.                                                             *)

LoopTypeOK ==
  /\ pc \in {"dead", "top", "recv", "prep", "run", "decide"}
  /\ cur \in Messages \cup {NoMessage}
  /\ ok \in BOOLEAN
  /\ flag \in BOOLEAN
  /\ handler \in {"worker", "batch"}
  /\ sigs \in 0 .. MaxSigterms
  /\ kills \in 0 .. MaxKills

LoopInv ==
  /\ QueueTypeOK
  /\ LoopTypeOK
  /\ WorkerInv
  /\ LossNeedsSigterm

LEMMA IInvParts == IInv <=> BatchInv /\ LoopInv
BY DEF IInv, BatchInv, LoopInv, LoopTypeOK, TypeOK

LEMMA IInvPartsNext == IInv' <=> BatchInv' /\ LoopInv'
BY DEF IInv, BatchInv, LoopInv, LoopTypeOK, TypeOK

LEMMA InHand == IInv => (pc \in {"prep", "run", "decide"} <=> cur \in Messages)
BY IInvParts, WorkerAssumption DEF LoopInv, LoopTypeOK, WorkerInv

LEMMA FreshMemoryInv ==
  ASSUME BatchInv, FreshMemory
  PROVE  BatchInv' /\ Landed' = Landed
BY BlankMemoryInv DEF FreshMemory

LEMMA StartInv ==
  ASSUME IInv, Start
  PROVE  BatchInv' /\ LoopInv'
<1>1. BatchInv' /\ Committed' = Committed
  BY IInvParts, UntouchedInv DEF Start
<1> QED
  BY <1>1, IInvParts
  DEF Start, LoopInv, LoopTypeOK, QueueTypeOK, WorkerInv, LossNeedsSigterm, batchVars, queueVars

LEMMA SelfTerminateInv ==
  ASSUME IInv, SelfTerminate
  PROVE  BatchInv' /\ LoopInv'
<1>1. BatchInv' /\ Committed \subseteq Committed'
  BY IInvParts, FreshMemoryInv, KeepsCommitted DEF SelfTerminate
<1> QED
  BY <1>1, IInvParts
  DEF SelfTerminate, FreshMemory, LoopInv, LoopTypeOK, QueueTypeOK, WorkerInv,
      LossNeedsSigterm, queueVars

LEMMA PollInv ==
  ASSUME IInv, Poll
  PROVE  BatchInv' /\ LoopInv'
<1>1. BatchInv' /\ Committed' = Committed
  BY IInvParts, UntouchedInv DEF Poll
<1> QED
  BY <1>1, IInvParts
  DEF Poll, LoopInv, LoopTypeOK, QueueTypeOK, WorkerInv, LossNeedsSigterm, batchVars, queueVars

LEMMA ReceiveMessageInv ==
  ASSUME IInv, NEW m \in Messages, ReceiveMessage(m)
  PROVE  BatchInv' /\ LoopInv'
<1>1. BatchInv' /\ Committed' = Committed
  BY IInvParts, UntouchedInv DEF ReceiveMessage
<1>2. /\ msg \in [Messages -> MsgStates] /\ receives \in [Messages -> 0 .. MaxReceive]
      /\ receives[m] < MaxReceive
      /\ msg' = [msg EXCEPT ![m] = "inflight"]
      /\ receives' = [receives EXCEPT ![m] = receives[m] + 1]
  BY IInvParts DEF ReceiveMessage, Receive, LoopInv, QueueTypeOK
<1>3. QueueTypeOK'
  BY <1>2, QueueAssumption DEF QueueTypeOK, MsgStates
<1> QED
  BY <1>1, <1>2, <1>3, IInvParts, WorkerAssumption
  DEF ReceiveMessage, LoopInv, LoopTypeOK, WorkerInv, LossNeedsSigterm, batchVars

LEMMA ReceiveRedrivesInv ==
  ASSUME IInv, NEW m \in Messages, ReceiveRedrives(m)
  PROVE  BatchInv' /\ LoopInv'
<1>1. BatchInv' /\ Committed' = Committed
  BY IInvParts, UntouchedInv DEF ReceiveRedrives
<1>2. /\ msg \in [Messages -> MsgStates]
      /\ msg' = [msg EXCEPT ![m] = "dlq"]
      /\ receives' = receives
  BY IInvParts DEF ReceiveRedrives, Redrive, LoopInv, QueueTypeOK
<1> QED
  BY <1>1, <1>2, IInvParts
  DEF ReceiveRedrives, LoopInv, LoopTypeOK, QueueTypeOK, MsgStates, WorkerInv,
      LossNeedsSigterm, batchVars, workerVars

LEMMA ReceiveNothingInv ==
  ASSUME IInv, ReceiveNothing
  PROVE  BatchInv' /\ LoopInv'
<1>1. BatchInv' /\ Committed' = Committed
  BY IInvParts, UntouchedInv DEF ReceiveNothing
<1> QED
  BY <1>1, IInvParts
  DEF ReceiveNothing, LoopInv, LoopTypeOK, QueueTypeOK, WorkerInv, LossNeedsSigterm,
      batchVars, queueVars

LEMMA ProcessWithoutRunInv ==
  ASSUME IInv, ProcessWithoutRun
  PROVE  BatchInv' /\ LoopInv'
<1>1. BatchInv' /\ Committed' = Committed
  BY IInvParts, UntouchedInv DEF ProcessWithoutRun
<1> QED
  BY <1>1, IInvParts
  DEF ProcessWithoutRun, LoopInv, LoopTypeOK, QueueTypeOK, WorkerInv, LossNeedsSigterm,
      batchVars, queueVars

LEMMA RunStartInv ==
  ASSUME IInv, RunStart
  PROVE  BatchInv' /\ LoopInv'
<1>1. cur \in Messages
  BY InHand DEF RunStart
<1>2. CallsOf[KeyOf[cur]] \in SUBSET Calls
  BY <1>1, WorkerAssumption
<1>3. MainStart(CallsOf[KeyOf[cur]], KeyOf[cur] \in Malformed)
  BY DEF RunStart
<1>4. BatchInv' /\ Landed' = Landed
  <2>1. (KeyOf[cur] \in Malformed) \in BOOLEAN
    OBVIOUS
  <2> QED
    BY <1>2, <1>3, <2>1, IInvParts, MainStartInv, Zenon
<1>5. Committed \subseteq Committed'
  BY <1>4, KeepsCommitted
<1> QED
  BY <1>1, <1>4, <1>5, IInvParts
  DEF RunStart, MainStart, LoopInv, LoopTypeOK, QueueTypeOK, WorkerInv,
      LossNeedsSigterm, queueVars

LEMMA RunStepInv ==
  ASSUME IInv, RunStep
  PROVE  BatchInv' /\ LoopInv'
<1>1. BatchInv' /\ Committed \subseteq Committed'
  BY IInvParts, BatchStepInv, KeepsCommitted DEF RunStep, workerVars, Keeps
<1>2. UNCHANGED <<stop, input, pc, cur, ok, flag, handler, sigs, kills, msg, receives>>
      /\ pc = "run"
  BY BatchStepFrame DEF RunStep, workerVars, queueVars
<1> QED
  BY <1>1, <1>2, IInvParts
  DEF LoopInv, LoopTypeOK, QueueTypeOK, WorkerInv, LossNeedsSigterm

(* A successful run has tried or skipped every call of the shard, unless a *)
(* SIGTERM stopped it.                                                     *)
LEMMA RunEndInv ==
  ASSUME IInv, RunEnd
  PROVE  BatchInv' /\ LoopInv'
<1>1. WriterTypeOK' /\ FlushInv' /\ Keeps /\ Landed' = Landed /\ Committed' = Committed
      /\ buffer' = buffer /\ fpc' = fpc
  BY IInvParts, WriterUntouched DEF RunEnd
<1>2. BatchInv'
  BY <1>1, IInvParts
  DEF RunEnd, BatchInv, BatchTypeOK, AddingInv, SkipInv, PhaseInv, RowsKept, SuccessIsDurable
<1>3. rpc = "success" => CallsOf[KeyOf[cur]] \subseteq Committed \/ sigs > 0
  BY IInvParts
  DEF RunEnd, BatchInv, PhaseInv, SuccessIsDurable, LoopInv, WorkerInv
<1> QED
  BY <1>1, <1>2, <1>3, IInvParts
  DEF RunEnd, LoopInv, LoopTypeOK, QueueTypeOK, WorkerInv, LossNeedsSigterm, queueVars

LEMMA DecideInv ==
  ASSUME IInv, Decide
  PROVE  BatchInv' /\ LoopInv'
<1>1. BatchInv' /\ Committed' = Committed
  BY IInvParts, UntouchedInv DEF Decide
<1>2. cur \in Messages
  BY InHand DEF Decide
<1>3. CASE UNCHANGED queueVars
  BY <1>1, <1>3, IInvParts
  DEF Decide, LoopInv, LoopTypeOK, QueueTypeOK, WorkerInv, LossNeedsSigterm,
      batchVars, queueVars
<1>4. CASE ok /\ Delete(cur)
  <2>1. /\ msg \in [Messages -> MsgStates] /\ receives' = receives
        /\ msg' = [msg EXCEPT ![cur] = "deleted"]
    BY <1>4, IInvParts DEF Delete, LoopInv, QueueTypeOK
  <2>2. LossNeedsSigterm'
    BY <1>1, <1>2, <1>4, <2>1, IInvParts
    DEF Decide, LoopInv, WorkerInv, LossNeedsSigterm
  <2> QED
    BY <1>1, <1>2, <2>1, <2>2, IInvParts
    DEF Decide, LoopInv, LoopTypeOK, QueueTypeOK, MsgStates, WorkerInv, batchVars
<1> QED
  BY <1>3, <1>4 DEF Decide

LEMMA ObjectCreatedInv ==
  ASSUME IInv, NEW m \in Messages, ObjectCreated(m)
  PROVE  BatchInv' /\ LoopInv'
<1>1. BatchInv' /\ Committed' = Committed
  BY IInvParts, UntouchedInv DEF ObjectCreated
<1>2. /\ msg \in [Messages -> MsgStates]
      /\ msg' = [msg EXCEPT ![m] = "visible"]
      /\ receives' = receives
  BY IInvParts DEF ObjectCreated, Send, LoopInv, QueueTypeOK
<1> QED
  BY <1>1, <1>2, IInvParts
  DEF ObjectCreated, LoopInv, LoopTypeOK, QueueTypeOK, MsgStates, WorkerInv,
      LossNeedsSigterm, batchVars, workerVars

LEMMA VisibilityExpireInv ==
  ASSUME IInv, NEW m \in Messages, VisibilityExpire(m)
  PROVE  BatchInv' /\ LoopInv'
<1>1. BatchInv' /\ Committed' = Committed
  BY IInvParts, UntouchedInv DEF VisibilityExpire
<1>2. /\ msg \in [Messages -> MsgStates]
      /\ msg' = [msg EXCEPT ![m] = "visible"]
      /\ receives' = receives
  BY IInvParts DEF VisibilityExpire, BecomeVisible, LoopInv, QueueTypeOK
<1> QED
  BY <1>1, <1>2, IInvParts
  DEF VisibilityExpire, LoopInv, LoopTypeOK, QueueTypeOK, MsgStates, WorkerInv,
      LossNeedsSigterm, batchVars, workerVars

LEMMA KillInv ==
  ASSUME IInv, Kill
  PROVE  BatchInv' /\ LoopInv'
<1>1. BatchInv' /\ Committed \subseteq Committed'
  BY IInvParts, FreshMemoryInv, KeepsCommitted DEF Kill
<1>2. kills' \in 0 .. MaxKills
  BY IInvParts, WorkerAssumption DEF Kill, LoopInv, LoopTypeOK
<1> QED
  BY <1>1, <1>2, IInvParts
  DEF Kill, FreshMemory, LoopInv, LoopTypeOK, QueueTypeOK, WorkerInv,
      LossNeedsSigterm, queueVars

LEMMA SigtermInv ==
  ASSUME IInv, Sigterm
  PROVE  BatchInv' /\ LoopInv'
<1>1. sigs' \in 0 .. MaxSigterms /\ sigs' > 0
  BY IInvParts, WorkerAssumption DEF Sigterm, LoopInv, LoopTypeOK
<1>2. BatchInv' /\ Committed \subseteq Committed' /\ UNCHANGED input /\ flag' \in BOOLEAN
  <2>1. CASE flag' = TRUE /\ UNCHANGED <<writerVars, batchVars>>
    BY <2>1, IInvParts, UntouchedInv DEF batchVars
  <2>2. CASE BatchSigterm /\ UNCHANGED flag
    BY <2>2, BatchSigtermInv, KeepsCommitted, IInvParts
    DEF Keeps, BatchSigterm, LoopInv, LoopTypeOK
  <2> QED
    BY <2>1, <2>2 DEF Sigterm
<1> QED
  BY <1>1, <1>2, IInvParts
  DEF Sigterm, LoopInv, LoopTypeOK, QueueTypeOK, WorkerInv, LossNeedsSigterm, queueVars

LEMMA InitIInv == Init => IInv
<1> SUFFICES ASSUME Init PROVE IInv
  OBVIOUS
<1>1. BatchInv
  BY InitBatchInv DEF Init
<1>2. QueueTypeOK
  BY QueueAssumption, SMT DEF Init, QueueInit, QueueTypeOK, MsgStates
<1>3. LoopTypeOK
  <2>1. MaxSigterms \in Nat /\ MaxKills \in Nat
    BY WorkerAssumption
  <2>2. sigs \in 0 .. MaxSigterms /\ kills \in 0 .. MaxKills
    BY <2>1 DEF Init
  <2> QED
    BY <2>2 DEF Init, LoopTypeOK
<1>4. WorkerInv /\ LossNeedsSigterm
  BY DEF Init, BatchInit, QueueInit, WorkerInv, LossNeedsSigterm
<1> QED
  BY <1>1, <1>2, <1>3, <1>4, IInvParts DEF LoopInv

LEMMA NextIInv == IInv /\ [Next]_vars => IInv'
<1> SUFFICES ASSUME IInv, [Next]_vars PROVE BatchInv' /\ LoopInv'
  BY IInvPartsNext
<1>1. CASE UNCHANGED vars
  <2>1. BatchInv' /\ Committed' = Committed
    BY <1>1, IInvParts, UntouchedInv DEF vars
  <2> QED
    BY <1>1, <2>1, IInvParts
    DEF vars, LoopInv, LoopTypeOK, QueueTypeOK, WorkerInv, LossNeedsSigterm,
        batchVars, queueVars, workerVars
<1>2. CASE WorkerStep
  BY <1>2, PollInv, ReceiveMessageInv, ReceiveRedrivesInv, ReceiveNothingInv,
     ProcessWithoutRunInv, RunStartInv, RunStepInv, RunEndInv, DecideInv
  DEF WorkerStep
<1> QED
  BY <1>1, <1>2, StartInv, SelfTerminateInv, ObjectCreatedInv, VisibilityExpireInv,
     KillInv, SigtermInv
  DEF Next

LEMMA IInvariant == Spec => []IInv
BY InitIInv, NextIInv, PTL DEF Spec

(* Every reachable state is well typed, for all shards and faults.         *)
THEOREM TypeCorrect == Spec => []TypeOK
<1>1. IInv => TypeOK
  BY DEF IInv
<1> QED
  BY <1>1, IInvariant, PTL

(* No flush, failed commit or signal drops a row that is not committed.    *)
THEOREM RowsAreKept == Spec => []RowsKept
<1>1. IInv => RowsKept
  BY DEF IInv, BatchInv
<1> QED
  BY <1>1, IInvariant, PTL

(* Exit code 0 means that every call the run tried or skipped has a        *)
(* committed success row, whatever faults and signals hit the run.         *)
THEOREM SuccessDurable == Spec => []SuccessIsDurable
<1>1. IInv => SuccessIsDurable
  BY DEF IInv, BatchInv
<1> QED
  BY <1>1, IInvariant, PTL

(* Only a SIGTERM can make the worker delete the message of a shard that   *)
(* has calls without a committed success row.                              *)
THEOREM NoLossButBySigterm == Spec => []LossNeedsSigterm
<1>1. IInv => LossNeedsSigterm
  BY DEF IInv
<1> QED
  BY <1>1, IInvariant, PTL

-----------------------------------------------------------------------------
(* No committed call is extracted again.                                   *)

LEMMA InitSkipFresh == Init => SkipFresh
BY DEF Init, BatchInit, SkipFresh

(* Only Dispatch makes a task, from a call that is not in the skip set.    *)
LEMMA OnlyDispatchQueues ==
  ASSUME IInv, SkipFresh, [Next]_vars,
         NEW c \in Calls, task'[c] = "queued", task[c] # "queued"
  PROVE  c \notin Committed
<1>1. task \in [Calls -> TaskStates]
  BY IInvParts DEF BatchInv, BatchTypeOK
<1>2. CASE task' = task \/ task' = NoTasks
  BY <1>2 DEF NoTasks
<1>3. CASE RunStep
  <2>1. CASE \E d \in Calls : Dispatch(d)
    <3>1. PICK d \in Calls : Dispatch(d)
      BY <2>1
    <3> QED
      BY <3>1, <1>1 DEF Dispatch, SkipFresh
  <2>2. CASE DispatchRaise
    BY <2>2, <1>1 DEF DispatchRaise
  <2>3. CASE \E d \in Calls : TaskStart(d)
    BY <2>3, <1>1 DEF TaskStart
  <2>4. CASE \E d \in Calls, s \in {"success", "error"} : TaskExtracted(d, s)
    BY <2>4, <1>1 DEF TaskExtracted
  <2>5. CASE AddReturn
    <3>1. PICK r \in adding : task' = [task EXCEPT ![r.call] = r.status]
      BY <2>5 DEF AddReturn
    <3>2. r.status \in {"success", "error"}
      BY IInvParts, RowFacts DEF BatchInv, BatchTypeOK
    <3> QED
      BY <1>1, <3>1, <3>2
  <2>6. CASE AddRaise
    BY <2>6, <1>1 DEF AddRaise
  <2>7. CASE UNCHANGED task
    BY <2>7
  <2> QED
    BY <1>3, <2>1, <2>2, <2>3, <2>4, <2>5, <2>6, <2>7
    DEF RunStep, BatchStep, QuerySkipSet, QueryRaise, DispatchEnd, GatherEnd,
        RunReturn, RunRaise, Flushing, batchVars
<1> QED
  BY <1>2, <1>3
  DEF Next, WorkerStep, vars, batchVars, Start, SelfTerminate, FreshMemory, Poll,
      ReceiveMessage, ReceiveRedrives, ReceiveNothing, ProcessWithoutRun, RunStart,
      MainStart, RunEnd, Decide, ObjectCreated, VisibilityExpire, Kill, Sigterm,
      BatchSigterm

LEMMA NextSkipFresh ==
  ASSUME "scan" \notin Faults, IInv, SkipFresh, [Next]_vars
  PROVE  SkipFresh'
<1>1. CASE UNCHANGED <<writerVars, batchVars>>
  BY <1>1 DEF writerVars, batchVars, SkipFresh, Committed
<1>2. CASE rpc' \notin {"scan", "dispatch"}
  BY <1>2 DEF SkipFresh
<1>3. CASE RunStart
  BY <1>3 DEF RunStart, MainStart, WriterNew, SkipFresh
<1>4. CASE RunStep
  <2>1. CASE QuerySkipSet
    BY <2>1 DEF QuerySkipSet, writerVars, SkipFresh, Committed
  <2>2. CASE \E c \in Calls : Dispatch(c)
    BY <2>2 DEF Dispatch, writerVars, SkipFresh, Committed
  <2> QED
    BY <1>2, <1>4, <2>1, <2>2
    DEF RunStep, BatchStep, QueryRaise, DispatchEnd, DispatchRaise, TaskStart,
        TaskExtracted, AddReturn, AddRaise, GatherEnd, RunReturn, RunRaise, Flushing,
        batchVars
<1>5. CASE Sigterm /\ BatchSigterm
  BY <1>5, IInvParts DEF BatchSigterm, HandlerFlush, writerVars, SkipFresh, Committed, BatchInv, PhaseInv
<1> QED
  BY <1>1, <1>2, <1>3, <1>4, <1>5
  DEF Next, WorkerStep, vars, Start, SelfTerminate, FreshMemory, Poll,
      ReceiveMessage, ReceiveRedrives, ReceiveNothing, ProcessWithoutRun,
      RunEnd, Decide, ObjectCreated, VisibilityExpire, Kill, Sigterm

(* If the scan of the table never fails, no call with a committed success  *)
(* row is ever extracted again, whatever else goes wrong.                  *)
THEOREM CommittedNotReextracted ==
  ASSUME "scan" \notin Faults
  PROVE  Spec => NoReextraction
<1> DEFINE Fresh(c) == task'[c] = "queued" /\ task[c] # "queued" => c \notin Committed
<1>1. IInv /\ SkipFresh /\ [Next]_vars => [\A c \in Calls : Fresh(c)]_vars
  BY OnlyDispatchQueues
<1>2. IInv /\ SkipFresh /\ [Next]_vars => SkipFresh'
  BY NextSkipFresh
<1> QED
  BY <1>1, <1>2, InitSkipFresh, IInvariant, PTL DEF Spec, NoReextraction
-----------------------------------------------------------------------------
(* A success row is in one place only.                                     *)

SuccessOf(c) == RowOf(c, "success")

LEMMA LandUnique ==
  ASSUME table \in [Row -> Nat], NEW S \in SUBSET Row, Land(S), NoDuplicate,
         \A c \in Calls : SuccessOf(c) \in S => c \notin Committed
  PROVE  /\ NoDuplicate'
         /\ \A c \in Calls : c \in Committed' <=> c \in Committed \/ SuccessOf(c) \in S
<1> SUFFICES ASSUME NEW c \in Calls
             PROVE  /\ table'[SuccessOf(c)] <= 1
                    /\ c \in Committed' <=> c \in Committed \/ SuccessOf(c) \in S
  BY DEF NoDuplicate, SuccessOf
<1>1. SuccessOf(c) \in Row
  BY RowFacts DEF SuccessOf
<1>2. table[SuccessOf(c)] \in Nat /\ table[SuccessOf(c)] <= 1
  BY <1>1 DEF NoDuplicate, SuccessOf
<1>3. c \in Committed <=> table[SuccessOf(c)] > 0
  BY DEF Committed, SuccessOf
<1>4. c \in Committed' <=> table'[SuccessOf(c)] > 0
  BY DEF Committed, SuccessOf
<1>5. table'[SuccessOf(c)] =
        IF SuccessOf(c) \in S THEN table[SuccessOf(c)] + 1 ELSE table[SuccessOf(c)]
  BY <1>1 DEF Land
<1> QED
  BY <1>2, <1>3, <1>4, <1>5

LEMMA UniqueQuiet ==
  ASSUME UniqueInv, UNCHANGED <<buffer, table, fpc, rows, task, adding, rpc>>
  PROVE  UniqueInv'
BY DEF UniqueInv, NoDuplicate, Committed

LEMMA UniqueReset ==
  ASSUME UniqueInv, WriterNew, task' = NoTasks, adding' = {}
  PROVE  UniqueInv'
BY DEF UniqueInv, NoDuplicate, Committed, WriterNew, NoTasks, Unfinished

(* Steps of the phases without a flush, which leave the writer alone and   *)
(* make no task unfinished.                                                *)
LEMMA UniquePhase ==
  ASSUME UniqueInv, UNCHANGED writerVars, adding' = {}, adding = {},
         \A c \in Calls : task'[c] \in Unfinished => task[c] \in Unfinished
  PROVE  UniqueInv'
BY DEF UniqueInv, NoDuplicate, Committed, writerVars

LEMMA UniqueDispatch ==
  ASSUME BatchInv, UniqueInv, SkipFresh, NEW c \in Calls, Dispatch(c)
  PROVE  UniqueInv'
<1>1. /\ rpc = "dispatch" /\ rpc' = rpc /\ adding' = adding /\ adding = {}
      /\ c \in input /\ buffer = {} /\ UNCHANGED writerVars
      /\ task \in [Calls -> TaskStates]
      /\ task' = [task EXCEPT ![c] = IF c \in skip THEN "skipped" ELSE "queued"]
  BY DEF Dispatch, BatchInv, BatchTypeOK, AddingInv, PhaseInv
<1>2. c \notin skip => c \notin Committed
  BY <1>1 DEF SkipFresh
<1>3. Committed' = Committed
  BY <1>1 DEF Committed, writerVars
<1>4. ASSUME NEW d \in Calls, task'[d] \in Unfinished
      PROVE  d \notin Committed /\ SuccessOf(d) \notin buffer
  BY <1>1, <1>2, <1>4 DEF UniqueInv, Unfinished
<1> QED
  BY <1>1, <1>3, <1>4 DEF UniqueInv, NoDuplicate, writerVars, SuccessOf

LEMMA UniqueExtracted ==
  ASSUME BatchInv, UniqueInv, NEW c \in Calls, NEW s \in {"success", "error"},
         TaskExtracted(c, s)
  PROVE  UniqueInv'
<1> DEFINE r == RowOf(c, s)
<1>1. /\ rpc = "gather" /\ task[c] = "running" /\ adding = {} /\ fpc = "none"
      /\ task \in [Calls -> TaskStates]
      /\ buffer' = buffer \cup {r} /\ UNCHANGED <<table, rows>>
      /\ fpc' \in {"called", "none"}
  BY DEF TaskExtracted, AddRow, BatchInv, BatchTypeOK, AddingInv, PhaseInv
<1>2. c \notin Committed /\ SuccessOf(c) \notin buffer
  BY <1>1 DEF UniqueInv, Unfinished, SuccessOf
<1>3. Committed' = Committed
  BY <1>1 DEF Committed
<1>4. r \in Row /\ r.call = c /\ \A d \in Calls : SuccessOf(d) = r => d = c
  BY RowFacts DEF SuccessOf
<1>5. \A d \in Calls : SuccessOf(d) \in buffer' => d \notin Committed'
  BY <1>1, <1>2, <1>3, <1>4 DEF UniqueInv, SuccessOf
<1>6. \A d \in Calls \ {c} : task[d] \in Unfinished
        => d \notin Committed' /\ SuccessOf(d) \notin buffer'
  BY <1>1, <1>3, <1>4 DEF UniqueInv, SuccessOf
<1>7. CASE fpc' = "called" /\ rpc' = "add" /\ adding' = {r} /\ UNCHANGED task
  <2>1. \A d \in Calls : task'[d] \in Unfinished /\ (\A q \in adding' : q.call # d)
          => d \notin Committed' /\ SuccessOf(d) \notin buffer'
    BY <1>4, <1>6, <1>7
  <2> QED
    BY <1>1, <1>5, <1>7, <2>1 DEF UniqueInv, NoDuplicate, SuccessOf
<1>8. CASE fpc' = "none" /\ task' = [task EXCEPT ![c] = s] /\ UNCHANGED <<rpc, adding>>
  <2>1. \A d \in Calls : task'[d] \in Unfinished
          => d \notin Committed' /\ SuccessOf(d) \notin buffer'
    BY <1>1, <1>6, <1>8 DEF Unfinished
  <2> QED
    BY <1>1, <1>5, <1>8, <2>1 DEF UniqueInv, NoDuplicate, SuccessOf
<1> QED
  BY <1>1, <1>7, <1>8 DEF TaskExtracted

(* The end of a flush: nothing more is in a row of its own.                *)
LEMMA UniqueFlushed ==
  ASSUME BatchInv, UniqueInv, "lostack" \notin Faults, FlushReturn \/ FlushRaise
  PROVE  /\ fpc' = "none" /\ NoDuplicate' /\ Committed' = Committed
         /\ \A c \in Calls : SuccessOf(c) \in buffer' => c \notin Committed'
         /\ buffer' \subseteq buffer
<1>1. CASE FlushReturn
  BY <1>1 DEF FlushReturn, FlushEmpty, ClearBuffer, UniqueInv, NoDuplicate, Committed, SuccessOf
<1>2. CASE FlushRaise
  BY <1>2 DEF FlushRaise, UniqueInv, NoDuplicate, Committed, SuccessOf
<1> QED
  BY <1>1, <1>2

(* ... of the flush in an add_row(): its task is finished with it.         *)
LEMMA UniqueAdded ==
  ASSUME BatchInv, UniqueInv, "lostack" \notin Faults, AddReturn \/ AddRaise
  PROVE  UniqueInv'
<1>1. /\ fpc' = "none" /\ NoDuplicate' /\ Committed' = Committed
      /\ \A c \in Calls : SuccessOf(c) \in buffer' => c \notin Committed'
      /\ buffer' \subseteq buffer
  BY UniqueFlushed DEF AddReturn, AddRaise
<1>2. PICK r \in adding, s \in {"success", "error", "failed"} :
        task' = [task EXCEPT ![r.call] = s]
  <2>1. CASE AddReturn
    <3>1. PICK r \in adding : task' = [task EXCEPT ![r.call] = r.status]
      BY <2>1 DEF AddReturn
    <3>2. r.status \in {"success", "error"}
      BY RowFacts DEF BatchInv, BatchTypeOK
    <3> QED
      BY <3>1, <3>2
  <2>2. CASE AddRaise
    BY <2>2 DEF AddRaise
  <2> QED
    BY <2>1, <2>2
<1>3. \A q \in adding : q = r
  BY DEF BatchInv, AddingInv
<1>4. rpc' = "gather" /\ adding' = {} /\ task \in [Calls -> TaskStates]
  BY DEF AddReturn, AddRaise, BatchInv, BatchTypeOK
<1>5. ASSUME NEW c \in Calls, task'[c] \in Unfinished
      PROVE  c \notin Committed' /\ SuccessOf(c) \notin buffer'
  <2>1. c # r.call /\ task[c] \in Unfinished
    BY <1>2, <1>4, <1>5 DEF Unfinished
  <2>2. \A q \in adding : q.call # c
    BY <1>3, <2>1
  <2> QED
    BY <1>1, <2>1, <2>2 DEF UniqueInv, SuccessOf
<1> QED
  BY <1>1, <1>4, <1>5 DEF UniqueInv, SuccessOf

LEMMA UniqueRunEnds ==
  ASSUME BatchInv, UniqueInv, "lostack" \notin Faults, RunReturn \/ RunRaise
  PROVE  UniqueInv'
<1>1. /\ fpc' = "none" /\ NoDuplicate' /\ Committed' = Committed
      /\ \A c \in Calls : SuccessOf(c) \in buffer' => c \notin Committed'
      /\ buffer' \subseteq buffer
  BY UniqueFlushed DEF RunReturn, RunRaise
<1>2. /\ rpc = "flush" /\ rpc' \in {"success", "failure"}
      /\ UNCHANGED <<task, adding>> /\ adding = {}
  BY DEF RunReturn, RunRaise, BatchInv, AddingInv
<1> QED
  BY <1>1, <1>2 DEF UniqueInv, SuccessOf

LEMMA UniqueFlushing ==
  ASSUME BatchInv, UniqueInv, Flushing
  PROVE  UniqueInv'
<1>1. UNCHANGED <<rpc, task, adding>> /\ rpc \in {"add", "flush"}
  BY DEF Flushing, batchVars
<1>2. CASE Capture \/ OpenAppend
  BY <1>1, <1>2 DEF Capture, OpenAppend, UniqueInv, NoDuplicate, Committed
<1>3. CASE CommitAppend
  <2>1. /\ fpc = "appending" /\ fpc' = "committed" /\ Land(rows)
        /\ UNCHANGED <<buffer, rows>> /\ rows = buffer
    BY <1>3 DEF CommitAppend, UniqueInv
  <2>2. \A c \in Calls : SuccessOf(c) \in rows => c \notin Committed
    BY <2>1 DEF UniqueInv, SuccessOf
  <2>3. /\ NoDuplicate'
        /\ \A c \in Calls : c \in Committed' <=> c \in Committed \/ SuccessOf(c) \in rows
    BY <2>1, <2>2, LandUnique DEF UniqueInv, BatchInv, WriterTypeOK
  <2> QED
    BY <1>1, <2>1, <2>3 DEF UniqueInv, SuccessOf
<1> QED
  BY <1>2, <1>3 DEF Flushing, FlushStep

LEMMA UniqueBatchStep ==
  ASSUME BatchInv, UniqueInv, SkipFresh, "lostack" \notin Faults, BatchStep
  PROVE  UniqueInv'
<1> task \in [Calls -> TaskStates]
  BY DEF BatchInv, BatchTypeOK
<1>1. CASE QuerySkipSet \/ QueryRaise \/ DispatchEnd
  BY <1>1, UniquePhase DEF QuerySkipSet, QueryRaise, DispatchEnd, BatchInv, AddingInv
<1>2. CASE DispatchRaise
  BY <1>2, UniquePhase DEF DispatchRaise, BatchInv, AddingInv, Unfinished
<1>3. CASE \E c \in Calls : TaskStart(c)
  BY <1>3, UniquePhase DEF TaskStart, BatchInv, AddingInv, Unfinished
<1>4. CASE GatherEnd
  BY <1>4 DEF GatherEnd, CallFlush, UniqueInv, NoDuplicate, Committed
<1> QED
  BY <1>1, <1>2, <1>3, <1>4, UniqueDispatch, UniqueExtracted, UniqueAdded,
     UniqueRunEnds, UniqueFlushing
  DEF BatchStep

LEMMA UniqueNext ==
  ASSUME "lostack" \notin Faults, IInv, SkipFresh, UniqueInv, [Next]_vars, sigs' = sigs
  PROVE  UniqueInv'
<1>1. CASE UNCHANGED <<writerVars, batchVars>>
  BY <1>1, UniqueQuiet DEF writerVars, batchVars
<1>2. CASE SelfTerminate \/ Kill
  BY <1>2, UniqueReset DEF SelfTerminate, Kill, FreshMemory
<1>3. CASE RunStart
  BY <1>3, UniqueReset DEF RunStart, MainStart
<1>4. CASE RunStep
  BY <1>4, UniqueBatchStep, IInvParts DEF RunStep
<1>5. CASE RunEnd
  BY <1>5, UniquePhase, IInvParts DEF RunEnd, BatchInv, AddingInv
<1>6. ~Sigterm
  BY IInvParts, WorkerAssumption DEF Sigterm, LoopInv, LoopTypeOK
<1> QED
  BY <1>1, <1>2, <1>3, <1>4, <1>5, <1>6
  DEF Next, WorkerStep, vars, Start, Poll, ReceiveMessage, ReceiveRedrives,
      ReceiveNothing, ProcessWithoutRun, Decide, ObjectCreated, VisibilityExpire

(* The count of SIGTERMs only grows, and stays 0 where none can come.      *)
LEMMA SigsGrow ==
  ASSUME IInv, [Next]_vars
  PROVE  /\ sigs \in Nat
         /\ sigs' = sigs \/ sigs' = sigs + 1
         /\ "sigterm" \notin Faults => sigs' = sigs
<1>1. sigs \in Nat
  BY IInvParts, WorkerAssumption DEF LoopInv, LoopTypeOK
<1>2. CASE Sigterm
  BY <1>1, <1>2 DEF Sigterm
<1> QED
  BY <1>1, <1>2
  DEF Next, WorkerStep, vars, workerVars, Start, SelfTerminate, Poll, ReceiveMessage,
      ReceiveRedrives, ReceiveNothing, ProcessWithoutRun, RunStart, RunStep, RunEnd,
      Decide, ObjectCreated, VisibilityExpire, Kill

LEMMA NoSigterm ==
  ASSUME "sigterm" \notin Faults
  PROVE  Spec => [](sigs = 0)
<1>1. Init => sigs = 0
  BY DEF Init
<1>2. IInv /\ sigs = 0 /\ [Next]_vars => (sigs = 0)'
  BY SigsGrow
<1> QED
  BY <1>1, <1>2, IInvariant, PTL DEF Spec

LEMMA InitUnique == Init => UniqueInv
<1> SUFFICES ASSUME Init PROVE UniqueInv
  OBVIOUS
<1>1. \A c \in Calls : table[RowOf(c, "success")] = 0
  BY RowFacts DEF Init, WriterInit
<1> QED
  BY <1>1 DEF Init, WriterInit, BatchInit, NoTasks, UniqueInv, NoDuplicate, Unfinished

(* However shards are retried, redelivered and announced again, and        *)
(* wherever processes die and commits are refused, no call gets a second   *)
(* success row before the first SIGTERM, if no scan fails and no commit's  *)
(* answer is lost.                                                         *)
THEOREM RowsAreUniqueTillSigterm ==
  ASSUME "scan" \notin Faults, "lostack" \notin Faults
  PROVE  Spec => [](sigs = 0 => NoDuplicate)
<1>1. IInv /\ SkipFresh /\ [Next]_vars => SkipFresh'
  BY NextSkipFresh
<1>2. IInv /\ SkipFresh /\ (sigs = 0 => UniqueInv) /\ [Next]_vars => (sigs = 0 => UniqueInv)'
  BY UniqueNext, SigsGrow
<1>3. (sigs = 0 => UniqueInv) => (sigs = 0 => NoDuplicate)
  BY DEF UniqueInv
<1> QED
  BY <1>1, <1>2, <1>3, InitSkipFresh, InitUnique, IInvariant, PTL DEF Spec

(* Where no SIGTERM comes at all, no call ever gets a second success row.  *)
THEOREM RowsAreUnique ==
  ASSUME "scan" \notin Faults, "lostack" \notin Faults, "sigterm" \notin Faults
  PROVE  Spec => []NoDuplicate
BY RowsAreUniqueTillSigterm, NoSigterm, PTL

-----------------------------------------------------------------------------
(* The refinement of ShardLedger.                                          *)

LEMMA AskedBatchStep ==
  ASSUME BatchInv, AskedInv, BatchStep
  PROVE  /\ \A r \in buffer' \cup rows' \cup adding' : r.call \in input'
         /\ \A c \in Calls : task'[c] # "none" => c \in input'
<1>1. input' = input /\ task \in [Calls -> TaskStates]
  BY BatchStepFrame DEF BatchInv, BatchTypeOK
<1>2. CASE UNCHANGED <<buffer, rows, adding, task>>
  BY <1>1, <1>2 DEF AskedInv
<1>3. CASE \E c \in Calls : Dispatch(c)
  BY <1>1, <1>3 DEF Dispatch, AskedInv, writerVars
<1>4. CASE DispatchRaise
  BY <1>1, <1>4 DEF DispatchRaise, AskedInv, writerVars
<1>5. CASE \E c \in Calls : TaskStart(c)
  BY <1>1, <1>5 DEF TaskStart, AskedInv, writerVars
<1>6. CASE \E c \in Calls, s \in {"success", "error"} : TaskExtracted(c, s)
  <2>1. PICK c \in Calls, s \in {"success", "error"} : TaskExtracted(c, s)
    BY <1>6
  <2>2. c \in input /\ RowOf(c, s).call = c
    BY <2>1, RowFacts DEF TaskExtracted, AskedInv
  <2> QED
    BY <1>1, <2>1, <2>2 DEF TaskExtracted, AddRow, AskedInv
<1>7. CASE AddReturn \/ AddRaise
  <2>1. buffer' \subseteq buffer /\ rows' \subseteq rows /\ adding' = {}
    BY <1>7 DEF AddReturn, AddRaise, FlushReturn, FlushEmpty, ClearBuffer, FlushRaise
  <2>2. PICK r \in adding, s \in TaskStates : task' = [task EXCEPT ![r.call] = s]
    <3>1. \A r \in adding : r.status \in TaskStates
      BY RowFacts DEF BatchInv, BatchTypeOK, TaskStates
    <3> QED
      BY <1>7, <3>1 DEF AddReturn, AddRaise, TaskStates
  <2> QED
    BY <1>1, <2>1, <2>2 DEF AskedInv
<1>8. CASE RunReturn \/ RunRaise
  BY <1>1, <1>8
  DEF RunReturn, RunRaise, FlushReturn, FlushEmpty, ClearBuffer, FlushRaise, AskedInv
<1>9. CASE Flushing
  BY <1>1, <1>9
  DEF Flushing, FlushStep, Capture, OpenAppend, CommitAppend, batchVars, AskedInv
<1> QED
  BY <1>2, <1>3, <1>4, <1>5, <1>6, <1>7, <1>8, <1>9
  DEF BatchStep, QuerySkipSet, QueryRaise, DispatchEnd, GatherEnd, CallFlush, writerVars

(* The message in hand: only a receive puts it there, only Decide deletes  *)
(* it, and while it is held nothing but its own timeout touches it.        *)
LEMMA HeldNext ==
  ASSUME IInv, HeldInv, [Next]_vars
  PROVE  HeldInv'
<1> USE DEF HeldInv
<1> msg \in [Messages -> MsgStates] /\ receives \in [Messages -> Nat]
  BY IInvParts, QueueAssumption DEF LoopInv, QueueTypeOK
<1>1. CASE \E m \in Messages : ReceiveMessage(m)
  BY <1>1 DEF ReceiveMessage, Receive
<1>2. CASE \E m \in Messages : ReceiveRedrives(m)
  BY <1>2, IInvParts DEF ReceiveRedrives, workerVars, LoopInv, WorkerInv
<1>3. CASE \E m \in Messages : VisibilityExpire(m)
  BY <1>3 DEF VisibilityExpire, BecomeVisible, workerVars
<1>4. CASE \E m \in Messages : ObjectCreated(m)
  BY <1>4 DEF ObjectCreated, Send, workerVars
<1>5. CASE cur' = NoMessage
  BY <1>5
<1>6. CASE UNCHANGED <<cur, msg, receives>>
  BY <1>6
<1> QED
  BY <1>1, <1>2, <1>3, <1>4, <1>5, <1>6
  DEF Next, WorkerStep, vars, workerVars, queueVars, Start, SelfTerminate, FreshMemory,
      Poll, ReceiveNothing, ProcessWithoutRun, RunStart, RunStep, RunEnd, Decide, Kill,
      Sigterm

LEMMA AskedNext ==
  ASSUME IInv, AskedInv, [Next]_vars
  PROVE  AskedInv'
<1> SUFFICES /\ \A r \in buffer' \cup rows' \cup adding' : r.call \in input'
             /\ \A c \in Calls : task'[c] # "none" => c \in input'
  BY HeldNext DEF AskedInv
<1>1. CASE UNCHANGED <<writerVars, batchVars>>
  BY <1>1 DEF writerVars, batchVars, AskedInv
<1>2. CASE SelfTerminate \/ Kill
  BY <1>2 DEF SelfTerminate, Kill, FreshMemory, WriterNew, NoTasks
<1>3. CASE RunStart
  BY <1>3 DEF RunStart, MainStart, WriterNew, NoTasks
<1>4. CASE RunStep
  BY <1>4, AskedBatchStep, IInvParts DEF RunStep
<1>5. CASE RunEnd
  BY <1>5 DEF RunEnd, writerVars, AskedInv
<1>6. CASE BatchSigterm
  BY <1>6 DEF BatchSigterm, HandlerFlush, writerVars, AskedInv
<1> QED
  BY <1>1, <1>2, <1>3, <1>4, <1>5, <1>6
  DEF Next, WorkerStep, vars, Start, Poll, ReceiveMessage, ReceiveRedrives,
      ReceiveNothing, ProcessWithoutRun, Decide, ObjectCreated, VisibilityExpire,
      Sigterm

LEMMA InitAsked == Init => AskedInv
BY DEF Init, WriterInit, BatchInit, NoTasks, AskedInv, HeldInv

(* What a step of a run commits are calls of its input.                    *)
LEMMA BatchCommits ==
  ASSUME BatchInv, AskedInv, BatchStep
  PROVE  \E S \in SUBSET input : Committed' = Committed \cup S
<1>1. CASE UNCHANGED table
  <2>1. Committed' = Committed \cup {} /\ {} \in SUBSET input
    BY <1>1 DEF Committed
  <2> QED
    BY <2>1
<1>2. CASE Land(rows)
  <2> DEFINE S == {c \in Calls : SuccessOf(c) \in rows}
  <2>1. S \in SUBSET input
    BY RowFacts DEF AskedInv, SuccessOf
  <2>2. ASSUME NEW c \in Calls
        PROVE  c \in Committed' <=> c \in Committed \/ c \in S
    <3>1. SuccessOf(c) \in Row /\ table[SuccessOf(c)] \in Nat
      BY RowFacts DEF SuccessOf, BatchInv, WriterTypeOK
    <3>2. /\ c \in Committed <=> table[SuccessOf(c)] > 0
          /\ c \in Committed' <=> table'[SuccessOf(c)] > 0
      BY DEF Committed, SuccessOf
    <3> QED
      BY <1>2, <3>1, <3>2 DEF Land
  <2>3. Committed' = Committed \cup S
    BY <2>2 DEF Committed
  <2> QED
    BY <2>1, <2>3
<1> QED
  BY <1>1, <1>2
  DEF BatchStep, QuerySkipSet, QueryRaise, Dispatch, DispatchEnd, DispatchRaise,
      TaskStart, TaskExtracted, AddRow, AddReturn, AddRaise, GatherEnd, CallFlush,
      RunReturn, RunRaise, Flushing, FlushStep, Capture, OpenAppend, CommitAppend,
      FlushReturn, FlushEmpty, ClearBuffer, FlushRaise, writerVars

(* A message that changes its place changes its status in the ledger.      *)
LEMMA StatusChange ==
  ASSUME NEW m \in Messages, NEW v, msg \in [Messages -> MsgStates],
         msg' = [msg EXCEPT ![m] = v], v \in MsgStates
  PROVE  LedgerStatus' = [LedgerStatus EXCEPT ![m] =
           CASE v = "none" -> "absent"
             [] v \in {"visible", "inflight"} -> "pending"
             [] v = "deleted" -> "done"
             [] OTHER -> "quarantined"]
BY DEF LedgerStatus

LEMMA LedgerQuiet ==
  ASSUME UNCHANGED <<msg, receives, table>>
  PROVE  UNCHANGED <<LedgerStatus, receives, Committed>>
BY DEF LedgerStatus, Committed

LEMMA LedgerRunStep ==
  ASSUME IInv, AskedInv, RunStep
  PROVE  Ledger!LNext
<1>1. /\ cur \in Messages /\ pc = "run" /\ UNCHANGED <<msg, receives>>
      /\ input = Needs[cur] /\ receives[cur] > 0
  BY IInvParts, InHand, WorkerAssumption
  DEF RunStep, queueVars, LoopInv, WorkerInv, AskedInv, HeldInv, Needs
<1>2. \E S \in SUBSET Needs[cur] : Committed' = Committed \cup S
  BY <1>1, BatchCommits, IInvParts DEF RunStep
<1>3. LedgerStatus' = LedgerStatus
  BY <1>1 DEF LedgerStatus
<1>4. Ledger!Commit
  BY <1>1, <1>2, <1>3 DEF Ledger!Commit
<1> QED
  BY <1>4 DEF Ledger!LNext

LEMMA LedgerDecide ==
  ASSUME IInv, AskedInv, sigs = 0, Decide
  PROVE  Ledger!LNext \/ UNCHANGED <<LedgerStatus, receives, Committed>>
<1>1. UNCHANGED table /\ pc = "decide" /\ cur \in Messages /\ receives[cur] > 0
  BY InHand, WorkerAssumption DEF Decide, writerVars, AskedInv, HeldInv
<1>2. CASE UNCHANGED queueVars
  BY <1>1, <1>2, LedgerQuiet DEF queueVars
<1>3. CASE ok /\ Delete(cur)
  <2>1. /\ msg \in [Messages -> MsgStates] /\ msg[cur] \in {"visible", "inflight"}
        /\ msg' = [msg EXCEPT ![cur] = "deleted"] /\ UNCHANGED receives
    BY <1>3, IInvParts DEF Delete, LoopInv, QueueTypeOK
  <2>2. LedgerStatus' = [LedgerStatus EXCEPT ![cur] = "done"]
    BY <1>1, <2>1, StatusChange DEF MsgStates
  <2>3. LedgerStatus[cur] = "pending"
    BY <1>1, <2>1 DEF LedgerStatus
  <2>4. Needs[cur] \subseteq Committed
    BY <1>1, <1>3, IInvParts DEF LoopInv, WorkerInv, Needs
  <2>5. Committed' = Committed
    BY <1>1 DEF Committed
  <2>6. Ledger!Finish(cur)
    BY <1>1, <2>1, <2>2, <2>3, <2>4, <2>5 DEF Ledger!Finish
  <2> QED
    BY <1>1, <2>6 DEF Ledger!LNext
<1> QED
  BY <1>2, <1>3 DEF Decide

LEMMA LedgerQueueStep ==
  ASSUME IInv, NEW m \in Messages,
         ObjectCreated(m) \/ ReceiveMessage(m) \/ ReceiveRedrives(m) \/ VisibilityExpire(m)
  PROVE  Ledger!LNext \/ UNCHANGED <<LedgerStatus, receives, Committed>>
<1>1. /\ msg \in [Messages -> MsgStates] /\ receives \in [Messages -> 0 .. MaxReceive]
      /\ Committed' = Committed
  BY IInvParts
  DEF LoopInv, QueueTypeOK, ObjectCreated, ReceiveMessage, ReceiveRedrives,
      VisibilityExpire, writerVars, Committed
<1>2. CASE ObjectCreated(m)
  <2>1. msg[m] = "none" /\ msg' = [msg EXCEPT ![m] = "visible"] /\ UNCHANGED receives
    BY <1>2 DEF ObjectCreated, Send
  <2>2. LedgerStatus' = [LedgerStatus EXCEPT ![m] = "pending"] /\ LedgerStatus[m] = "absent"
    BY <1>1, <2>1, StatusChange DEF MsgStates, LedgerStatus
  <2>3. Ledger!Announce(m)
    BY <1>1, <2>1, <2>2 DEF Ledger!Announce
  <2> QED
    BY <2>3 DEF Ledger!LNext
<1>3. CASE ReceiveMessage(m)
  <2>1. /\ msg[m] = "visible" /\ msg' = [msg EXCEPT ![m] = "inflight"]
        /\ receives[m] < MaxReceive /\ receives' = [receives EXCEPT ![m] = @ + 1]
    BY <1>3 DEF ReceiveMessage, Receive
  <2>2. LedgerStatus[m] = "pending" /\ LedgerStatus' = LedgerStatus
    BY <1>1, <2>1 DEF LedgerStatus
  <2>3. Ledger!Attempt(m)
    BY <1>1, <2>1, <2>2 DEF Ledger!Attempt
  <2> QED
    BY <2>3 DEF Ledger!LNext
<1>4. CASE ReceiveRedrives(m)
  <2>1. /\ msg[m] = "visible" /\ msg' = [msg EXCEPT ![m] = "dlq"]
        /\ receives[m] = MaxReceive /\ UNCHANGED receives
    BY <1>4 DEF ReceiveRedrives, Redrive
  <2>2. LedgerStatus' = [LedgerStatus EXCEPT ![m] = "quarantined"] /\ LedgerStatus[m] = "pending"
    BY <1>1, <2>1, StatusChange DEF MsgStates, LedgerStatus
  <2>3. Ledger!Quarantine(m)
    BY <1>1, <2>1, <2>2 DEF Ledger!Quarantine
  <2> QED
    BY <2>3 DEF Ledger!LNext
<1>5. CASE VisibilityExpire(m)
  <2>1. /\ msg[m] = "inflight" /\ msg' = [msg EXCEPT ![m] = "visible"]
        /\ UNCHANGED receives
    BY <1>5 DEF VisibilityExpire, BecomeVisible
  <2>2. LedgerStatus' = LedgerStatus
    BY <1>1, <2>1 DEF LedgerStatus
  <2> QED
    BY <1>1, <2>1, <2>2
<1> QED
  BY <1>2, <1>3, <1>4, <1>5

LEMMA LedgerStep ==
  ASSUME IInv, AskedInv, sigs = 0, sigs' = 0, [Next]_vars
  PROVE  [Ledger!LNext]_(Ledger!ledgerVars)
<1> SUFFICES Ledger!LNext \/ UNCHANGED <<LedgerStatus, receives, Committed>>
  BY DEF Ledger!ledgerVars
<1>1. CASE UNCHANGED <<msg, receives, table>>
  BY <1>1, LedgerQuiet
<1> QED
  BY <1>1, LedgerRunStep, LedgerDecide, LedgerQueueStep
  DEF Next, WorkerStep, vars, writerVars, queueVars, Start, SelfTerminate, Kill,
      FreshMemory, WriterNew, Poll, ReceiveNothing, ProcessWithoutRun, RunStart,
      MainStart, RunEnd, Sigterm

LEMMA InitLedger == Init => Ledger!LInit
<1> SUFFICES ASSUME Init PROVE Ledger!LInit
  OBVIOUS
<1>1. LedgerStatus = [m \in Messages |-> "absent"]
  BY DEF Init, QueueInit, LedgerStatus
<1>2. Committed = {}
  BY RowFacts DEF Init, WriterInit, Committed
<1> QED
  BY <1>1, <1>2 DEF Init, QueueInit, Ledger!LInit

(* Until the first SIGTERM the worker, its queue and its table keep the    *)
(* promise of ShardLedger, whatever crashes, failed calls, redeliveries    *)
(* and repeated notifications there are: a message leaves the queue as     *)
(* done with all its calls committed, or in quarantine after MaxReceive    *)
(* attempts, and only calls that were asked for are committed.             *)
THEOREM LedgerTillSigterm ==
  Spec => Ledger!LInit /\ [][sigs' = 0 => [Ledger!LNext]_(Ledger!ledgerVars)]_vars
<1>1. IInv /\ AskedInv /\ [Next]_vars => AskedInv'
  BY AskedNext
<1>2. IInv /\ AskedInv /\ [Next]_vars
        => [sigs' = 0 => [Ledger!LNext]_(Ledger!ledgerVars)]_vars
  BY LedgerStep, SigsGrow
<1> QED
  BY <1>1, <1>2, InitAsked, InitLedger, IInvariant, PTL DEF Spec

(* Where no SIGTERM comes at all the worker implements ShardLedger.        *)
THEOREM WorkerImplementsLedger ==
  ASSUME "sigterm" \notin Faults
  PROVE  Spec => ImplementsLedger
<1>1. IInv /\ AskedInv /\ [Next]_vars => AskedInv'
  BY AskedNext
<1>2. IInv /\ AskedInv /\ sigs = 0 /\ (sigs = 0)' /\ [Next]_vars
        => [Ledger!LNext]_(Ledger!ledgerVars)
  BY LedgerStep
<1> QED
  BY <1>1, <1>2, NoSigterm, InitAsked, InitLedger, IInvariant, PTL
  DEF Spec, ImplementsLedger, Ledger!LSpec

-----------------------------------------------------------------------------
(* The refinement of Fleet's worker.                                       *)

LEMMA FleetStep ==
  ASSUME IInv, [Next]_vars
  PROVE  \/ FleetView!WorkerStep
         \/ \E m \in Messages : FleetView!ObjectCreated(m) \/ FleetView!VisibilityExpire(m)
         \/ UNCHANGED <<msg, receives, cur>>
<1>1. pc \in {"prep", "run", "decide"} <=> cur # NoMessage
  BY IInvParts DEF LoopInv, WorkerInv
<1>2. CASE \E m \in Messages : ReceiveMessage(m)
  <2>1. PICK m \in Messages : ReceiveMessage(m)
    BY <1>2
  <2>2. FleetView!ReceiveMessage(m)
    BY <1>1, <2>1
    DEF ReceiveMessage, Receive, FleetView!ReceiveMessage, FleetView!Receive,
        FleetView!Working, FleetView!groupVars, FleetView!lambdaVars
  <2> QED
    BY <2>2 DEF FleetView!WorkerStep
<1>3. CASE \E m \in Messages : ReceiveRedrives(m)
  <2>1. PICK m \in Messages : ReceiveRedrives(m)
    BY <1>3
  <2>2. FleetView!ReceiveRedrives(m)
    BY <1>1, <2>1
    DEF ReceiveRedrives, Redrive, workerVars, FleetView!ReceiveRedrives,
        FleetView!Redrive, FleetView!Working, FleetView!fleetVars, FleetView!groupVars,
        FleetView!workerVars, FleetView!lambdaVars
  <2> QED
    BY <2>2 DEF FleetView!WorkerStep
<1>4. CASE Decide \/ Kill
  <2>1. CASE cur = NoMessage
    BY <1>1, <1>4, <2>1 DEF Decide, Kill, FreshMemory, queueVars
  <2>2. CASE cur # NoMessage
    <3>1. FleetView!ProcessShard
      BY <1>4, <2>2
      DEF Decide, Kill, FreshMemory, Delete, queueVars, FleetView!ProcessShard,
          FleetView!Delete, FleetView!queueVars, FleetView!groupVars, FleetView!lambdaVars
    <3> QED
      BY <3>1 DEF FleetView!WorkerStep
  <2> QED
    BY <2>1, <2>2
<1>5. CASE \E m \in Messages : ObjectCreated(m)
  BY <1>5
  DEF ObjectCreated, Send, workerVars, FleetView!ObjectCreated, FleetView!Send,
      FleetView!fleetVars, FleetView!groupVars, FleetView!workerVars, FleetView!lambdaVars
<1>6. CASE \E m \in Messages : VisibilityExpire(m)
  BY <1>6
  DEF VisibilityExpire, BecomeVisible, workerVars, FleetView!VisibilityExpire,
      FleetView!BecomeVisible, FleetView!fleetVars, FleetView!groupVars,
      FleetView!workerVars, FleetView!lambdaVars
<1>7. CASE SelfTerminate
  BY <1>1, <1>7 DEF SelfTerminate, FreshMemory, queueVars
<1> QED
  BY <1>2, <1>3, <1>4, <1>5, <1>6, <1>7
  DEF Next, WorkerStep, vars, workerVars, queueVars, Start, Poll, ReceiveNothing,
      ProcessWithoutRun, RunStart, RunStep, RunEnd, Sigterm

(* What Fleet keeps of the worker is all there is to see of it at the      *)
(* queue: it takes a message when it holds none, gives each one up deleted *)
(* or untouched (a process that is killed, untouched), and a message in    *)
(* hand becomes visible only if the heartbeat fails.                       *)
THEOREM WorkerServesFleet == Spec => ServesFleet
<1>1. IInv /\ [Next]_vars =>
        [\/ FleetView!WorkerStep
         \/ \E m \in Messages : FleetView!ObjectCreated(m) \/ FleetView!VisibilityExpire(m)
        ]_<<msg, receives, cur>>
  BY FleetStep
<1> QED
  BY <1>1, IInvariant, PTL DEF Spec, ServesFleet

-----------------------------------------------------------------------------
(* A run comes to its end.                                                 *)

LEMMA RankNext ==
  ASSUME IsFiniteSet(Calls), IInv, [Next]_vars
  PROVE  /\ RunStep => Rank' < Rank
         /\ pc = "run" /\ pc' = "run" => Rank' <= Rank
<1>1. Rank \in Nat /\ Rank' \in Nat
  BY RankType
<1>2. CASE RunStep
  <2>1. Rank' < Rank
    BY <1>2, RunNears, IInvParts DEF RunStep
  <2> QED
    BY <1>1, <2>1
<1>3. CASE ~RunStep /\ pc = "run" /\ pc' = "run"
  <2>1. UNCHANGED <<rpc, fpc, task>>
    BY <1>3
    DEF Next, WorkerStep, vars, batchVars, writerVars, workerVars, Start, SelfTerminate,
        Poll, ReceiveMessage, ReceiveRedrives, ReceiveNothing, ProcessWithoutRun,
        RunStart, RunEnd, Decide, ObjectCreated, VisibilityExpire, Kill, Sigterm,
        BatchSigterm, HandlerFlush
  <2>2. Rank' = Rank
    BY <2>1, RankSame
  <2> QED
    BY <1>1, <1>3, <2>2
<1> QED
  BY <1>2, <1>3

(* Every step of a run takes it nearer to its end, by a measure in Nat     *)
(* that no SIGTERM and nothing at the queue moves back: a run makes        *)
(* finitely many steps whatever fails in it.                               *)
THEOREM RunsAdvance ==
  ASSUME IsFiniteSet(Calls)
  PROVE  Spec => RunAdvances
<1>1. IInv /\ [Next]_vars =>
        [/\ RunStep => Rank' < Rank
         /\ pc = "run" /\ pc' = "run" => Rank' <= Rank]_vars
  BY RankNext
<1> QED
  BY <1>1, IInvariant, PTL DEF Spec, RunAdvances

(* ... and the measure is a natural number, so there is no endless descent.*)
THEOREM RankIsNatural ==
  ASSUME IsFiniteSet(Calls)
  PROVE  Spec => [](Rank \in Nat)
BY RankType, PTL
=============================================================================
