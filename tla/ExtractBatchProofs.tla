--------------------------- MODULE ExtractBatchProofs ---------------------------
(***************************************************************************)
(* Proofs about a run of extract_batch.main(), for whatever process it is  *)
(* part of: the writer's lemmas say what a step of flush() keeps, the      *)
(* run's what every step of main() keeps, and how it nears its end.        *)
(***************************************************************************)
EXTENDS ExtractBatch, FiniteSetTheorems, TLAPS

-----------------------------------------------------------------------------
(* The writer.                                                             *)

LEMMA RowFacts ==
  /\ \A c \in Calls, s \in {"success", "error"} :
       /\ RowOf(c, s) \in Row
       /\ RowOf(c, s).call = c
       /\ RowOf(c, s).status = s
  /\ \A r \in Row : /\ r.call \in Calls
                    /\ r.status \in {"success", "error"}
                    /\ r = RowOf(r.call, r.status)
BY DEF Row, RowOf

LEMMA CommittedIsLanded ==
  \A c \in Calls : c \in Committed <=> RowOf(c, "success") \in Landed
BY RowFacts DEF Committed, Landed

LEMMA LandFacts ==
  ASSUME NEW S, table \in [Row -> Nat], Land(S)
  PROVE  /\ table' \in [Row -> Nat]
         /\ Landed \subseteq Landed'
         /\ S \cap Row \subseteq Landed'
         /\ Landed' \subseteq Landed \cup S
BY DEF Land, Landed

(* What every step of a writer keeps: rows in the table stay there, and a  *)
(* row of the buffer stays in the buffer or is in the table.               *)
Keeps ==
  /\ Landed \subseteq Landed'
  /\ buffer \subseteq buffer' \cup Landed'

LEMMA KeepsCommitted == Landed \subseteq Landed' => Committed \subseteq Committed'
<1> SUFFICES ASSUME Landed \subseteq Landed', NEW c \in Calls, c \in Committed
             PROVE  c \in Committed'
  BY DEF Committed
<1>1. RowOf(c, "success") \in Landed'
  BY CommittedIsLanded
<1> QED
  BY <1>1, RowFacts DEF Committed, Landed

LEMMA AddRowFacts ==
  ASSUME WriterTypeOK, FlushInv, NEW r \in Row, AddRow(r)
  PROVE  WriterTypeOK' /\ FlushInv' /\ Keeps /\ r \in buffer'
BY DEF WriterTypeOK, FlushInv, AddRow, Keeps, Landed

LEMMA CallFlushFacts ==
  ASSUME WriterTypeOK, FlushInv, CallFlush
  PROVE  WriterTypeOK' /\ FlushInv' /\ Keeps
BY DEF WriterTypeOK, FlushInv, CallFlush, Keeps, Landed

LEMMA FlushStepFacts ==
  ASSUME WriterTypeOK, FlushInv, FlushStep
  PROVE  WriterTypeOK' /\ FlushInv' /\ Keeps
<1>1. CASE Capture
  BY <1>1 DEF WriterTypeOK, FlushInv, Capture, Keeps, Landed
<1>2. CASE OpenAppend
  BY <1>2 DEF WriterTypeOK, FlushInv, OpenAppend, Keeps, Landed
<1>3. CASE CommitAppend
  <2>1. /\ table' \in [Row -> Nat]
        /\ Landed \subseteq Landed'
        /\ rows \cap Row \subseteq Landed'
    BY <1>3, LandFacts DEF CommitAppend, WriterTypeOK
  <2>2. UNCHANGED <<buffer, rows, stale>> /\ fpc' = "committed" /\ fpc = "appending"
    BY <1>3 DEF CommitAppend
  <2> QED
    BY <2>1, <2>2 DEF WriterTypeOK, FlushInv, Keeps
<1> QED
  BY <1>1, <1>2, <1>3 DEF FlushStep

LEMMA FlushReturnFacts ==
  ASSUME WriterTypeOK, FlushInv, FlushReturn
  PROVE  WriterTypeOK' /\ FlushInv' /\ Keeps /\ buffer' = {} /\ fpc' = "none"
<1>1. CASE FlushEmpty
  BY <1>1 DEF WriterTypeOK, FlushInv, FlushEmpty, Keeps, Landed
<1>2. CASE ClearBuffer
  BY <1>2 DEF WriterTypeOK, FlushInv, ClearBuffer, Keeps, Landed
<1> QED
  BY <1>1, <1>2 DEF FlushReturn

LEMMA FlushRaiseFacts ==
  ASSUME WriterTypeOK, FlushInv, FlushRaise
  PROVE  WriterTypeOK' /\ FlushInv' /\ Keeps /\ fpc' = "none"
<1>1. table' \in [Row -> Nat] /\ Landed \subseteq Landed'
  <2>1. CASE UNCHANGED table
    BY <2>1 DEF WriterTypeOK, Landed
  <2>2. CASE Land(rows)
    BY <2>2, LandFacts DEF WriterTypeOK
  <2> QED
    BY <2>1, <2>2 DEF FlushRaise
<1> QED
  BY <1>1 DEF WriterTypeOK, FlushInv, FlushRaise, Keeps

LEMMA HandlerFlushFacts ==
  ASSUME WriterTypeOK, FlushInv, HandlerFlush
  PROVE  WriterTypeOK' /\ FlushInv' /\ Keeps /\ (buffer = {} => buffer' = {}) /\ fpc' = fpc
<1>1. CASE UNCHANGED writerVars
  BY <1>1 DEF WriterTypeOK, FlushInv, Keeps, Landed, writerVars
<1>2. CASE /\ buffer # {}
           /\ Land(buffer)
           /\ buffer' = {} \/ UNCHANGED buffer
           /\ stale' = (fpc = "appending" \/ stale)
           /\ UNCHANGED <<fpc, rows>>
  <2>1. /\ table' \in [Row -> Nat]
        /\ Landed \subseteq Landed'
        /\ buffer \cap Row \subseteq Landed'
    BY <1>2, LandFacts DEF WriterTypeOK
  <2>2. stale' \in BOOLEAN
    BY <1>2
  <2> QED
    BY <1>2, <2>1, <2>2 DEF WriterTypeOK, FlushInv, Keeps
<1> QED
  BY <1>1, <1>2 DEF HandlerFlush

LEMMA WriterNewFacts ==
  ASSUME WriterTypeOK, WriterNew
  PROVE  WriterTypeOK' /\ FlushInv' /\ Landed' = Landed /\ buffer' = {} /\ fpc' = "none"
BY DEF WriterTypeOK, FlushInv, WriterNew, Landed

LEMMA WriterSame ==
  ASSUME WriterTypeOK, FlushInv, UNCHANGED writerVars
  PROVE  WriterTypeOK' /\ FlushInv' /\ Keeps
BY DEF WriterTypeOK, FlushInv, Keeps, Landed, writerVars

-----------------------------------------------------------------------------
(* A run of extract_batch.                                                 *)

(* A step that leaves the tasks and the phase alone keeps the invariant if *)
(* the writer keeps its rows.                                              *)
LEMMA SamePhase ==
  ASSUME BatchInv, WriterTypeOK', FlushInv', Keeps,
         UNCHANGED <<rpc, skip, task, adding, input, malformed>>,
         stop' \in BOOLEAN, stop => stop', buffer = {} => buffer' = {},
         fpc = "none" => fpc' = "none"
  PROVE  BatchInv'
<1>1. Committed \subseteq Committed'
  BY KeepsCommitted DEF Keeps
<1>2. BatchTypeOK'
  BY DEF BatchInv, BatchTypeOK
<1>3. AddingInv' /\ RowsKept'
  BY DEF BatchInv, AddingInv, RowsKept, Keeps
<1>4. SkipInv' /\ SuccessIsDurable'
  BY <1>1 DEF BatchInv, SkipInv, SuccessIsDurable
<1>5. PhaseInv'
  BY DEF BatchInv, PhaseInv
<1> QED
  BY <1>2, <1>3, <1>4, <1>5 DEF BatchInv

(* Same as above, for the steps that do not touch the writer.              *)
LEMMA WriterUntouched ==
  ASSUME BatchInv, UNCHANGED writerVars
  PROVE  /\ WriterTypeOK' /\ FlushInv' /\ Keeps
         /\ Landed' = Landed /\ Committed' = Committed
         /\ buffer' = buffer /\ fpc' = fpc
BY WriterSame DEF BatchInv, writerVars, Landed, Committed

LEMMA QuerySkipSetInv ==
  ASSUME BatchInv, QuerySkipSet
  PROVE  BatchInv' /\ Keeps
<1>1. UNCHANGED writerVars
  BY DEF QuerySkipSet
<1>2. PhaseInv'
  BY <1>1, WriterUntouched DEF QuerySkipSet, BatchInv, PhaseInv
<1>3. BatchTypeOK' /\ SuccessIsDurable'
  BY DEF QuerySkipSet, BatchInv, BatchTypeOK, SuccessIsDurable, Committed
<1> QED
  BY <1>1, <1>2, <1>3, WriterUntouched
  DEF QuerySkipSet, BatchInv, AddingInv, SkipInv, RowsKept

LEMMA QueryRaiseInv ==
  ASSUME BatchInv, QueryRaise
  PROVE  BatchInv' /\ Keeps
BY WriterUntouched
DEF QueryRaise, BatchInv, BatchTypeOK, AddingInv, SkipInv, PhaseInv, RowsKept,
    SuccessIsDurable

LEMMA DispatchInv ==
  ASSUME BatchInv, NEW c \in Calls, Dispatch(c)
  PROVE  BatchInv' /\ Keeps
<1>1. /\ rpc = "dispatch" /\ task \in [Calls -> TaskStates]
      /\ task' = [task EXCEPT ![c] = IF c \in skip THEN "skipped" ELSE "queued"]
      /\ UNCHANGED <<rpc, stop, skip, adding, input, malformed>>
      /\ UNCHANGED writerVars
  BY DEF Dispatch, BatchInv, BatchTypeOK
<1>2. task' \in [Calls -> TaskStates]
  BY <1>1 DEF TaskStates, Unfinished
<1> QED
  BY <1>1, <1>2, WriterUntouched
  DEF BatchInv, BatchTypeOK, AddingInv, SkipInv, PhaseInv, RowsKept, SuccessIsDurable

LEMMA DispatchEndInv ==
  ASSUME BatchInv, DispatchEnd
  PROVE  BatchInv' /\ Keeps
BY WriterUntouched
DEF DispatchEnd, BatchInv, BatchTypeOK, AddingInv, SkipInv, PhaseInv, RowsKept,
    SuccessIsDurable

LEMMA DispatchRaiseInv ==
  ASSUME BatchInv, DispatchRaise
  PROVE  BatchInv' /\ Keeps
<1>1. task' \in [Calls -> TaskStates]
  BY DEF DispatchRaise, BatchInv, BatchTypeOK, TaskStates
<1> QED
  BY <1>1, WriterUntouched
  DEF DispatchRaise, BatchInv, BatchTypeOK, AddingInv, SkipInv, PhaseInv, RowsKept,
      SuccessIsDurable

LEMMA TaskStartInv ==
  ASSUME BatchInv, NEW c \in Calls, TaskStart(c)
  PROVE  BatchInv' /\ Keeps
<1>1. /\ rpc = "gather" /\ task \in [Calls -> TaskStates] /\ task[c] = "queued"
      /\ task' = [task EXCEPT ![c] = "running"]
      /\ UNCHANGED <<rpc, stop, skip, adding, input, malformed>>
      /\ UNCHANGED writerVars
  BY DEF TaskStart, BatchInv, BatchTypeOK
<1>2. task' \in [Calls -> TaskStates]
  BY <1>1 DEF TaskStates, Unfinished
<1> QED
  BY <1>1, <1>2, WriterUntouched
  DEF BatchInv, BatchTypeOK, AddingInv, SkipInv, PhaseInv, RowsKept, SuccessIsDurable

LEMMA TaskExtractedInv ==
  ASSUME BatchInv, NEW c \in Calls, NEW s \in {"success", "error"},
         TaskExtracted(c, s)
  PROVE  BatchInv' /\ Keeps
<1> DEFINE r == RowOf(c, s)
<1>1. r \in Row /\ r.call = c /\ r.status = s
  BY RowFacts
<1>2. WriterTypeOK' /\ FlushInv' /\ Keeps /\ r \in buffer'
  BY <1>1, AddRowFacts DEF TaskExtracted, BatchInv
<1>3. Committed \subseteq Committed'
  BY <1>2, KeepsCommitted DEF Keeps
<1>4. /\ rpc = "gather" /\ task \in [Calls -> TaskStates] /\ task[c] = "running"
      /\ UNCHANGED <<stop, skip, input, malformed>>
  BY DEF TaskExtracted, BatchInv, BatchTypeOK
<1>5. CASE rpc' = "add" /\ adding' = {r} /\ UNCHANGED task
  BY <1>1, <1>2, <1>3, <1>4, <1>5
  DEF BatchInv, BatchTypeOK, AddingInv, SkipInv, PhaseInv, RowsKept, SuccessIsDurable, Keeps
<1>6. CASE fpc' = "none" /\ task' = [task EXCEPT ![c] = s] /\ UNCHANGED <<rpc, adding>>
  <2>1. task' \in [Calls -> TaskStates]
    BY <1>4, <1>6 DEF TaskStates
  <2>2. RowsKept'
    BY <1>2, <1>4, <1>6 DEF BatchInv, RowsKept, Keeps
  <2> QED
    BY <1>2, <1>3, <1>4, <1>6, <2>1, <2>2
    DEF BatchInv, BatchTypeOK, AddingInv, SkipInv, PhaseInv, SuccessIsDurable, Keeps
<1> QED
  BY <1>5, <1>6 DEF TaskExtracted, AddRow

LEMMA AddReturnInv ==
  ASSUME BatchInv, AddReturn
  PROVE  BatchInv' /\ Keeps
<1>1. WriterTypeOK' /\ FlushInv' /\ Keeps /\ fpc' = "none"
  BY FlushReturnFacts DEF AddReturn, BatchInv
<1>2. Committed \subseteq Committed'
  BY <1>1, KeepsCommitted DEF Keeps
<1>3. PICK r \in adding : task' = [task EXCEPT ![r.call] = r.status]
  BY DEF AddReturn
<1>4. /\ r \in Row /\ r \in buffer \cup Landed
      /\ r.call \in Calls /\ r.status \in {"success", "error"}
      /\ r = RowOf(r.call, r.status)
  BY RowFacts DEF BatchInv, BatchTypeOK, AddingInv
<1>5. /\ rpc = "add" /\ rpc' = "gather" /\ adding' = {}
      /\ UNCHANGED <<stop, skip, input, malformed>>
      /\ task \in [Calls -> TaskStates]
  BY DEF AddReturn, BatchInv, BatchTypeOK
<1>6. task' \in [Calls -> TaskStates]
  BY <1>3, <1>4, <1>5 DEF TaskStates
<1>7. RowsKept'
  BY <1>1, <1>3, <1>4, <1>5 DEF BatchInv, RowsKept, Keeps
<1> QED
  BY <1>1, <1>2, <1>3, <1>4, <1>5, <1>6, <1>7
  DEF BatchInv, BatchTypeOK, AddingInv, SkipInv, PhaseInv, SuccessIsDurable

LEMMA AddRaiseInv ==
  ASSUME BatchInv, AddRaise
  PROVE  BatchInv' /\ Keeps
<1>1. WriterTypeOK' /\ FlushInv' /\ Keeps /\ fpc' = "none"
  BY FlushRaiseFacts DEF AddRaise, BatchInv
<1>2. Committed \subseteq Committed'
  BY <1>1, KeepsCommitted DEF Keeps
<1>3. PICK r \in adding : task' = [task EXCEPT ![r.call] = "failed"]
  BY DEF AddRaise
<1>4. /\ r.call \in Calls
      /\ rpc = "add" /\ rpc' = "gather" /\ adding' = {}
      /\ UNCHANGED <<stop, skip, input, malformed>>
      /\ task \in [Calls -> TaskStates]
  BY RowFacts DEF AddRaise, BatchInv, BatchTypeOK
<1>5. task' \in [Calls -> TaskStates]
  BY <1>3, <1>4 DEF TaskStates
<1>6. RowsKept'
  BY <1>1, <1>3, <1>4 DEF BatchInv, RowsKept, Keeps
<1> QED
  BY <1>1, <1>2, <1>3, <1>4, <1>5, <1>6
  DEF BatchInv, BatchTypeOK, AddingInv, SkipInv, PhaseInv, SuccessIsDurable

LEMMA GatherEndInv ==
  ASSUME BatchInv, GatherEnd
  PROVE  BatchInv' /\ Keeps
<1>1. WriterTypeOK' /\ FlushInv' /\ Keeps
  BY CallFlushFacts DEF GatherEnd, BatchInv
<1>2. Committed \subseteq Committed'
  BY <1>1, KeepsCommitted DEF Keeps
<1> QED
  BY <1>1, <1>2
  DEF GatherEnd, BatchInv, BatchTypeOK, AddingInv, SkipInv, PhaseInv, RowsKept,
      SuccessIsDurable, Keeps

(* The last flush: nothing is unfinished, so without an error every task   *)
(* was skipped or its row is, the buffer being empty now, in the table.    *)
LEMMA RunReturnInv ==
  ASSUME BatchInv, RunReturn
  PROVE  BatchInv' /\ Keeps
<1>1. WriterTypeOK' /\ FlushInv' /\ Keeps /\ buffer' = {} /\ fpc' = "none"
  BY FlushReturnFacts DEF RunReturn, BatchInv
<1>2. Committed \subseteq Committed'
  BY <1>1, KeepsCommitted DEF Keeps
<1>3. /\ rpc = "flush" /\ rpc' = IF HasErrors THEN "failure" ELSE "success"
      /\ UNCHANGED <<stop, skip, task, adding, input, malformed>>
      /\ task \in [Calls -> TaskStates]
  BY DEF RunReturn, BatchInv, BatchTypeOK
<1>4. RowsKept'
  BY <1>1, <1>3 DEF BatchInv, RowsKept, Keeps
<1>5. SuccessIsDurable'
  <2> SUFFICES ASSUME ~HasErrors, NEW c \in Calls, task[c] # "none"
               PROVE  c \in Committed'
    BY <1>1, <1>3 DEF SuccessIsDurable, BatchInv, BatchTypeOK
  <2>1. task[c] \in {"skipped", "success"}
    BY <1>3 DEF HasErrors, BatchInv, PhaseInv, TaskStates
  <2>2. CASE task[c] = "skipped"
    BY <2>2, <1>2 DEF BatchInv, SkipInv
  <2>3. CASE task[c] = "success"
    <3>1. RowOf(c, "success") \in Landed'
      BY <2>3, <1>1, <1>3, <1>4 DEF RowsKept
    <3> QED
      BY <3>1 DEF Committed, Landed
  <2> QED
    BY <2>1, <2>2, <2>3
<1> QED
  BY <1>1, <1>2, <1>3, <1>4, <1>5
  DEF BatchInv, BatchTypeOK, AddingInv, SkipInv, PhaseInv, Keeps

LEMMA RunRaiseInv ==
  ASSUME BatchInv, RunRaise
  PROVE  BatchInv' /\ Keeps
<1>1. WriterTypeOK' /\ FlushInv' /\ Keeps /\ fpc' = "none"
  BY FlushRaiseFacts DEF RunRaise, BatchInv
<1>2. Committed \subseteq Committed'
  BY <1>1, KeepsCommitted DEF Keeps
<1> QED
  BY <1>1, <1>2
  DEF RunRaise, BatchInv, BatchTypeOK, AddingInv, SkipInv, PhaseInv, RowsKept,
      SuccessIsDurable, Keeps

LEMMA FlushingInv ==
  ASSUME BatchInv, Flushing
  PROVE  BatchInv' /\ Keeps
<1>1. WriterTypeOK' /\ FlushInv' /\ Keeps
  BY FlushStepFacts DEF Flushing, BatchInv
<1>2. fpc # "none" /\ UNCHANGED buffer
  BY DEF Flushing, FlushStep, Capture, OpenAppend, CommitAppend
<1> QED
  BY <1>1, <1>2, SamePhase DEF Flushing, batchVars, BatchInv, BatchTypeOK

LEMMA BatchSigtermInv ==
  ASSUME BatchInv, BatchSigterm
  PROVE  BatchInv' /\ Keeps
<1>1. WriterTypeOK' /\ FlushInv' /\ Keeps /\ (buffer = {} => buffer' = {}) /\ fpc' = fpc
  BY HandlerFlushFacts DEF BatchSigterm, BatchInv
<1>2. stop' \in BOOLEAN /\ (stop => stop')
  BY DEF BatchSigterm
<1> QED
  BY <1>1, <1>2, SamePhase DEF BatchSigterm

LEMMA BatchStepInv ==
  ASSUME BatchInv, BatchStep
  PROVE  BatchInv' /\ Keeps
BY QuerySkipSetInv, QueryRaiseInv, DispatchInv, DispatchEndInv, DispatchRaiseInv,
   TaskStartInv, TaskExtractedInv, AddReturnInv, AddRaiseInv, GatherEndInv,
   RunReturnInv, RunRaiseInv, FlushingInv
DEF BatchStep

LEMMA MainStartInv ==
  ASSUME BatchInv, NEW S \in SUBSET Calls, NEW b \in BOOLEAN,
         MainStart(S, b)
  PROVE  BatchInv' /\ Landed' = Landed
<1>1. WriterTypeOK' /\ FlushInv' /\ Landed' = Landed /\ buffer' = {} /\ fpc' = "none"
  BY WriterNewFacts DEF MainStart, BatchInv
<1>2. task' = NoTasks /\ skip' = {} /\ adding' = {} /\ rpc' = "scan"
      /\ input' = S /\ malformed' = b /\ UNCHANGED stop
  BY DEF MainStart
<1> QED
  BY <1>1, <1>2
  DEF NoTasks, TaskStates, BatchInv, BatchTypeOK, AddingInv, SkipInv, PhaseInv,
      RowsKept, SuccessIsDurable

(* The memory of a process that has just been started.                     *)
LEMMA BlankMemoryInv ==
  ASSUME BatchInv, WriterNew, rpc' = "off", stop' = FALSE, skip' = {}, task' = NoTasks,
         adding' = {}, input' = {}, malformed' = FALSE
  PROVE  BatchInv' /\ Landed' = Landed
<1>1. WriterTypeOK' /\ FlushInv' /\ Landed' = Landed /\ buffer' = {} /\ fpc' = "none"
  BY WriterNewFacts DEF BatchInv
<1> QED
  BY <1>1
  DEF NoTasks, TaskStates, BatchInv, BatchTypeOK, AddingInv, SkipInv, PhaseInv, RowsKept,
      SuccessIsDurable

LEMMA UntouchedInv ==
  ASSUME BatchInv, UNCHANGED <<writerVars, batchVars>>
  PROVE  BatchInv' /\ Landed' = Landed /\ Committed' = Committed
<1>1. /\ WriterTypeOK' /\ FlushInv' /\ Keeps
      /\ Landed' = Landed /\ Committed' = Committed
      /\ buffer' = buffer /\ fpc' = fpc
  BY WriterUntouched
<1>2. stop' \in BOOLEAN /\ (stop => stop')
  BY DEF batchVars, BatchInv, BatchTypeOK
<1> QED
  BY <1>1, <1>2, SamePhase DEF batchVars

LEMMA InitBatchInv ==
  ASSUME WriterInit, BatchInit
  PROVE  BatchInv
<1>1. WriterTypeOK /\ BatchTypeOK
  BY DEF WriterInit, BatchInit, NoTasks, TaskStates, WriterTypeOK, BatchTypeOK
<1>2. FlushInv /\ AddingInv /\ SkipInv /\ PhaseInv /\ RowsKept /\ SuccessIsDurable
  BY DEF WriterInit, BatchInit, NoTasks, FlushInv, AddingInv, SkipInv, PhaseInv, RowsKept,
         SuccessIsDurable
<1> QED
  BY <1>1, <1>2 DEF BatchInv

(* No step of a run touches its input.                                     *)
LEMMA BatchStepFrame ==
  BatchStep => UNCHANGED <<stop, input>>
BY DEF BatchStep, QuerySkipSet, QueryRaise, Dispatch, DispatchEnd, DispatchRaise,
       TaskStart, TaskExtracted, AddReturn, AddRaise, GatherEnd, RunReturn, RunRaise,
       Flushing, batchVars

-----------------------------------------------------------------------------
(* A run comes to its end.                                                 *)

(* The states a call passes in a run, from each on.                        *)
Stages == {{"none"}, {"none", "queued"}, {"none", "queued", "running"}}

LEMMA LeftShrinks ==
  ASSUME IsFiniteSet(Calls), NEW S, \A c \in Calls : task'[c] \in S => task[c] \in S
  PROVE  /\ Left(S) \in Nat /\ Left(S)' \in Nat /\ Left(S)' <= Left(S)
         /\ (\E c \in Calls : task[c] \in S /\ task'[c] \notin S) => Left(S)' < Left(S)
<1> DEFINE now == {c \in Calls : task[c] \in S}
           then == {c \in Calls : task'[c] \in S}
<1>1. IsFiniteSet(now) /\ then \in SUBSET now
  BY FS_Subset
<1>2. /\ IsFiniteSet(then) /\ Cardinality(then) <= Cardinality(now)
      /\ Cardinality(then) = Cardinality(now) => then = now
  BY <1>1, FS_Subset
<1>3. Cardinality(now) \in Nat /\ Cardinality(then) \in Nat
  BY <1>1, <1>2, FS_CardinalityType
<1>4. Left(S) = Cardinality(now) /\ Left(S)' = Cardinality(then)
  BY DEF Left
<1>5. (\E c \in Calls : task[c] \in S /\ task'[c] \notin S) => then # now
  OBVIOUS
<1> HIDE DEF now, then
<1> QED
  BY <1>2, <1>3, <1>4, <1>5

(* No step takes a call back to an earlier stage.                          *)
Forward == \A S \in Stages : \A c \in Calls : task'[c] \in S => task[c] \in S
Moves == \E S \in Stages : \E c \in Calls : task[c] \in S /\ task'[c] \notin S

LEMMA ToDoShrinks ==
  ASSUME IsFiniteSet(Calls), Forward
  PROVE  /\ ToDo \in Nat /\ ToDo' \in Nat /\ ToDo' <= ToDo
         /\ Moves => ToDo' < ToDo
<1> DEFINE A == Left({"none"})
           B == Left({"none", "queued"})
           C == Left({"none", "queued", "running"})
<1>1. \A S \in Stages :
        /\ Left(S) \in Nat /\ Left(S)' \in Nat /\ Left(S)' <= Left(S)
        /\ (\E c \in Calls : task[c] \in S /\ task'[c] \notin S) => Left(S)' < Left(S)
  BY LeftShrinks DEF Forward
<1>2. /\ A \in Nat /\ A' \in Nat /\ A' <= A
      /\ B \in Nat /\ B' \in Nat /\ B' <= B
      /\ C \in Nat /\ C' \in Nat /\ C' <= C
  BY <1>1 DEF Stages
<1>3. Moves => A' < A \/ B' < B \/ C' < C
  BY <1>1 DEF Moves, Stages
<1>4. ToDo = A + B + C /\ ToDo' = A' + B' + C'
  BY DEF ToDo
<1>5. ToDo \in Nat /\ ToDo' \in Nat /\ ToDo' <= ToDo
  BY <1>2, <1>4
<1>6. CASE Moves
  <2>1. A' < A \/ B' < B \/ C' < C
    BY <1>3, <1>6
  <2>2. ToDo' < ToDo
    BY <1>2, <1>4, <2>1
  <2> QED
    BY <1>5, <2>2
<1> QED
  BY <1>5, <1>6

LEMMA Lexicographic ==
  ASSUME NEW a \in Nat, NEW b \in Nat, b <= a,
         NEW p \in 0 .. 7, NEW q \in 0 .. 7, b < a \/ q < p
  PROVE  8 * b + q < 8 * a + p
OBVIOUS

LEMMA RankFalls ==
  ASSUME ToDo \in Nat, ToDo' \in Nat, ToDo' <= ToDo, ToDo' < ToDo \/ Phase' < Phase
  PROVE  Rank' < Rank
<1>1. Phase \in 0 .. 7 /\ Phase' \in 0 .. 7
  BY DEF Phase
<1>2. 8 * ToDo' + Phase' < 8 * ToDo + Phase
  BY <1>1, Lexicographic
<1> QED
  BY <1>2 DEF Rank

LEMMA RankShrinks ==
  ASSUME IsFiniteSet(Calls), Forward, Moves \/ Phase' < Phase
  PROVE  Rank' < Rank
<1>1. ToDo \in Nat /\ ToDo' \in Nat /\ ToDo' <= ToDo /\ (Moves => ToDo' < ToDo)
  BY ToDoShrinks
<1> QED
  BY <1>1, RankFalls, Zenon

(* Each step of a run takes a call on or goes on itself.                   *)
LEMMA RunNears ==
  ASSUME IsFiniteSet(Calls), BatchInv, BatchStep
  PROVE  Rank' < Rank
<1> SUFFICES Forward /\ (Moves \/ Phase' < Phase)
  BY RankShrinks
<1> task \in [Calls -> TaskStates]
  BY DEF BatchInv, BatchTypeOK
<1>1. CASE UNCHANGED task /\ Phase' < Phase
  BY <1>1 DEF Forward
<1>2. CASE QuerySkipSet \/ QueryRaise \/ DispatchEnd
  BY <1>1, <1>2 DEF QuerySkipSet, QueryRaise, DispatchEnd, Phase
<1>3. CASE \E c \in Calls : Dispatch(c)
  BY <1>3 DEF Dispatch, Forward, Moves, Stages
<1>4. CASE DispatchRaise
  <2>1. Phase' < Phase
    BY <1>4 DEF DispatchRaise, Phase
  <2>2. Forward
    BY <1>4 DEF DispatchRaise, Forward, Stages
  <2> QED
    BY <2>1, <2>2
<1>5. CASE \E c \in Calls : TaskStart(c)
  BY <1>5 DEF TaskStart, Forward, Moves, Stages
<1>6. CASE \E c \in Calls, s \in {"success", "error"} : TaskExtracted(c, s)
  <2>1. PICK c \in Calls, s \in {"success", "error"} : TaskExtracted(c, s)
    BY <1>6
  <2>2. CASE fpc' = "called" /\ rpc' = "add" /\ UNCHANGED task
    BY <1>1, <2>1, <2>2 DEF TaskExtracted, Phase
  <2>3. CASE task' = [task EXCEPT ![c] = s]
    BY <2>1, <2>3 DEF TaskExtracted, Forward, Moves, Stages
  <2> QED
    BY <2>1, <2>2, <2>3 DEF TaskExtracted
<1>7. CASE AddReturn \/ AddRaise
  <2>1. PICK r \in adding, s \in {"success", "error", "failed"} :
          task' = [task EXCEPT ![r.call] = s]
    <3>1. \A r \in adding : r.status \in {"success", "error"}
      BY RowFacts DEF BatchInv, BatchTypeOK
    <3> QED
      BY <1>7, <3>1 DEF AddReturn, AddRaise
  <2>2. r.call \in Calls /\ task[r.call] = "running"
    BY RowFacts DEF BatchInv, BatchTypeOK, AddingInv
  <2> QED
    BY <2>1, <2>2 DEF Forward, Moves, Stages
<1>8. CASE GatherEnd
  BY <1>1, <1>8 DEF GatherEnd, CallFlush, Phase
<1>9. CASE RunReturn \/ RunRaise
  <2>1. fpc \in {"called", "captured", "appending", "committed"}
    BY <1>9 DEF RunReturn, RunRaise, FlushReturn, FlushEmpty, ClearBuffer, FlushRaise
  <2> QED
    BY <1>1, <1>9, <2>1 DEF RunReturn, RunRaise, Phase
<1>10. CASE Flushing
  <2>1. UNCHANGED <<rpc, task>> /\ rpc \in {"add", "flush"}
    BY <1>10 DEF Flushing, batchVars
  <2>2. CASE fpc = "called" /\ fpc' = "captured"
    BY <1>1, <2>1, <2>2 DEF Phase
  <2>3. CASE fpc = "captured" /\ fpc' = "appending"
    BY <1>1, <2>1, <2>3 DEF Phase
  <2>4. CASE fpc = "appending" /\ fpc' = "committed"
    BY <1>1, <2>1, <2>4 DEF Phase
  <2> QED
    BY <1>10, <2>2, <2>3, <2>4 DEF Flushing, FlushStep, Capture, OpenAppend, CommitAppend
<1> QED
  BY <1>2, <1>3, <1>4, <1>5, <1>6, <1>7, <1>8, <1>9, <1>10 DEF BatchStep

LEMMA RankSame == UNCHANGED <<rpc, fpc, task>> => Rank' = Rank
BY DEF Rank, ToDo, Left, Phase

LEMMA Weighted == \A a, p \in Nat : 8 * a + p \in Nat
OBVIOUS

LEMMA RankType ==
  ASSUME IsFiniteSet(Calls)
  PROVE  Rank \in Nat /\ Rank' \in Nat
<1>1. \A f, S : Cardinality({c \in Calls : f[c] \in S}) \in Nat
  <2> TAKE f, S
  <2>1. IsFiniteSet({c \in Calls : f[c] \in S})
    BY FS_Subset
  <2> QED
    BY <2>1, FS_CardinalityType
<1>2. \A S : Left(S) \in Nat /\ Left(S)' \in Nat
  BY <1>1 DEF Left
<1>3. ToDo \in Nat /\ ToDo' \in Nat
  <2> DEFINE A == Left({"none"})
             B == Left({"none", "queued"})
             C == Left({"none", "queued", "running"})
  <2>1. A \in Nat /\ A' \in Nat /\ B \in Nat /\ B' \in Nat /\ C \in Nat /\ C' \in Nat
    BY <1>2
  <2>2. ToDo = A + B + C /\ ToDo' = A' + B' + C'
    BY DEF ToDo
  <2>3. A + B + C \in Nat /\ A' + B' + C' \in Nat
    BY <2>1
  <2> QED
    BY <2>2, <2>3
<1>4. Phase \in Nat /\ Phase' \in Nat
  BY DEF Phase
<1>5. 8 * ToDo + Phase \in Nat /\ 8 * ToDo' + Phase' \in Nat
  BY <1>3, <1>4, Weighted, Zenon
<1> QED
  BY <1>5 DEF Rank
=============================================================================
