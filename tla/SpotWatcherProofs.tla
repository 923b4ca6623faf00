--------------------------- MODULE SpotWatcherProofs ---------------------------
(***************************************************************************)
(* Proofs about SpotWatcher for every set of calls, every batch size and   *)
(* concurrency, and every number of instances.  What a run keeps is taken  *)
(* from ExtractBatchProofs.                                                *)
(***************************************************************************)
EXTENDS SpotWatcher, ExtractBatchProofs

-----------------------------------------------------------------------------
(* The run.                                                                *)

LEMMA FreshMemoryInv ==
  ASSUME BatchInv, FreshMemory
  PROVE  BatchInv' /\ Landed' = Landed
BY BlankMemoryInv DEF FreshMemory

LEMMA RunStepInv ==
  ASSUME BatchInv, RunStep
  PROVE  BatchInv' /\ Landed \subseteq Landed'
<1>1. CASE BatchStep
  BY <1>1, BatchStepInv DEF Keeps
<1>2. CASE NoSkipSet
  BY <1>2, WriterUntouched
  DEF NoSkipSet, BatchInv, BatchTypeOK, AddingInv, SkipInv, PhaseInv, RowsKept,
      SuccessIsDurable
<1>3. CASE OpenOutdated
  <2>1. WriterTypeOK' /\ FlushInv' /\ Keeps
    BY <1>3 DEF OpenOutdated, BatchInv, WriterTypeOK, FlushInv, Keeps, Landed
  <2>2. /\ UNCHANGED <<batchVars, buffer>> /\ fpc # "none"
        /\ stop' \in BOOLEAN /\ (stop => stop')
    BY <1>3 DEF OpenOutdated, batchVars, BatchInv, BatchTypeOK
  <2> QED
    BY <2>1, <2>2, SamePhase DEF batchVars, Keeps
<1> QED
  BY <1>1, <1>2, <1>3 DEF RunStep

(* The handler may leave all as it is but for the stop event.              *)
LEMMA HandlerInVain ==
  ASSUME BatchInv, stop' = TRUE,
         UNCHANGED <<rpc, skip, task, adding, input, malformed, writerVars>>
  PROVE  BatchInv' /\ Landed' = Landed
<1>1. stop' \in BOOLEAN /\ (stop => stop')
  OBVIOUS
<1> QED
  BY <1>1, WriterUntouched, SamePhase

(* A commit of somebody else to calls_extractions.                         *)
LEMMA TableMovesInv ==
  ASSUME BatchInv, CallsTableMoves, UNCHANGED <<buffer, fpc, rows, batchVars>>,
         table' \in [Row -> Nat], Landed \subseteq Landed'
  PROVE  BatchInv'
<1>1. table' \in [Row -> Nat] /\ Landed \subseteq Landed'
  OBVIOUS
<1>2. stale' \in BOOLEAN
  BY Zenon DEF CallsTableMoves
<1>3. UNCHANGED <<buffer, fpc, rows, batchVars>>
  OBVIOUS
<1>4. WriterTypeOK' /\ FlushInv' /\ Keeps
  BY <1>1, <1>2, <1>3 DEF BatchInv, WriterTypeOK, FlushInv, Keeps
<1>5. stop' \in BOOLEAN /\ (stop => stop')
  BY <1>3 DEF batchVars, BatchInv, BatchTypeOK
<1> QED
  BY <1>1, <1>3, <1>4, <1>5, SamePhase DEF batchVars

LEMMA ZombieLandsInv ==
  ASSUME BatchInv, ZombieLands
  PROVE  BatchInv' /\ Landed \subseteq Landed'
<1>1. table' \in [Row -> Nat] /\ Landed \subseteq Landed'
  BY LandFacts DEF ZombieLands, BatchInv, WriterTypeOK
<1> QED
  BY <1>1, TableMovesInv DEF ZombieLands

LEMMA OtherRunInv ==
  ASSUME BatchInv, OtherRun
  PROVE  BatchInv' /\ Landed \subseteq Landed'
<1>1. UNCHANGED table
  BY DEF OtherRun, writerVars
<1>2. table' \in [Row -> Nat] /\ Landed' = Landed
  BY <1>1 DEF BatchInv, WriterTypeOK, Landed
<1>3. CASE UNCHANGED <<writerVars, batchVars>>
  BY <1>2, <1>3, UntouchedInv
<1>4. CASE CallsTableMoves /\ UNCHANGED <<buffer, fpc, rows, batchVars>>
  BY <1>2, <1>4, TableMovesInv
<1> QED
  BY <1>3, <1>4 DEF OtherRun

LEMMA BatchNext ==
  ASSUME BatchInv, [Next]_vars
  PROVE  BatchInv' /\ Committed \subseteq Committed'
<1> SUFFICES BatchInv' /\ Landed \subseteq Landed'
  BY KeepsCommitted
<1>1. CASE UNCHANGED <<writerVars, batchVars>>
  BY <1>1, UntouchedInv
<1>2. CASE FreshMemory
  BY <1>2, FreshMemoryInv
<1>3. CASE CallRun
  BY <1>3, MainStartInv DEF CallRun
<1>4. CASE RunStep
  BY <1>4, RunStepInv
<1>5. CASE Terminate
  <2>1. CASE BatchSigterm
    BY <2>1, BatchSigtermInv DEF Keeps
  <2> QED
    BY <1>1, <1>2, <1>5, <2>1, HandlerInVain DEF Terminate, Die
<1>6. CASE ZombieLands \/ OtherRun
  BY <1>6, ZombieLandsInv, OtherRunInv
<1> QED
  BY <1>1, <1>2, <1>3, <1>4, <1>5, <1>6
  DEF Next, MainStep, WatcherStep, vars, WritePidfile, InstallHandler, StartExperiment,
      RunEnd, FinishScan, FinishOverwrite, WatcherSees, GraceEnd, Die, MarkScan,
      MarkOverwrite, Rerun, Notice, Reclaim, Finished, LateLands

-----------------------------------------------------------------------------
(* Types.                                                                  *)

(* The variables beside those of the run.                                  *)
SpotTypes ==
  /\ ppc \in {"none", "started", "append", "ready", "run", "finish", "write", "exited"}
  /\ resume \in BOOLEAN
  /\ final \in Statuses
  /\ pidfile \in {"none", "old", "current"}
  /\ loaded \in BOOLEAN
  /\ outdated \in BOOLEAN
  /\ zombie \in SUBSET Row
  /\ exp \in Statuses \cup {"none"}
  /\ fresh \in SUBSET {"run", "watcher"}
  /\ late \in Statuses \cup {"none"}
  /\ disturbed \in BOOLEAN
  /\ wpc \in {"poll", "term", "grace", "mark", "write", "exited", "gone"}
  /\ watched \in BOOLEAN
  /\ mark \in {"no", "done", "failed"}
  /\ noticed \in BOOLEAN
  /\ instance \in 1 .. MaxInstances

LEMMA MainStepTypes ==
  ASSUME SpotTypes, MainStep
  PROVE  SpotTypes'
<1> USE DEF SpotTypes, Statuses, procVars, expVars, watchVars
<1>1. CASE WritePidfile \/ InstallHandler \/ StartExperiment \/ RunEnd
             \/ FinishScan \/ FinishOverwrite
  <2>2. CASE RunEnd
    BY <2>2 DEF RunEnd, FinalStatus
  <2>3. CASE WritePidfile \/ InstallHandler \/ StartExperiment
    <3>1. CASE WritePidfile \/ InstallHandler
      <4>1. ppc' \in {"started", "ready", "append"} /\ pidfile' \in {pidfile, "current"}
        BY <3>1 DEF WritePidfile, InstallHandler
      <4>2. UNCHANGED <<resume, final, loaded, outdated, zombie, expVars, watchVars>>
        BY <3>1 DEF WritePidfile, InstallHandler
      <4> QED
        BY <4>1, <4>2
    <3>2. CASE StartExperiment
      <4>1. disturbed' \in BOOLEAN /\ exp' \in Statuses \cup {"none"} /\ final' \in Statuses
        BY <3>2 DEF StartExperiment, CommitStatus
      <4>2. fresh' \in SUBSET {"run", "watcher"} /\ late' \in Statuses \cup {"none"}
        BY <3>2 DEF StartExperiment, CommitStatus
      <4> QED
        BY <3>2, <4>1, <4>2 DEF StartExperiment
    <3> QED
      BY <2>3, <3>1, <3>2
  <2>4. CASE FinishScan \/ FinishOverwrite
    <3>1. disturbed' \in BOOLEAN /\ exp' \in Statuses \cup {"none"}
      BY <2>4 DEF FinishScan, FinishOverwrite, CommitStatus, StatusFails
    <3>2. fresh' \in SUBSET {"run", "watcher"} /\ late' \in Statuses \cup {"none"}
      BY <2>4 DEF FinishScan, FinishOverwrite, CommitStatus, StatusFails
    <3> QED
      BY <2>4, <3>1, <3>2 DEF FinishScan, FinishOverwrite
  <2> QED
    BY <1>1, <2>2, <2>3, <2>4
<1>2. CASE CallRun
  <2>1. /\ ppc' = "run"
        /\ UNCHANGED <<resume, final, loaded, outdated, pidfile, zombie, expVars, watchVars>>
    BY <1>2 DEF CallRun
  <2> QED
    BY <2>1
<1>3. CASE RunStep
  <2>1. loaded' \in BOOLEAN
    BY <1>3, Zenon DEF RunStep
  <2>2. /\ ppc = "run" /\ zombie' \in {zombie, {}}
        /\ UNCHANGED <<ppc, resume, final, outdated, pidfile, expVars, watchVars>>
    BY <1>3 DEF RunStep
  <2> QED
    BY <2>1, <2>2
<1> QED
  BY <1>1, <1>2, <1>3 DEF MainStep

LEMMA LateTypes ==
  ASSUME SpotTypes
  PROVE  LateStatus \subseteq Statuses \cup {"none"}
BY DEF LateStatus, SpotTypes, Statuses

LEMMA DieTypes ==
  ASSUME WriterTypeOK, SpotTypes, Die
  PROVE  /\ zombie' \in SUBSET Row /\ late' \in Statuses \cup {"none"}
         /\ fresh' \in SUBSET {"run", "watcher"}
         /\ ~loaded' /\ ~outdated' /\ loaded' \in BOOLEAN /\ outdated' \in BOOLEAN
         /\ UNCHANGED <<exp, disturbed>>
<1>1. zombie' \in SUBSET Row
  BY DEF Die, SpotTypes, WriterTypeOK
<1>2. late' \in Statuses \cup {"none"}
  BY LateTypes DEF Die
<1>3. loaded' = FALSE /\ outdated' = FALSE
  BY DEF Die, FreshMemory
<1> QED
  BY <1>1, <1>2, <1>3 DEF Die, SpotTypes

LEMMA WatcherStepTypes ==
  ASSUME WriterTypeOK, SpotTypes, WatcherStep
  PROVE  SpotTypes'
<1> USE DEF Statuses, procVars, expVars, watchVars
<1>1. CASE MarkScan \/ MarkOverwrite
  <2>1. disturbed' \in BOOLEAN /\ exp' \in Statuses \cup {"none"}
    BY <1>1 DEF MarkScan, MarkOverwrite, CommitStatus, StatusFails, SpotTypes
  <2>2. fresh' \in SUBSET {"run", "watcher"} /\ late' \in Statuses \cup {"none"}
    BY <1>1 DEF MarkScan, MarkOverwrite, CommitStatus, StatusFails, SpotTypes
  <2> QED
    BY <1>1, <2>1, <2>2 DEF MarkScan, MarkOverwrite, SpotTypes
<1>2. CASE Terminate
  <2>1. CASE Die /\ ppc' = "exited" /\ final' = "interrupted" /\ UNCHANGED resume
    BY <1>2, <2>1, DieTypes DEF Terminate, SpotTypes
  <2>2. CASE /\ zombie' \in {zombie, {}} /\ loaded' \in BOOLEAN
             /\ UNCHANGED <<ppc, resume, final, outdated, expVars>>
    BY <1>2, <2>2 DEF Terminate, SpotTypes
  <2>3. (loaded' = (loaded \/ buffer # {})) => loaded' \in BOOLEAN
    BY Zenon
  <2>4. loaded' = loaded => loaded' \in BOOLEAN
    BY DEF SpotTypes
  <2> QED
    BY <1>2, <2>1, <2>2, <2>3, <2>4 DEF Terminate
<1>3. CASE GraceEnd
  <2>1. CASE Die /\ ppc' = "exited" /\ final' = "interrupted" /\ UNCHANGED resume
    BY <1>3, <2>1, DieTypes DEF GraceEnd, SpotTypes
  <2>2. CASE UNCHANGED <<procVars, zombie, expVars>>
    BY <1>3, <2>2 DEF GraceEnd, SpotTypes
  <2> QED
    BY <1>3, <2>1, <2>2 DEF GraceEnd
<1>4. CASE WatcherSees
  <2>1. watched' \in BOOLEAN
    <3>1. watched \in BOOLEAN
      BY DEF SpotTypes
    <3> QED
      BY <1>4, <3>1, Zenon DEF WatcherSees
  <2> QED
    BY <1>4, <2>1 DEF WatcherSees, SpotTypes
<1> QED
  BY <1>1, <1>2, <1>3, <1>4 DEF WatcherStep

LEMMA TableMovesTypes ==
  ASSUME SpotTypes, CallsTableMoves
  PROVE  outdated' \in BOOLEAN /\ zombie' = {}
BY Zenon DEF CallsTableMoves

LEMMA OtherStepTypes ==
  ASSUME WriterTypeOK, SpotTypes, noticed => instance < MaxInstances,
         Rerun \/ Notice \/ Reclaim \/ Finished \/ ZombieLands \/ LateLands \/ OtherRun
  PROVE  SpotTypes'
<1> USE DEF Statuses, procVars, expVars, watchVars
<1>1. CASE Rerun
  <2>1. loaded' = FALSE /\ outdated' = FALSE
    BY <1>1 DEF Rerun, FreshMemory
  <2> QED
    BY <1>1, <2>1 DEF Rerun, SpotTypes
<1>2. CASE Notice \/ LateLands
  <2>1. disturbed' \in BOOLEAN
    BY <1>2 DEF Notice, LateLands, SpotTypes
  <2>2. exp' \in Statuses \cup {"none"} /\ late' \in Statuses \cup {"none"}
    BY <1>2 DEF Notice, LateLands, SpotTypes
  <2>3. noticed' \in BOOLEAN /\ fresh' \in SUBSET {"run", "watcher"}
    BY <1>2 DEF Notice, LateLands, SpotTypes
  <2>4. UNCHANGED <<procVars, pidfile, zombie, wpc, watched, mark, instance>>
    BY <1>2 DEF Notice, LateLands
  <2> QED
    BY <2>1, <2>2, <2>3, <2>4 DEF SpotTypes
<1>3. CASE Reclaim
  <2>1. instance' \in 1 .. MaxInstances
    BY <1>3, SpotAssumption DEF Reclaim, SpotTypes
  <2> QED
    BY <1>3, <2>1, DieTypes DEF Reclaim, SpotTypes
<1>4. CASE ZombieLands
  BY <1>4, TableMovesTypes DEF ZombieLands, SpotTypes
<1>5. CASE Finished
  BY <1>5, LateTypes DEF Finished, SpotTypes
<1>6. CASE OtherRun
  <2>1. /\ outdated' \in BOOLEAN /\ zombie' \in {zombie, {}}
        /\ fresh' \in {fresh, {}} /\ late' \in {late, "none"}
    BY <1>6, TableMovesTypes DEF OtherRun, SpotTypes
  <2> QED
    BY <1>6, <2>1 DEF OtherRun, SpotTypes
<1> QED
  BY <1>1, <1>2, <1>3, <1>4, <1>5, <1>6

-----------------------------------------------------------------------------
(* The watcher and its mark.                                               *)

LEMMA WatchNext ==
  ASSUME SpotTypes, WatchInv, [Next]_vars
  PROVE  WatchInv'
<1> USE DEF WatchInv, InterruptedSticks, procVars, expVars, watchVars
<1>1. CASE UNCHANGED vars
  BY <1>1 DEF vars
<1>2. CASE MainStep
  <2>1. UNCHANGED watchVars /\ ppc # "exited" /\ ppc' # "none"
    BY <1>2
    DEF MainStep, WritePidfile, InstallHandler, StartExperiment, CallRun, RunStep,
        RunEnd, FinishScan, FinishOverwrite
  <2>2. watched' => mark' # "done" /\ wpc' \notin {"mark", "write", "gone"}
    BY <2>1
  <2> QED
    BY <2>1, <2>2
<1>3. CASE WatcherSees \/ GraceEnd \/ MarkScan \/ MarkOverwrite
  <2>1. CASE WatcherSees
    BY <2>1 DEF WatcherSees
  <2>2. CASE GraceEnd
    <3>1. watched => ppc' = "exited"
      BY <2>2 DEF GraceEnd, Reached, Alive, SpotTypes
    <3>2. /\ wpc' = "mark" /\ wpc = "grace"
          /\ UNCHANGED <<watched, mark, noticed, instance, pidfile>>
          /\ ppc' \in {ppc, "exited"}
      BY <2>2 DEF GraceEnd
    <3> QED
      BY <3>1, <3>2
  <2>3. CASE MarkScan
    BY <2>3 DEF MarkScan, StatusFails
  <2>4. CASE MarkOverwrite
    BY <2>4 DEF MarkOverwrite, CommitStatus, StatusFails
  <2> QED
    BY <1>3, <2>1, <2>2, <2>3, <2>4
<1>4. CASE Terminate
  <2>1. /\ wpc = "term" /\ wpc' = "grace"
        /\ UNCHANGED <<watched, mark, noticed, instance, pidfile>>
        /\ ppc' \in {ppc, "exited"}
    BY <1>4 DEF Terminate
  <2> QED
    BY <2>1
<1>5. CASE Rerun
  BY <1>5 DEF Rerun
<1>6. CASE Notice
  BY <1>6 DEF Notice
<1>7. CASE Reclaim
  BY <1>7 DEF Reclaim
<1>8. CASE ZombieLands
  BY <1>8 DEF ZombieLands
<1>9. CASE LateLands
  BY <1>9 DEF LateLands
<1>10. CASE OtherRun
  <2>1. late' \in {late, "none"} /\ UNCHANGED <<exp, ppc, pidfile, watchVars>>
    BY <1>10 DEF OtherRun
  <2> QED
    BY <2>1
<1>11. CASE Finished
  BY <1>11 DEF Finished, LateStatus
<1> QED
  BY <1>1, <1>2, <1>3, <1>4, <1>5, <1>6, <1>7, <1>8, <1>9, <1>10, <1>11
  DEF Next, WatcherStep

LEMMA SpotTypesNext ==
  ASSUME BatchInv, SpotTypes, WatchInv, [Next]_vars
  PROVE  SpotTypes'
<1>1. CASE UNCHANGED vars
  BY <1>1 DEF vars, procVars, expVars, watchVars, SpotTypes
<1>2. CASE Next
  BY <1>2, MainStepTypes, WatcherStepTypes, OtherStepTypes DEF Next, WatchInv, BatchInv
<1> QED
  BY <1>1, <1>2

Base == BatchInv /\ SpotTypes /\ WatchInv

LEMMA InitBase == Init => Base
<1> SUFFICES ASSUME Init PROVE Base
  OBVIOUS
<1>1. BatchInv
  BY InitBatchInv DEF Init
<1>2. SpotTypes
  <2>1. instance \in 1 .. MaxInstances
    BY SpotAssumption DEF Init
  <2>2. /\ resume \in BOOLEAN /\ loaded \in BOOLEAN /\ outdated \in BOOLEAN
        /\ disturbed \in BOOLEAN /\ watched \in BOOLEAN /\ noticed \in BOOLEAN
    BY DEF Init
  <2>3. /\ ppc = "none" /\ pidfile = "none" /\ final = "running" /\ zombie = {} /\ exp = "none"
        /\ fresh = {} /\ late = "none" /\ wpc = "poll" /\ mark = "no"
    BY DEF Init
  <2> QED
    BY <2>1, <2>2, <2>3 DEF SpotTypes, Statuses
<1>3. WatchInv
  <2>1. ~noticed /\ wpc = "poll" /\ mark = "no" /\ pidfile = "none"
    BY DEF Init
  <2> QED
    BY <2>1 DEF WatchInv, InterruptedSticks
<1> QED
  BY <1>1, <1>2, <1>3 DEF Base

LEMMA BaseHolds == Spec => []Base
<1>1. Base /\ [Next]_vars => Base'
  BY BatchNext, SpotTypesNext, WatchNext DEF Base
<1> QED
  BY <1>1, InitBase, PTL DEF Spec

(* The types of SpotWatcher's variables; there is no instance beyond the   *)
(* last, since only an announced interruption takes one away.              *)
THEOREM SpotTypeCorrect == Spec => []TypeOK
<1>1. Base => TypeOK
  BY DEF Base, BatchInv, SpotTypes, TypeOK
<1> QED
  BY <1>1, BaseHolds, PTL

(* However the notice, the signals and the end of the run fall together,   *)
(* the watcher's mark stays until another process is started: the one      *)
(* whose pid it read is dead by then, and no status of it is under way.    *)
THEOREM MarkSticks == Spec => []InterruptedSticks
<1>1. Base => InterruptedSticks
  BY DEF Base, WatchInv
<1> QED
  BY <1>1, BaseHolds, PTL

-----------------------------------------------------------------------------
(* The memory of the run.                                                  *)

LEMMA MemoryQuiet ==
  ASSUME MemoryInv, UNCHANGED <<writerVars, batchVars, resume, loaded, outdated>>,
         ppc' \in {"none", "started", "append", "ready"}
           => ppc \in {"none", "started", "append", "ready"}
  PROVE  MemoryInv'
BY DEF MemoryInv, writerVars, batchVars, NoTasks

LEMMA MemoryFresh ==
  ASSUME FreshMemory
  PROVE  MemoryInv'
BY DEF MemoryInv, FreshMemory, WriterNew, NoTasks

(* A step of the run in its first phases leaves the writer alone; one of   *)
(* the later phases stays there.                                           *)
LEMMA MemoryRunStep ==
  ASSUME BatchInv, MemoryInv, RunStep
  PROVE  /\ MemoryInv'
         /\ rpc' \in {"off", "scan", "dispatch"} =>
              rpc \in {"scan", "dispatch"} /\ UNCHANGED table
<1>1. /\ ppc = "run" /\ ppc' = "run" /\ outdated' = outdated /\ resume' = resume
      /\ loaded' <=> loaded \/ (resume /\ rpc' = "dispatch") \/ fpc' = "appending"
  BY DEF RunStep
<1> USE <1>1 DEF MemoryInv
<1>2. CASE NoSkipSet /\ ~resume
  BY <1>2 DEF NoSkipSet, writerVars, NoTasks
<1>3. CASE OpenOutdated
  BY <1>3 DEF OpenOutdated, batchVars, BatchInv, PhaseInv, NoTasks
<1>4. CASE QuerySkipSet \/ QueryRaise \/ DispatchEnd \/ DispatchRaise
             \/ \E c \in Calls : Dispatch(c) \/ TaskStart(c)
  BY <1>4
  DEF QuerySkipSet, QueryRaise, DispatchEnd, DispatchRaise, Dispatch, TaskStart, writerVars
<1>5. CASE \E c \in Calls, s \in {"success", "error"} : TaskExtracted(c, s)
  BY <1>5 DEF TaskExtracted, AddRow
<1>6. CASE AddReturn \/ AddRaise \/ RunReturn \/ RunRaise
  BY <1>6
  DEF AddReturn, AddRaise, RunReturn, RunRaise, FlushReturn, FlushEmpty, ClearBuffer, FlushRaise
<1>7. CASE GatherEnd
  BY <1>7 DEF GatherEnd, CallFlush
<1>8. CASE Flushing /\ ~(outdated /\ fpc = "captured")
  BY <1>8 DEF Flushing, FlushStep, Capture, OpenAppend, CommitAppend, batchVars
<1> QED
  BY <1>2, <1>3, <1>4, <1>5, <1>6, <1>7, <1>8 DEF RunStep, BatchStep

LEMMA MemorySigterm ==
  ASSUME MemoryInv, BatchSigterm, ppc' = ppc, resume' = resume, outdated' = outdated,
         loaded' <=> loaded \/ buffer # {}
  PROVE  /\ MemoryInv'
         /\ buffer = {} => UNCHANGED table
BY DEF MemoryInv, BatchSigterm, HandlerFlush, writerVars, NoTasks

(* A commit of somebody else outdates the table that was loaded.           *)
LEMMA MemoryTableMoves ==
  ASSUME MemoryInv, CallsTableMoves,
         UNCHANGED <<buffer, fpc, rows, batchVars, ppc, resume, loaded>>
  PROVE  MemoryInv'
<1>1. (outdated' <=> outdated \/ loaded) /\ (stale' <=> stale \/ fpc = "appending")
  BY DEF CallsTableMoves
<1> QED
  BY <1>1 DEF MemoryInv, batchVars, NoTasks

LEMMA MemoryNext ==
  ASSUME BatchInv, MemoryInv, [Next]_vars
  PROVE  MemoryInv'
<1> USE DEF procVars, expVars, watchVars
<1>1. CASE UNCHANGED vars
  BY <1>1, MemoryQuiet DEF vars
<1>2. CASE CallRun
  BY <1>2 DEF CallRun, MainStart, WriterNew, MemoryInv, NoTasks
<1>3. CASE RunStep
  BY <1>3, MemoryRunStep
<1>4. CASE WritePidfile \/ InstallHandler \/ StartExperiment \/ RunEnd
             \/ FinishScan \/ FinishOverwrite
  BY <1>4, MemoryQuiet
  DEF WritePidfile, InstallHandler, StartExperiment, RunEnd, FinishScan, FinishOverwrite
<1>5. CASE WatcherSees \/ MarkScan \/ MarkOverwrite \/ Notice \/ Finished \/ LateLands
  BY <1>5, MemoryQuiet
  DEF WatcherSees, MarkScan, MarkOverwrite, Notice, Finished, LateLands
<1>6. CASE Rerun \/ Reclaim
  BY <1>6, MemoryFresh DEF Rerun, Reclaim, Die
<1>7. CASE GraceEnd
  BY <1>7, MemoryFresh, MemoryQuiet DEF GraceEnd, Die
<1>8. CASE Terminate
  <2>1. CASE Die
    BY <2>1, MemoryFresh DEF Die
  <2>2. CASE /\ BatchSigterm /\ loaded' = (loaded \/ buffer # {})
             /\ UNCHANGED <<ppc, resume, outdated>>
    BY <2>2, MemorySigterm
  <2>3. CASE /\ UNCHANGED <<rpc, skip, task, adding, input, malformed, writerVars>>
             /\ UNCHANGED procVars
    BY <2>3 DEF MemoryInv, writerVars, NoTasks
  <2> QED
    BY <1>8, <2>1, <2>2, <2>3 DEF Terminate, batchVars
<1>9. CASE ZombieLands \/ OtherRun
  <2>1. CASE /\ CallsTableMoves
             /\ UNCHANGED <<buffer, fpc, rows, batchVars, ppc, resume, loaded>>
    BY <2>1, MemoryTableMoves
  <2>2. CASE UNCHANGED <<writerVars, batchVars, ppc, resume, loaded, outdated>>
    BY <2>2, MemoryQuiet
  <2> QED
    BY <1>9, <2>1, <2>2 DEF ZombieLands, OtherRun
<1> QED
  BY <1>1, <1>2, <1>3, <1>4, <1>5, <1>6, <1>7, <1>8, <1>9 DEF Next, MainStep, WatcherStep

-----------------------------------------------------------------------------
-----------------------------------------------------------------------------
(* No call is committed twice.                                             *)

LEMMA CommittedSame == UNCHANGED table => Committed' = Committed
BY DEF Committed

LEMMA CommittedGrows ==
  ASSUME NEW S, Land(S), NEW c \in Calls, c \in Committed', c \notin Committed
  PROVE  \E r \in S : r.call = c
<1>1. RowOf(c, "success") \in Row /\ RowOf(c, "success").call = c
  BY RowFacts
<1>2. table'[RowOf(c, "success")] # table[RowOf(c, "success")]
  BY DEF Committed
<1> QED
  BY <1>1, <1>2 DEF Land

LEMMA FirstQuiet ==
  ASSUME FirstInv, UNCHANGED table, zombie' \in {zombie, {}},
         rpc' \in {"off", "scan", "dispatch"} => rpc \in {"off", "scan", "dispatch"},
         ~resume' /\ ppc' # "exited" => ~resume /\ ppc # "exited"
  PROVE  FirstInv'
BY CommittedSame DEF FirstInv

LEMMA FirstNext ==
  ASSUME BatchInv, MemoryInv, FirstInv, [Next]_vars
  PROVE  FirstInv'
<1> USE DEF procVars, expVars, watchVars, writerVars, batchVars
<1>1. CASE UNCHANGED vars
  BY <1>1, FirstQuiet DEF vars
<1>2. CASE CallRun
  BY <1>2, FirstQuiet DEF CallRun, MainStart, WriterNew
<1>3. CASE RunStep
  <2>1. rpc' \in {"off", "scan", "dispatch"} => rpc \in {"scan", "dispatch"} /\ UNCHANGED table
    BY <1>3, MemoryRunStep
  <2>2. ppc = "run" /\ UNCHANGED <<ppc, resume>> /\ zombie' \in {zombie, {}}
    BY <1>3 DEF RunStep
  <2> QED
    BY <2>1, <2>2, CommittedSame DEF FirstInv
<1>4. CASE WritePidfile \/ InstallHandler \/ StartExperiment \/ RunEnd
             \/ FinishScan \/ FinishOverwrite
  BY <1>4, FirstQuiet
  DEF WritePidfile, InstallHandler, StartExperiment, RunEnd, FinishScan, FinishOverwrite
<1>5. CASE WatcherSees \/ MarkScan \/ MarkOverwrite \/ Notice \/ Finished \/ LateLands
             \/ OtherRun
  BY <1>5, FirstQuiet
  DEF WatcherSees, MarkScan, MarkOverwrite, Notice, Finished, LateLands, OtherRun,
      CallsTableMoves
<1>6. CASE Rerun \/ Reclaim
  BY <1>6 DEF Rerun, Reclaim, FirstInv
<1>7. CASE GraceEnd
  BY <1>7, FirstQuiet DEF GraceEnd, FirstInv
<1>8. CASE Terminate
  <2>1. CASE ppc' = "exited"
    BY <2>1 DEF FirstInv
  <2>2. CASE BatchSigterm /\ zombie' \in {zombie, {}} /\ UNCHANGED <<ppc, resume>>
    <3>0. buffer = {} => UNCHANGED table
      BY <2>2 DEF BatchSigterm, HandlerFlush, writerVars
    <3>1. rpc \in {"off", "scan", "dispatch"} => UNCHANGED table
      BY <3>0 DEF MemoryInv, BatchInv, PhaseInv
    <3>2. rpc' = rpc
      BY <2>2 DEF BatchSigterm
    <3> QED
      BY <2>2, <3>1, <3>2, CommittedSame DEF FirstInv
  <2>3. CASE UNCHANGED <<procVars, zombie, rpc, table>>
    BY <2>3, FirstQuiet
  <2> QED
    BY <1>8, <2>1, <2>2, <2>3 DEF Terminate
<1>9. CASE ZombieLands
  BY <1>9 DEF ZombieLands, FirstInv
<1> QED
  BY <1>1, <1>2, <1>3, <1>4, <1>5, <1>6, <1>7, <1>8, <1>9 DEF Next, MainStep, WatcherStep

(* The steps of the run, one phase after the other.                        *)
Fresh == BatchInv /\ MemoryInv /\ StillToCommit

LEMMA FreshDispatch ==
  ASSUME Fresh, NEW c \in Calls, Dispatch(c)
  PROVE  StillToCommit'
<1>1. /\ rpc = "dispatch" /\ UNCHANGED <<rpc, skip, adding, input, writerVars>>
      /\ buffer = {} /\ c \in input /\ task \in [Calls -> TaskStates]
      /\ task' = [task EXCEPT ![c] = IF c \in skip THEN "skipped" ELSE "queued"]
  BY DEF Dispatch, Fresh, BatchInv, PhaseInv, BatchTypeOK
<1>2. Committed' = Committed /\ Committed \cap input \subseteq skip
  BY <1>1, CommittedSame DEF writerVars, Fresh, StillToCommit
<1>3. ASSUME NEW d \in Calls, task'[d] \in Unfinished, \A r \in adding : r.call # d
      PROVE  d \notin Committed
  BY <1>1, <1>2, <1>3 DEF Fresh, StillToCommit, Unfinished
<1> QED
  BY <1>1, <1>2, <1>3 DEF Fresh, StillToCommit, writerVars

LEMMA FreshExtracted ==
  ASSUME Fresh, NEW c \in Calls, NEW s \in {"success", "error"}, TaskExtracted(c, s)
  PROVE  StillToCommit'
<1> DEFINE r == RowOf(c, s)
<1>1. /\ rpc = "gather" /\ task[c] = "running" /\ adding = {} /\ fpc = "none"
      /\ task \in [Calls -> TaskStates]
      /\ buffer' = buffer \cup {r} /\ UNCHANGED <<table, rows>>
      /\ fpc' \in {"called", "none"}
  BY DEF TaskExtracted, AddRow, Fresh, BatchInv, AddingInv, PhaseInv, BatchTypeOK
<1>2. r.call = c /\ Committed' = Committed
  BY <1>1, RowFacts, CommittedSame
<1>3. c \notin Committed
  BY <1>1 DEF Fresh, StillToCommit, Unfinished
<1>4. \A q \in buffer' : q.call \notin Committed'
  BY <1>1, <1>2, <1>3 DEF Fresh, StillToCommit
<1>5. ASSUME NEW d \in Calls \ {c}, task[d] \in Unfinished
      PROVE  d \notin Committed' /\ \A q \in buffer' : q.call # d
  BY <1>1, <1>2, <1>5 DEF Fresh, StillToCommit
<1>6. CASE fpc' = "called" /\ rpc' = "add" /\ adding' = {r} /\ UNCHANGED task
  BY <1>2, <1>4, <1>5, <1>6 DEF StillToCommit
<1>7. CASE fpc' = "none" /\ task' = [task EXCEPT ![c] = s] /\ UNCHANGED <<rpc, adding>>
  <2>1. task'[c] \notin Unfinished /\ \A d \in Calls \ {c} : task'[d] = task[d]
    BY <1>1, <1>7 DEF Unfinished
  <2> QED
    BY <1>1, <1>4, <1>5, <1>7, <2>1 DEF StillToCommit
<1> QED
  BY <1>1, <1>6, <1>7 DEF TaskExtracted

LEMMA FreshFlushed ==
  ASSUME Fresh, "lostack" \notin Faults, FlushReturn \/ FlushRaise
  PROVE  /\ fpc' = "none" /\ Committed' = Committed /\ buffer' \subseteq buffer
         /\ \A r \in buffer' : r.call \notin Committed'
<1>1. UNCHANGED table /\ fpc' = "none"
  BY DEF FlushReturn, FlushEmpty, ClearBuffer, FlushRaise
<1>2. buffer' \in {buffer, {}} /\ (fpc = "committed" => buffer' = {})
  BY DEF FlushReturn, FlushEmpty, ClearBuffer, FlushRaise
<1> QED
  BY <1>1, <1>2, CommittedSame DEF Fresh, StillToCommit

LEMMA FreshAdded ==
  ASSUME Fresh, "lostack" \notin Faults, AddReturn \/ AddRaise
  PROVE  StillToCommit'
<1>1. /\ fpc' = "none" /\ Committed' = Committed /\ buffer' \subseteq buffer
      /\ \A r \in buffer' : r.call \notin Committed'
  BY FreshFlushed DEF AddReturn, AddRaise
<1>2. PICK r \in adding, s \in {"success", "error", "failed"} :
        task' = [task EXCEPT ![r.call] = s]
  <2>1. \A r \in adding : r.status \in {"success", "error"}
    BY RowFacts DEF Fresh, BatchInv, BatchTypeOK
  <2> QED
    BY <2>1 DEF AddReturn, AddRaise
<1>3. rpc' = "gather" /\ task \in [Calls -> TaskStates] /\ \A q \in adding : q = r
  BY DEF AddReturn, AddRaise, Fresh, BatchInv, AddingInv, BatchTypeOK
<1>4. ASSUME NEW c \in Calls, task'[c] \in Unfinished
      PROVE  c \notin Committed' /\ \A q \in buffer' : q.call # c
  <2>1. c # r.call /\ task[c] \in Unfinished
    BY <1>2, <1>3, <1>4 DEF Unfinished
  <2> QED
    BY <1>1, <1>3, <2>1 DEF Fresh, StillToCommit
<1> QED
  BY <1>1, <1>3, <1>4 DEF StillToCommit

LEMMA FreshFlushing ==
  ASSUME Fresh, Flushing
  PROVE  StillToCommit'
<1>1. UNCHANGED <<rpc, task, adding>> /\ rpc \in {"add", "flush"}
  BY DEF Flushing, batchVars
<1>2. CASE Capture \/ OpenAppend
  BY <1>1, <1>2, CommittedSame DEF Capture, OpenAppend, Fresh, StillToCommit
<1>3. CASE CommitAppend
  <2>1. /\ fpc = "appending" /\ fpc' = "committed" /\ Land(buffer) /\ buffer' = buffer
    BY <1>3 DEF CommitAppend, Fresh, StillToCommit
  <2>2. ASSUME NEW c \in Calls, task[c] \in Unfinished, \A r \in adding : r.call # c
        PROVE  c \notin Committed' /\ \A r \in buffer : r.call # c
    BY <2>1, <2>2, CommittedGrows DEF Fresh, StillToCommit
  <2> QED
    BY <1>1, <2>1, <2>2 DEF StillToCommit
<1> QED
  BY <1>2, <1>3 DEF Flushing, FlushStep

LEMMA FreshBatchStep ==
  ASSUME Fresh, "lostack" \notin Faults, "scan" \notin Faults, BatchStep
  PROVE  StillToCommit'
<1> task \in [Calls -> TaskStates]
  BY DEF Fresh, BatchInv, BatchTypeOK
<1>1. CASE QuerySkipSet
  BY <1>1, CommittedSame
  DEF QuerySkipSet, Fresh, MemoryInv, StillToCommit, writerVars, NoTasks, Unfinished, Committed
<1>2. CASE QueryRaise \/ DispatchEnd \/ GatherEnd
  BY <1>2, CommittedSame
  DEF QueryRaise, DispatchEnd, GatherEnd, CallFlush, Fresh, StillToCommit, writerVars
<1>3. CASE DispatchRaise \/ \E c \in Calls : TaskStart(c)
  <2>1. \A c \in Calls : task'[c] \in Unfinished => task[c] \in Unfinished
    BY <1>3 DEF DispatchRaise, TaskStart, Unfinished
  <2> QED
    BY <1>3, <2>1, CommittedSame DEF DispatchRaise, TaskStart, Fresh, StillToCommit, writerVars
<1>4. CASE RunReturn \/ RunRaise
  <2>1. /\ fpc' = "none" /\ Committed' = Committed /\ buffer' \subseteq buffer
        /\ \A r \in buffer' : r.call \notin Committed'
    BY <1>4, FreshFlushed DEF RunReturn, RunRaise
  <2> QED
    BY <1>4, <2>1 DEF RunReturn, RunRaise, Fresh, StillToCommit
<1> QED
  BY <1>1, <1>2, <1>3, <1>4, FreshDispatch, FreshExtracted, FreshAdded, FreshFlushing
  DEF BatchStep

LEMMA FreshNext ==
  ASSUME BatchInv, MemoryInv, FirstInv, FreshInv, [Next]_vars,
         "lostack" \notin Faults, "scan" \notin Faults
  PROVE  FreshInv'
<1> SUFFICES ASSUME ppc' = "run", ~stop', ~outdated'
             PROVE  StillToCommit'
  BY DEF FreshInv
<1> USE DEF procVars, expVars, watchVars
<1>1. CASE ppc = "run" /\ ~stop /\ ~outdated /\ UNCHANGED <<writerVars, batchVars>>
  BY <1>1, CommittedSame DEF FreshInv, StillToCommit, writerVars, batchVars
<1>2. CASE CallRun
  <2>1. /\ rpc' = "scan" /\ buffer' = {} /\ fpc' = "none"
        /\ \A c \in Calls : task'[c] = "none"
    BY <1>2 DEF CallRun, MainStart, WriterNew, NoTasks
  <2> QED
    BY <2>1 DEF StillToCommit, Unfinished
<1>3. CASE RunStep
  <2>1. ppc = "run" /\ ~outdated
    BY <1>3 DEF RunStep
  <2>2. CASE BatchStep
    <3>1. stop' = stop
      BY <2>2, BatchStepFrame
    <3> QED
      BY <2>1, <2>2, <3>1, FreshBatchStep DEF Fresh, FreshInv
  <2>3. CASE NoSkipSet /\ ~resume
    <3>1. Committed = {} /\ buffer = {} /\ fpc = "none" /\ task = NoTasks
      BY <2>1, <2>3 DEF NoSkipSet, FirstInv, MemoryInv, BatchInv, PhaseInv
    <3> QED
      BY <2>3, <3>1, CommittedSame
      DEF NoSkipSet, StillToCommit, NoTasks, Unfinished, writerVars
  <2> QED
    BY <1>3, <2>1, <2>2, <2>3 DEF RunStep, OpenOutdated
<1>4. CASE WritePidfile \/ InstallHandler \/ StartExperiment \/ RunEnd
             \/ FinishScan \/ FinishOverwrite
  BY <1>4
  DEF WritePidfile, InstallHandler, StartExperiment, RunEnd, FinishScan, FinishOverwrite
<1>5. CASE WatcherSees \/ MarkScan \/ MarkOverwrite \/ Notice \/ Finished \/ LateLands
  BY <1>1, <1>5
  DEF WatcherSees, MarkScan, MarkOverwrite, Notice, Finished, LateLands, batchVars
<1>6. CASE Rerun \/ Reclaim
  BY <1>6 DEF Rerun, Reclaim
<1>7. CASE GraceEnd \/ Terminate
  BY <1>1, <1>7 DEF GraceEnd, Terminate, Reached, Alive, BatchSigterm, batchVars
<1>8. CASE ZombieLands
  <2>1. /\ resume /\ ~loaded
        /\ UNCHANGED <<buffer, fpc, rows, batchVars>>
    BY <1>8 DEF ZombieLands, CallsTableMoves, FirstInv
  <2>2. /\ rpc' \in {"off", "scan", "failure"} /\ buffer' = {} /\ fpc' = "none"
        /\ \A c \in Calls : task'[c] = "none"
    BY <2>1 DEF MemoryInv, BatchInv, PhaseInv, NoTasks, batchVars
  <2> QED
    BY <2>2 DEF StillToCommit, Unfinished
<1>10. CASE OtherRun
  <2>1. /\ outdated' = outdated \/ outdated' = (outdated \/ loaded)
        /\ UNCHANGED <<ppc, buffer, table, fpc, rows, batchVars>>
    BY <1>10 DEF OtherRun, CallsTableMoves, writerVars
  <2>2. ~outdated
    BY <2>1, Zenon
  <2> QED
    BY <2>1, <2>2, CommittedSame DEF FreshInv, StillToCommit, batchVars
<1>9. CASE UNCHANGED vars
  BY <1>1, <1>9 DEF vars, batchVars
<1> QED
  BY <1>2, <1>3, <1>4, <1>5, <1>6, <1>7, <1>8, <1>9, <1>10 DEF Next, MainStep, WatcherStep

LEMMA InitMemory == Init => MemoryInv /\ FirstInv /\ FreshInv
<1> SUFFICES ASSUME Init PROVE MemoryInv /\ FirstInv /\ FreshInv
  OBVIOUS
<1>1. Committed = {}
  BY RowFacts DEF Init, WriterInit, Committed
<1> QED
  BY <1>1 DEF Init, WriterInit, BatchInit, MemoryInv, FirstInv, FreshInv

(* The rows that a run commits are those it has still to commit.           *)
LEMMA CommitsFresh ==
  ASSUME BatchInv, MemoryInv, FreshInv, [Next]_vars,
         fpc = "appending", fpc' = "committed", ~stop
  PROVE  \A r \in rows : r.call \notin Committed
<1> USE DEF procVars, expVars, watchVars
<1>1. RunStep /\ BatchStep
  BY DEF Next, MainStep, WatcherStep, vars, writerVars, WritePidfile, InstallHandler,
         StartExperiment, CallRun, MainStart, WriterNew, RunStep, NoSkipSet,
         OpenOutdated, RunEnd, FinishScan, FinishOverwrite, WatcherSees, Terminate,
         BatchSigterm, HandlerFlush, Die, FreshMemory, GraceEnd, MarkScan,
         MarkOverwrite, Rerun, Notice, Reclaim, Finished, ZombieLands, LateLands, OtherRun
<1>2. ~stale
  BY <1>1
  DEF BatchStep, QuerySkipSet, QueryRaise, Dispatch, DispatchEnd, DispatchRaise,
      TaskStart, TaskExtracted, AddRow, AddReturn, AddRaise, GatherEnd, CallFlush,
      RunReturn, RunRaise, FlushReturn, FlushEmpty, ClearBuffer, FlushRaise,
      Flushing, FlushStep, Capture, OpenAppend, CommitAppend, writerVars
<1>3. ppc = "run" /\ ~outdated
  BY <1>1, <1>2 DEF RunStep, MemoryInv
<1> QED
  BY <1>3 DEF FreshInv, StillToCommit

(* However processes are killed, and however late their last commits land, *)
(* a run that had no SIGTERM commits only calls that are not in the table, *)
(* if no scan fails and no answer of a commit is lost.                     *)
THEOREM CommitsAreFresh ==
  ASSUME "scan" \notin Faults, "lostack" \notin Faults
  PROVE  Spec => FreshCommit
<1> DEFINE Inv == MemoryInv /\ FirstInv /\ FreshInv
<1>1. Base /\ Inv /\ [Next]_vars => Inv'
  BY MemoryNext, FirstNext, FreshNext DEF Base
<1>2. Base /\ Inv /\ [Next]_vars =>
        [fpc = "appending" /\ fpc' = "committed" /\ ~stop =>
           \A r \in rows : r.call \notin Committed]_vars
  BY CommitsFresh DEF Base
<1>3. Init => Inv
  BY InitMemory
<1> HIDE DEF Inv
<1> QED
  BY <1>1, <1>2, <1>3, BaseHolds, PTL DEF Spec, FreshCommit

-----------------------------------------------------------------------------
(* Little work is lost.                                                    *)

LEMMA LandCommits ==
  ASSUME table \in [Row -> Nat], NEW S, Land(S)
  PROVE  /\ Committed \subseteq Committed'
         /\ \A r \in S \cap Row : r.status = "success" => r.call \in Committed'
<1>1. \A r \in Row : table[r] > 0 => table'[r] > 0
  BY DEF Land
<1>2. \A r \in S \cap Row : table'[r] > 0
  BY DEF Land
<1>3. ASSUME NEW r \in S \cap Row, r.status = "success"
      PROVE  r.call \in Calls /\ r = RowOf(r.call, "success")
  BY <1>3 DEF Row, RowOf
<1> QED
  BY <1>1, <1>2, <1>3, RowFacts DEF Committed

Faultless == {"commit", "lostack", "llm"} \cap Faults = {}
Losing == BatchInv /\ MemoryInv /\ LossInv /\ Faultless
RunFrame == UNCHANGED <<ppc, outdated>> /\ zombie' \in {zombie, {}}

(* Steps that leave the memory and the table alone.                        *)
LEMMA LossQuiet ==
  ASSUME LossInv, UNCHANGED <<writerVars, batchVars, zombie, outdated>>,
         ppc = "run" => ppc' = "run" \/ rpc \in {"success", "failure"}
  PROVE  LossInv'
BY CommittedSame DEF LossInv, FinishedIsKept, writerVars, batchVars

LEMMA LossFresh ==
  ASSUME FreshMemory
  PROVE  LossInv'
<1>1. /\ buffer' = {} /\ rows' = {} /\ adding' = {} /\ rpc' = "off" /\ fpc' = "none"
      /\ ~stale' /\ ~outdated' /\ \A c \in Calls : task'[c] = "none"
  BY DEF FreshMemory, WriterNew, NoTasks
<1>2. IsFiniteSet(buffer') /\ Cardinality(buffer' \ adding') < CommitEveryRows
  BY <1>1, FS_EmptySet, WriterAssumption
<1> QED
  BY <1>1, <1>2 DEF LossInv, FinishedIsKept

LEMMA LossExtracted ==
  ASSUME Losing, RunFrame,
         NEW c \in Calls, NEW s \in {"success", "error"}, TaskExtracted(c, s)
  PROVE  LossInv'
<1> USE DEF RunFrame
<1> DEFINE r == RowOf(c, s)
<1>1. /\ s = "success" /\ rpc = "gather" /\ task[c] = "running" /\ adding = {}
      /\ fpc = "none" /\ task \in [Calls -> TaskStates] /\ r.call = c /\ r.status = s
      /\ buffer' = buffer \cup {r} /\ UNCHANGED <<table, rows, stale>>
  BY DEF TaskExtracted, AddRow, Losing, Faultless, BatchInv, AddingInv, PhaseInv,
         BatchTypeOK, RowOf
<1>2. Committed' = Committed
  BY <1>1, CommittedSame
<1>3. ASSUME FinishedIsKept
      PROVE  IsFiniteSet(buffer') /\ IsFiniteSet(buffer)
  BY <1>1, <1>3, FS_AddElement DEF FinishedIsKept
<1>4. CASE fpc' = "called" /\ rpc' = "add" /\ adding' = {r} /\ UNCHANGED task
  <2>1. ASSUME FinishedIsKept
        PROVE  Cardinality(buffer' \ adding') < CommitEveryRows
    <3>1. buffer' \ adding' \in SUBSET buffer /\ buffer \ adding = buffer
      BY <1>1, <1>4
    <3>2. /\ Cardinality(buffer) \in Nat /\ Cardinality(buffer' \ adding') \in Nat
          /\ Cardinality(buffer' \ adding') <= Cardinality(buffer)
      BY <1>3, <2>1, <3>1, FS_CardinalityType, FS_Subset
    <3> QED
      BY <2>1, <3>1, <3>2, WriterAssumption DEF FinishedIsKept
  <2>2. ASSUME FinishedIsKept, NEW d \in Calls,
               task[d] \in {"success", "failed"}, d \notin Committed
        PROVE  \E q \in buffer' \ adding' : q.call = d
    BY <1>1, <1>4, <2>2 DEF FinishedIsKept
  <2>3. ppc = "run"
    BY <1>1 DEF Losing, LossInv
  <2> QED
    BY <1>1, <1>2, <1>3, <1>4, <2>1, <2>2, <2>3 DEF Losing, LossInv, FinishedIsKept
<1>5. CASE /\ fpc' = "none" /\ Cardinality(buffer') < CommitEveryRows
           /\ task' = [task EXCEPT ![c] = s] /\ UNCHANGED <<rpc, adding>>
  <2>1. buffer' \ adding' = buffer'
    BY <1>1, <1>5
  <2>2. ASSUME FinishedIsKept, NEW d \in Calls,
               task'[d] \in {"success", "failed"}, d \notin Committed
        PROVE  \E q \in buffer' \ adding' : q.call = d
    BY <1>1, <1>5, <2>1, <2>2 DEF FinishedIsKept
  <2> QED
    BY <1>1, <1>2, <1>3, <1>5, <2>1, <2>2 DEF Losing, LossInv, FinishedIsKept
<1> QED
  BY <1>1, <1>4, <1>5 DEF TaskExtracted, AddRow

(* The end of a flush; it raises only if the handler emptied the buffer.   *)
LEMMA LossFlushed ==
  ASSUME Losing, FlushReturn \/ FlushRaise
  PROVE  /\ fpc' = "none" /\ Committed' = Committed
         /\ buffer' \subseteq buffer /\ rows' \subseteq rows
         /\ ~stale'
         /\ ~outdated => buffer' = {} /\ \A r \in buffer : r.call \in Committed
<1>1. CASE FlushEmpty
  <2>1. /\ buffer = {} /\ buffer' = {} /\ fpc = "called" /\ fpc' = "none"
        /\ UNCHANGED <<table, rows, stale>>
    BY <1>1 DEF FlushEmpty
  <2> QED
    BY <1>1, <2>1, CommittedSame DEF Losing, LossInv
<1>2. CASE ClearBuffer
  <2>1. /\ buffer' = {} /\ rows' = {} /\ fpc = "committed" /\ fpc' = "none"
        /\ UNCHANGED <<table, stale>>
    BY <1>2 DEF ClearBuffer
  <2> QED
    BY <2>1, CommittedSame DEF Losing, LossInv
<1>3. CASE FlushRaise
  <2>1. fpc = "appending" /\ stale /\ UNCHANGED <<table, buffer>>
    BY <1>3 DEF FlushRaise, Losing, Faultless
  <2> QED
    BY <1>3, <2>1, CommittedSame DEF FlushRaise, Losing, LossInv, FinishedIsKept
<1> QED
  BY <1>1, <1>2, <1>3 DEF FlushReturn

LEMMA LossFlushEnd ==
  ASSUME Losing, RunFrame, AddReturn \/ AddRaise \/ RunReturn \/ RunRaise
  PROVE  LossInv'
<1> USE DEF RunFrame
<1>1. /\ fpc' = "none" /\ Committed' = Committed
      /\ buffer' \subseteq buffer /\ rows' \subseteq rows
      /\ ~stale'
      /\ ~outdated => buffer' = {} /\ \A r \in buffer : r.call \in Committed
  BY LossFlushed DEF AddReturn, AddRaise, RunReturn, RunRaise
<1>2. ppc = "run" /\ adding' \subseteq adding /\ adding' = {}
  BY DEF AddReturn, AddRaise, RunReturn, RunRaise, Losing, LossInv, BatchInv, AddingInv
<1>3. ASSUME FinishedIsKept, ~outdated, NEW c \in Calls, task'[c] \in {"success", "failed"}
      PROVE  c \in Committed
  <2>1. CASE task'[c] = task[c]
    BY <1>1, <1>3, <2>1 DEF FinishedIsKept
  <2>2. CASE task'[c] # task[c]
    <3>1. \E r \in adding : r.call = c
      BY <2>2 DEF AddReturn, AddRaise, RunReturn, RunRaise, Losing, BatchInv, BatchTypeOK
    <3> QED
      BY <1>1, <1>3, <3>1 DEF FinishedIsKept
  <2> QED
    BY <2>1, <2>2
<1>4. ~outdated => IsFiniteSet(buffer') /\ Cardinality(buffer' \ adding') < CommitEveryRows
  BY <1>1, FS_EmptySet, WriterAssumption
<1>5. ~outdated => FinishedIsKept'
  BY <1>1, <1>2, <1>3, <1>4 DEF Losing, LossInv, FinishedIsKept
<1>6. rpc # "off" /\ rpc' # "off"
  BY DEF AddReturn, AddRaise, RunReturn, RunRaise
<1> QED
  BY <1>1, <1>2, <1>5, <1>6 DEF Losing, LossInv

LEMMA LossFlushing ==
  ASSUME Losing, RunFrame, Flushing
  PROVE  LossInv'
<1> USE DEF RunFrame
<1>1. UNCHANGED <<rpc, adding, task>> /\ rpc \in {"add", "flush"}
  BY DEF Flushing, batchVars
<1>2. CASE Capture \/ OpenAppend
  <2>1. /\ UNCHANGED <<buffer, table>> /\ (fpc = "called" \/ fpc = "captured")
        /\ fpc' \in {"captured", "appending"} /\ buffer \subseteq rows'
        /\ rows' \in {rows, buffer} /\ stale' \in {stale, FALSE}
    BY <1>2 DEF Capture, OpenAppend, Losing, LossInv
  <2>2. ~stale'
    BY <2>1 DEF Losing, LossInv
  <2>3. FinishedIsKept => FinishedIsKept'
    BY <1>1, <2>1, <2>2, CommittedSame DEF FinishedIsKept
  <2> QED
    BY <1>1, <2>1, <2>2, <2>3 DEF Losing, LossInv
<1>3. CASE CommitAppend
  <2>1. /\ fpc = "appending" /\ fpc' = "committed" /\ Land(rows)
        /\ UNCHANGED <<buffer, rows, stale>> /\ ~stale /\ buffer \subseteq rows
    BY <1>3 DEF CommitAppend, Losing, LossInv
  <2>2. rows \in SUBSET Row /\ table \in [Row -> Nat]
    BY DEF Losing, BatchInv, WriterTypeOK
  <2>3. Committed \subseteq Committed' /\ \A r \in rows : r.call \in Committed'
    BY <2>1, <2>2, LandCommits DEF Losing, LossInv
  <2> QED
    BY <1>1, <2>1, <2>3 DEF Losing, LossInv, FinishedIsKept
<1> QED
  BY <1>2, <1>3 DEF Flushing, FlushStep

LEMMA LossBatchStep ==
  ASSUME Losing, RunFrame, BatchStep
  PROVE  LossInv'
<1> USE DEF RunFrame
<1>1. CASE QuerySkipSet \/ QueryRaise \/ DispatchEnd
  <2>1. UNCHANGED <<writerVars, task, adding>> /\ rpc # "off" /\ ppc = "run"
    BY <1>1 DEF QuerySkipSet, QueryRaise, DispatchEnd, Losing, LossInv
  <2>2. FinishedIsKept => FinishedIsKept'
    BY <2>1, CommittedSame DEF FinishedIsKept, writerVars
  <2> QED
    BY <2>1, <2>2, CommittedSame DEF Losing, LossInv, writerVars
<1>2. CASE DispatchRaise \/ \E c \in Calls : Dispatch(c) \/ TaskStart(c)
  <2>1. \A c \in Calls : task'[c] \in {"success", "failed"} => task'[c] = task[c]
    BY <1>2 DEF DispatchRaise, Dispatch, TaskStart, Losing, BatchInv, BatchTypeOK
  <2>2. /\ UNCHANGED <<writerVars, adding>> /\ rpc # "off"
        /\ rpc' \in {rpc, "failure"}
    BY <1>2 DEF DispatchRaise, Dispatch, TaskStart
  <2> QED
    BY <2>1, <2>2, CommittedSame DEF Losing, LossInv, FinishedIsKept, writerVars
<1>3. CASE GatherEnd
  BY <1>3, CommittedSame DEF GatherEnd, CallFlush, Losing, LossInv, FinishedIsKept
<1> QED
  BY <1>1, <1>2, <1>3, LossExtracted, LossFlushEnd, LossFlushing DEF BatchStep

LEMMA LossRunStep ==
  ASSUME Losing, RunStep
  PROVE  LossInv'
<1>1. RunFrame /\ ppc = "run"
  BY DEF RunStep, RunFrame, procVars
<1>2. CASE NoSkipSet
  BY <1>1, <1>2, CommittedSame
  DEF NoSkipSet, RunFrame, Losing, LossInv, FinishedIsKept, writerVars
<1>3. CASE OpenOutdated
  BY <1>1, <1>3 DEF OpenOutdated, RunFrame, Losing, LossInv, batchVars
<1> QED
  BY <1>1, <1>2, <1>3, LossBatchStep DEF RunStep

LEMMA LossSigterm ==
  ASSUME Losing, BatchSigterm, outdated => table' = table, RunFrame
  PROVE  LossInv'
<1> USE DEF RunFrame
<1>1. UNCHANGED <<rpc, task, adding, fpc, rows>>
  BY DEF BatchSigterm, HandlerFlush, writerVars
<1>2. CASE UNCHANGED writerVars
  BY <1>1, <1>2, CommittedSame DEF Losing, LossInv, FinishedIsKept, writerVars
<1>3. CASE /\ Land(buffer) /\ buffer' = {}
           /\ stale' => fpc = "appending" \/ stale
  <2>1. table \in [Row -> Nat] /\ buffer \in SUBSET Row
    BY DEF Losing, BatchInv, WriterTypeOK
  <2>2. Committed \subseteq Committed' /\ \A r \in buffer : r.call \in Committed'
    BY <1>3, <2>1, LandCommits DEF Losing, LossInv
  <2>3. IsFiniteSet(buffer') /\ Cardinality(buffer' \ adding') < CommitEveryRows
    BY <1>3, FS_EmptySet, WriterAssumption
  <2>4. FinishedIsKept => FinishedIsKept'
    BY <1>1, <1>3, <2>2, <2>3 DEF FinishedIsKept
  <2> QED
    BY <1>1, <1>3, <2>4 DEF Losing, LossInv
<1> QED
  BY <1>2, <1>3 DEF BatchSigterm, HandlerFlush, Losing, Faultless

(* A commit of somebody else: as long as the table is not outdated, no     *)
(* append is under way that could be refused.                              *)
LEMMA LossTableMoves ==
  ASSUME MemoryInv, LossInv, CallsTableMoves, Committed \subseteq Committed',
         UNCHANGED <<buffer, fpc, rows, batchVars, ppc>>
  PROVE  LossInv'
<1>1. /\ UNCHANGED <<buffer, fpc, rows, task, adding, rpc, ppc>> /\ zombie' = {}
      /\ stale' <=> stale \/ fpc = "appending"
      /\ outdated' <=> outdated \/ loaded
  BY DEF CallsTableMoves, batchVars
<1>2. ASSUME ~outdated'
      PROVE  FinishedIsKept'
  <2>1. ~outdated /\ fpc # "appending" /\ ~stale /\ ~stale'
    BY <1>1, <1>2 DEF MemoryInv, LossInv
  <2> QED
    BY <1>1, <2>1 DEF LossInv, FinishedIsKept
<1> QED
  BY <1>1, <1>2 DEF LossInv

LEMMA LossNext ==
  ASSUME BatchInv, MemoryInv, LossInv, Faultless, [Next]_vars
  PROVE  LossInv'
<1> USE DEF procVars, expVars, watchVars
<1>1. CASE UNCHANGED vars
  BY <1>1, LossQuiet DEF vars
<1>2. CASE CallRun
  <2>1. /\ buffer' = {} /\ rows' = {} /\ adding' = {} /\ ppc' = "run" /\ fpc' = "none"
        /\ ~stale' /\ UNCHANGED <<outdated, zombie>> /\ \A c \in Calls : task'[c] = "none"
    BY <1>2 DEF CallRun, MainStart, WriterNew, NoTasks
  <2>2. IsFiniteSet(buffer') /\ Cardinality(buffer' \ adding') < CommitEveryRows
    BY <2>1, FS_EmptySet, WriterAssumption
  <2> QED
    BY <2>1, <2>2 DEF LossInv, FinishedIsKept
<1>3. CASE RunStep
  BY <1>3, LossRunStep DEF Losing
<1>4. CASE WritePidfile \/ InstallHandler \/ StartExperiment \/ RunEnd
             \/ FinishScan \/ FinishOverwrite
  BY <1>4, LossQuiet
  DEF WritePidfile, InstallHandler, StartExperiment, RunEnd, FinishScan, FinishOverwrite
<1>5. CASE WatcherSees \/ MarkScan \/ MarkOverwrite \/ Notice \/ Finished \/ LateLands
  BY <1>5, LossQuiet
  DEF WatcherSees, MarkScan, MarkOverwrite, Notice, Finished, LateLands
<1>6. CASE Rerun \/ Reclaim
  BY <1>6, LossFresh DEF Rerun, Reclaim, Die
<1>7. CASE GraceEnd
  BY <1>7, LossFresh, LossQuiet DEF GraceEnd, Die
<1>8. CASE Terminate
  <2>1. CASE Die
    BY <2>1, LossFresh DEF Die
  <2>2. CASE BatchSigterm /\ (outdated => table' = table) /\ RunFrame
    BY <2>2, LossSigterm DEF Losing
  <2>3. CASE /\ UNCHANGED <<rpc, skip, task, adding, input, malformed, writerVars>>
             /\ UNCHANGED <<procVars, zombie>>
    BY <2>3, CommittedSame DEF LossInv, FinishedIsKept, writerVars
  <2> QED
    BY <1>8, <2>1, <2>2, <2>3 DEF Terminate, RunFrame, batchVars
<1>9. CASE ZombieLands
  <2>1. Committed \subseteq Committed'
    BY <1>9, LandCommits DEF ZombieLands, BatchInv, WriterTypeOK
  <2> QED
    BY <1>9, <2>1, LossTableMoves DEF ZombieLands
<1>10. CASE OtherRun
  <2>1. Committed' = Committed
    BY <1>10, CommittedSame DEF OtherRun, writerVars
  <2> QED
    BY <1>10, <2>1, LossQuiet, LossTableMoves DEF OtherRun
<1> QED
  BY <1>1, <1>2, <1>3, <1>4, <1>5, <1>6, <1>7, <1>8, <1>9, <1>10
  DEF Next, MainStep, WatcherStep

LEMMA InitLoss == Init => LossInv
<1> SUFFICES ASSUME Init PROVE LossInv
  OBVIOUS
<1>1. IsFiniteSet(buffer) /\ Cardinality(buffer \ adding) < CommitEveryRows
  BY FS_EmptySet, WriterAssumption DEF Init, WriterInit, BatchInit
<1>2. /\ buffer = {} /\ rows = {} /\ adding = {} /\ rpc = "off" /\ fpc = "none"
      /\ ~stale /\ ~outdated /\ zombie = {} /\ \A c \in Calls : task[c] = "none"
  BY DEF Init, WriterInit, BatchInit, NoTasks
<1> QED
  BY <1>1, <1>2 DEF LossInv, FinishedIsKept

(* The lost calls are the calls of some of the rows in the buffer.         *)
LEMMA FewAreLost == LossInv => LossBounded
<1> SUFFICES ASSUME LossInv, ~outdated
             PROVE  Cardinality({c \in Calls : /\ task[c] \in {"success", "failed"}
                                               /\ c \notin Committed}) < CommitEveryRows
  BY DEF LossBounded
<1> DEFINE lost == {c \in Calls : task[c] \in {"success", "failed"} /\ c \notin Committed}
           left == {r \in buffer \ adding : r.call \in lost}
           callOf == [r \in left |-> r.call]
<1>1. /\ IsFiniteSet(buffer) /\ Cardinality(buffer \ adding) < CommitEveryRows
      /\ \A c \in lost : \E r \in left : r.call = c
  BY DEF LossInv, FinishedIsKept
<1>2. callOf \in Surjection(left, lost)
  BY <1>1 DEF Surjection
<1>3. IsFiniteSet(buffer \ adding) /\ left \in SUBSET (buffer \ adding)
  BY <1>1, FS_Subset
<1>4. IsFiniteSet(left) /\ Cardinality(left) <= Cardinality(buffer \ adding)
  BY <1>3, FS_Subset
<1>5. IsFiniteSet(lost) /\ Cardinality(lost) <= Cardinality(left)
  BY <1>2, <1>4, FS_Surjection
<1>6. /\ Cardinality(lost) \in Nat /\ Cardinality(left) \in Nat
      /\ Cardinality(buffer \ adding) \in Nat
  BY <1>3, <1>4, <1>5, FS_CardinalityType
<1> QED
  BY <1>1, <1>4, <1>5, <1>6, WriterAssumption

(* Wherever the instance goes, and whatever signals came before, fewer     *)
(* finished calls than one batch are not committed, if no commit is        *)
(* refused, no answer of a commit is lost, and no call ends as an error.   *)
THEOREM FewCallsAreLost ==
  ASSUME {"commit", "lostack", "llm"} \cap Faults = {}
  PROVE  Spec => []LossBounded
<1>1. Base /\ MemoryInv /\ LossInv /\ [Next]_vars => MemoryInv' /\ LossInv'
  BY MemoryNext, LossNext DEF Base, Faultless
<1> QED
  BY <1>1, InitMemory, InitLoss, FewAreLost, BaseHolds, PTL DEF Spec

-----------------------------------------------------------------------------
(* A success that is reported is one.                                      *)

LEMMA SuccessNext ==
  ASSUME BatchInv, MemoryInv, SuccessIsTrue, [Next]_vars
  PROVE  SuccessIsTrue'
<1>1. Committed \subseteq Committed'
  BY BatchNext
<1>2. CASE RunEnd
  <2>1. UNCHANGED <<stop, table>>
    BY <1>2 DEF RunEnd, batchVars, writerVars
  <2>2. final' = "success" => rpc = "success"
    BY <1>2 DEF RunEnd, FinalStatus
  <2>3. rpc = "success" /\ ~stop => Calls \subseteq Committed
    BY DEF MemoryInv, BatchInv, PhaseInv, SuccessIsDurable
  <2> QED
    BY <1>1, <2>1, <2>2, <2>3 DEF SuccessIsTrue
<1>3. CASE final' = "running" \/ final' = "interrupted" \/ final' = "failed"
  BY <1>3 DEF SuccessIsTrue
<1>4. CASE final' = final /\ (stop' = stop \/ stop')
  BY <1>1, <1>4 DEF SuccessIsTrue
<1> QED
  BY <1>2, <1>3, <1>4, BatchStepFrame
  DEF Next, MainStep, WatcherStep, vars, procVars, batchVars, WritePidfile, InstallHandler,
      StartExperiment, CallRun, MainStart, RunStep, NoSkipSet, OpenOutdated, FinishScan,
      FinishOverwrite, WatcherSees, Terminate, BatchSigterm, GraceEnd, MarkScan,
      MarkOverwrite, Rerun, Notice, Reclaim, Finished, ZombieLands, LateLands, OtherRun

(* Whatever fails, whichever process is killed and whenever its last       *)
(* commit lands: a process that had no SIGTERM sets the status success     *)
(* only when every call of the experiment is committed.                    *)
THEOREM ReportedSuccessIsTrue == Spec => []SuccessIsTrue
<1>1. Base /\ MemoryInv /\ SuccessIsTrue /\ [Next]_vars => MemoryInv' /\ SuccessIsTrue'
  BY MemoryNext, SuccessNext DEF Base
<1>2. Init => SuccessIsTrue
  BY DEF Init, SuccessIsTrue
<1> QED
  BY <1>1, <1>2, InitMemory, BaseHolds, PTL DEF Spec
=============================================================================
