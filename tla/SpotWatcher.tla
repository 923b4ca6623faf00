------------------------------ MODULE SpotWatcher ------------------------------
(***************************************************************************)
(* An experiment on spot instances: extract_batch.main() as a process of   *)
(* its own, started without --resume first and with --resume ever after,   *)
(* and the watcher (extract_lib/spot_watcher.py) beside it, which reads    *)
(* the pidfile when EC2 announces an interruption, sends SIGTERM, waits,   *)
(* sends SIGKILL, and marks the run in experiment_runs.  The instance goes *)
(* away at any time after the announcement.  The pidfile stays when its    *)
(* process ends, so the pid in it may be that of an earlier process.       *)
(*                                                                         *)
(* Time is not modelled, so the grace period may end at any point.  Both   *)
(* tables accept a commit only if it is based on their latest snapshot; a  *)
(* writer keeps the tables it has loaded (_tables), and a commit that was  *)
(* under way when its process died may still land long after.              *)
(***************************************************************************)
EXTENDS ExtractBatch

CONSTANT MaxInstances  \* bound of the model: how many instances there are

ASSUME SpotAssumption == MaxInstances \in Nat \ {0}

VARIABLES
  ppc,        \* where main() of extract_batch is; "none": not started here
  resume,     \* its --resume
  final,      \* final_status
  pidfile,    \* whose pid it holds: of no process, of an old or the current one
  loaded,     \* the writer has loaded calls_extractions
  outdated,   \* ... and what it has loaded is older than the table
  zombie,     \* rows of a dead process whose commit is still under way
  exp,        \* status of the run in experiment_runs, "none": no row
  fresh,      \* whose loaded experiment_runs is the latest
  late,       \* status of a dead process whose commit is still under way
  disturbed,  \* another commit came between the run and its row, or one failed
  wpc,        \* where the watcher is; "gone" with the last instance
  watched,    \* the pid it has read is that of the current process
  mark,       \* what became of its mark
  noticed,    \* EC2 has announced the interruption
  instance    \* which instance this is

procVars == <<ppc, resume, final, loaded, outdated>>
expVars == <<exp, fresh, late, disturbed>>
watchVars == <<wpc, watched, mark, noticed, instance>>
vars == <<writerVars, batchVars, procVars, pidfile, zombie, expVars, watchVars>>

Statuses == {"running", "success", "partial", "failed", "interrupted"}
Alive == ppc \in {"started", "append", "ready", "run", "finish", "write"}

TypeOK ==
  /\ WriterTypeOK
  /\ BatchTypeOK
  /\ ppc \in {"none", "started", "append", "ready", "run", "finish", "write", "exited"}
  /\ resume \in BOOLEAN
  /\ final \in Statuses
  /\ pidfile \in {"none", "old", "current"}
  /\ loaded \in BOOLEAN
  /\ outdated \in BOOLEAN
  /\ zombie \in SUBSET Row
  /\ exp \in Statuses \cup {"none"}
  /\ fresh \in SUBSET {"run", "watcher"}
  /\ late \in Statuses \cup {"none"}
  /\ disturbed \in BOOLEAN
  /\ wpc \in {"poll", "term", "grace", "mark", "write", "exited", "gone"}
  /\ watched \in BOOLEAN
  /\ mark \in {"no", "done", "failed"}
  /\ noticed \in BOOLEAN
  /\ instance \in 1 .. MaxInstances

Init ==
  /\ WriterInit
  /\ BatchInit
  /\ ppc = "none" /\ resume = FALSE /\ final = "running"
  /\ pidfile = "none" /\ loaded = FALSE /\ outdated = FALSE
  /\ zombie = {}
  /\ exp = "none" /\ fresh = {} /\ late = "none" /\ disturbed = FALSE
  /\ wpc = "poll" /\ watched = FALSE /\ mark = "no" /\ noticed = FALSE
  /\ instance = 1

(* What is left of a process in memory: nothing.                           *)
FreshMemory ==
  /\ WriterNew
  /\ rpc' = "off" /\ stop' = FALSE /\ skip' = {} /\ task' = NoTasks
  /\ adding' = {} /\ input' = {} /\ malformed' = FALSE
  /\ loaded' = FALSE /\ outdated' = FALSE

(* A commit of p to experiment_runs that is accepted outdates all others.  *)
CommitAnyway(p, s) ==  \* variant: the snapshot is not compared
  /\ exp' = s
  /\ fresh' = {p}
  /\ UNCHANGED <<late, disturbed>>

CommitStatus(p, s) ==
  /\ exp' = s
  /\ fresh' = {p}
  /\ late' = "none"
  /\ UNCHANGED disturbed

-----------------------------------------------------------------------------
(* extract_batch.main().                                                   *)

WritePidfile ==
  /\ ppc = "none"
  /\ ppc' = "started"
  /\ pidfile' = "current"
  /\ UNCHANGED <<resume, final, loaded, outdated, zombie, expVars, watchVars>>
  /\ UNCHANGED <<writerVars, batchVars>>

InstallHandler ==
  /\ ppc = "started"
  /\ ppc' = IF resume THEN "ready" ELSE "append"
  /\ UNCHANGED <<resume, final, loaded, outdated, pidfile, zombie>>
  /\ UNCHANGED <<expVars, watchVars, writerVars, batchVars>>

(* start_experiment_run loads or creates the table and appends a row;      *)
(* nothing catches its exception, that of a lost answer included.          *)
StartExperiment ==
  /\ ppc = "append"
  /\ \/ ppc' = "ready" /\ CommitStatus("run", "running") /\ UNCHANGED final
     \/ /\ "status" \in Faults
        /\ ppc' = "exited" /\ CommitStatus("run", "running") /\ final' = "failed"
     \/ ppc' = "exited" /\ final' = "failed" /\ disturbed' = TRUE
        /\ UNCHANGED <<exp, fresh, late>>
  /\ UNCHANGED <<resume, loaded, outdated, pidfile, zombie>>
  /\ UNCHANGED <<watchVars, writerVars, batchVars>>

CallRun ==
  /\ ppc = "ready"
  /\ MainStart(Calls, FALSE)
  /\ ppc' = "run"
  /\ UNCHANGED <<resume, final, loaded, outdated, pidfile, zombie, expVars, watchVars>>

(* Without --resume the table is not read.                                 *)
NoSkipSet ==
  /\ rpc = "scan"
  /\ rpc' = "dispatch"
  /\ UNCHANGED <<stop, skip, task, adding, input, malformed, writerVars>>

OpenReloaded ==  \* variant: every flush() loads the table
  /\ outdated
  /\ fpc = "captured"
  /\ fpc' = "appending"
  /\ stale' = FALSE
  /\ UNCHANGED <<buffer, table, rows, batchVars>>

(* On an outdated table append() is refused, and nothing loads it anew.    *)
OpenOutdated ==
  /\ outdated
  /\ fpc = "captured"
  /\ fpc' = "appending"
  /\ stale' = TRUE
  /\ UNCHANGED <<buffer, table, rows, batchVars>>

(* The table is loaded for the skip set or for the first flush().          *)
RunStep ==
  /\ ppc = "run"
  /\ \/ ~resume /\ NoSkipSet
     \/ /\ resume \/ rpc # "scan"
        /\ ~(outdated /\ fpc = "captured")
        /\ BatchStep
     \/ OpenOutdated
  /\ loaded' = (loaded \/ (resume /\ rpc' = "dispatch") \/ fpc' = "appending")
  /\ zombie' = IF table' = table THEN zombie ELSE {}
  /\ UNCHANGED <<ppc, resume, final, outdated, pidfile, expVars, watchVars>>

(* main() cannot tell a task whose row could not be added from one with an *)
(* error row; a flush() that raised leaves rows in the buffer.             *)
FinalStatus ==
  LET Count(S) == Cardinality({c \in Calls : task[c] \in S})
  IN  IF rpc = "success" THEN "success"
      ELSE IF \/ ~HasErrors \/ buffer # {}
              \/ Count({"success", "error"}) = Count({"error", "failed"})
      THEN "failed" ELSE "partial"

RunEndRaw ==  \* variant: the outcome of run() is taken for the status
  /\ ppc = "run"
  /\ rpc \in {"success", "failure"}
  /\ final' = rpc
  /\ ppc' = "finish"
  /\ UNCHANGED <<resume, loaded, outdated, pidfile, zombie>>
  /\ UNCHANGED <<expVars, watchVars, writerVars, batchVars>>

RunEnd ==
  /\ ppc = "run"
  /\ rpc \in {"success", "failure"}
  /\ final' = FinalStatus
  /\ ppc' = "finish"
  /\ UNCHANGED <<resume, loaded, outdated, pidfile, zombie>>
  /\ UNCHANGED <<expVars, watchVars, writerVars, batchVars>>

FinishScanOld ==  \* variant: a resumed run does not load the table
  /\ ppc = "finish"
  /\ ppc' = IF exp = "none" THEN "exited" ELSE "write"
  /\ UNCHANGED <<resume, final, loaded, outdated, pidfile, zombie>>
  /\ UNCHANGED <<expVars, watchVars, writerVars, batchVars>>

(* Loading, reading or overwriting experiment_runs fails.                  *)
StatusFails ==
  /\ "status" \in Faults
  /\ disturbed' = TRUE
  /\ UNCHANGED <<exp, fresh, late>>

(* finish_experiment_run, the scan: the run that has appended the row uses *)
(* the table it has loaded for it; a resumed one loads it now.             *)
FinishScan ==
  /\ ppc = "finish"
  /\ \/ /\ fresh' = IF resume THEN fresh \cup {"run"} ELSE fresh
        /\ ppc' = IF exp = "none" THEN "exited" ELSE "write"
        /\ UNCHANGED <<exp, late, disturbed>>
     \/ StatusFails /\ ppc' = "exited"
  /\ UNCHANGED <<resume, final, loaded, outdated, pidfile, zombie>>
  /\ UNCHANGED <<watchVars, writerVars, batchVars>>

(* ... and the overwrite.  Whatever fails is only printed: main() returns  *)
(* what it would have returned.                                            *)
FinishOverwrite ==
  /\ ppc = "write"
  /\ \/ "run" \in fresh /\ CommitStatus("run", final)
     \/ "run" \notin fresh /\ UNCHANGED expVars
     \/ StatusFails
  /\ ppc' = "exited"
  /\ UNCHANGED <<resume, final, loaded, outdated, pidfile, zombie>>
  /\ UNCHANGED <<watchVars, writerVars, batchVars>>

(* The operator runs it again, with --resume, if it did not return 0.  The *)
(* pidfile still holds the pid of the process that has ended.              *)
Rerun ==
  /\ ppc = "exited"
  /\ final # "success"
  /\ wpc # "gone"
  /\ FreshMemory
  /\ ppc' = "none"
  /\ resume' = TRUE
  /\ final' = "running"
  /\ pidfile' = "old"
  /\ watched' = FALSE
  /\ fresh' = fresh \ {"run"}
  /\ UNCHANGED <<zombie, exp, late, disturbed, wpc, mark, noticed, instance>>

-----------------------------------------------------------------------------
(* The watcher.                                                            *)

(* What may be accepted of a status whose commit was under way when the    *)
(* process that sent it, or the watcher, went.                             *)
LateStatus ==
  {late} \cup (IF ppc = "append" THEN {"running"} ELSE {})
         \cup (IF ppc = "write" /\ "run" \in fresh THEN {final} ELSE {})
         \cup (IF wpc = "write" /\ "watcher" \in fresh THEN {"interrupted"} ELSE {})

(* The process dies; a commit it was waiting for may be accepted later.    *)
Die ==
  /\ zombie' \in {zombie} \cup (IF ppc = "run" /\ fpc = "appending" /\ ~stale THEN {rows} ELSE {})
  /\ late' \in LateStatus
  /\ fresh' = fresh \ {"run"}
  /\ FreshMemory
  /\ UNCHANGED <<exp, disturbed>>

(* A notice seen in IMDS: read the pidfile, or exit if there is none.  One *)
(* that is just being written is empty, and taken for none.                *)
WatcherSees ==
  /\ wpc = "poll"
  /\ noticed
  /\ \/ pidfile # "current" /\ wpc' = "exited" /\ UNCHANGED watched
     \/ pidfile # "none" /\ wpc' = "term" /\ watched' = (pidfile = "current")
  /\ UNCHANGED <<mark, noticed, instance, pidfile, zombie, procVars, expVars>>
  /\ UNCHANGED <<writerVars, batchVars>>

(* The process whose pid the watcher has read is there to be signalled.    *)
Reached == watched /\ Alive

(* SIGTERM: without a handler the process dies of it; the handler stops    *)
(* the dispatching and flushes, in vain if its table is outdated; nobody   *)
(* notices if the process with that pid has ended.                         *)
Terminate ==
  /\ wpc = "term"
  /\ wpc' = "grace"
  /\ \/ /\ Reached /\ ppc = "started"
        /\ Die
        /\ ppc' = "exited"
        /\ final' = "interrupted"
        /\ UNCHANGED resume
     \/ /\ Reached /\ ppc # "started"
        /\ BatchSigterm
        /\ outdated => table' = table
        /\ loaded' = (loaded \/ buffer # {})
        /\ zombie' = IF table' = table THEN zombie ELSE {}
        /\ UNCHANGED <<ppc, resume, final, outdated, expVars>>
     \/ /\ Reached /\ ppc # "started" /\ outdated /\ buffer # {}
        /\ stop' = TRUE
        /\ UNCHANGED <<rpc, skip, task, adding, input, malformed, writerVars>>
        /\ UNCHANGED <<procVars, zombie, expVars>>
     \/ /\ ~Reached
        /\ UNCHANGED <<procVars, zombie, expVars, writerVars, batchVars>>
  /\ UNCHANGED <<watched, mark, noticed, instance, pidfile>>

(* The process has ended, or the grace period has, and SIGKILL is sent.    *)
GraceEnd ==
  /\ wpc = "grace"
  /\ wpc' = "mark"
  /\ \/ /\ Reached
        /\ Die
        /\ ppc' = "exited"
        /\ final' = "interrupted"
        /\ UNCHANGED resume
     \/ /\ ~Reached
        /\ UNCHANGED <<procVars, zombie, expVars, writerVars, batchVars>>
  /\ UNCHANGED <<watched, mark, noticed, instance, pidfile>>

(* _mark_interrupted, with a writer of its own: scan ...                   *)
MarkScan ==
  /\ wpc = "mark"
  /\ \/ /\ fresh' = fresh \cup {"watcher"}
        /\ wpc' = IF exp = "none" THEN "exited" ELSE "write"
        /\ UNCHANGED <<mark, exp, late, disturbed>>
     \/ StatusFails /\ wpc' = "exited" /\ mark' = "failed"
  /\ UNCHANGED <<watched, noticed, instance, procVars, pidfile, zombie>>
  /\ UNCHANGED <<writerVars, batchVars>>

(* ... and overwrite; a failure is only logged.                            *)
MarkOverwrite ==
  /\ wpc = "write"
  /\ \/ "watcher" \in fresh /\ CommitStatus("watcher", "interrupted") /\ mark' = "done"
     \/ "watcher" \notin fresh /\ UNCHANGED expVars /\ mark' = "failed"
     \/ StatusFails /\ mark' = "failed"
  /\ wpc' = "exited"
  /\ UNCHANGED <<watched, noticed, instance, procVars, pidfile, zombie>>
  /\ UNCHANGED <<writerVars, batchVars>>

-----------------------------------------------------------------------------
(* EC2 and the tables.                                                     *)

Notice ==
  /\ ~noticed
  /\ instance < MaxInstances
  /\ noticed' = TRUE
  /\ UNCHANGED <<wpc, watched, mark, instance, procVars, pidfile, zombie, expVars>>
  /\ UNCHANGED <<writerVars, batchVars>>

(* The instance goes; the run is resumed on another one, unless it has     *)
(* returned 0 and its row says success.                                    *)
Reclaim ==
  /\ noticed
  /\ wpc # "gone"
  /\ ~(ppc = "exited" /\ final = "success" /\ exp = "success")
  /\ Die
  /\ ppc' = "none"
  /\ resume' = TRUE
  /\ final' = "running"
  /\ pidfile' = "none"
  /\ instance' = instance + 1
  /\ wpc' = "poll" /\ watched' = FALSE /\ mark' = "no" /\ noticed' = FALSE

(* The instance goes after the end of the run, and nobody resumes a run    *)
(* that has returned 0 or whose row says success.                          *)
Finished ==
  /\ noticed
  /\ wpc # "gone"
  /\ ppc = "exited"
  /\ "success" \in {final, exp}
  /\ wpc' = "gone"
  /\ late' \in LateStatus
  /\ UNCHANGED <<exp, fresh, disturbed, watched, mark, noticed, instance>>
  /\ UNCHANGED <<procVars, pidfile, zombie, writerVars, batchVars>>

(* A commit of somebody else to calls_extractions: what is under way is    *)
(* refused, and a writer that has loaded the table is left with an old one.*)
CallsTableMoves ==
  /\ outdated' = (outdated \/ loaded)
  /\ stale' = (stale \/ fpc = "appending")
  /\ zombie' = {}

(* The rows of a dead process are committed after all.                     *)
ZombieLands ==
  /\ zombie # {}
  /\ Land(zombie)
  /\ CallsTableMoves
  /\ UNCHANGED <<buffer, fpc, rows, batchVars, ppc, resume, final, loaded, pidfile>>
  /\ UNCHANGED <<expVars, watchVars>>

(* So is a status, unless another commit came first.  It does no harm if   *)
(* the run it is about has ended and is going to be resumed.               *)
LateLands ==
  /\ late # "none"
  /\ exp' = late
  /\ late' = "none"
  /\ fresh' = {}
  /\ disturbed' = (disturbed \/ ~(ppc = "none" \/ (final = "interrupted" /\ wpc # "gone")))
  /\ UNCHANGED <<procVars, pidfile, zombie, watchVars, writerVars, batchVars>>

(* Another run commits to one of the tables, once.                         *)
OtherRun ==
  /\ ~disturbed
  /\ disturbed' = TRUE
  /\ \/ /\ fresh' = {}
        /\ late' = "none"
        /\ UNCHANGED <<outdated, zombie, writerVars>>
     \/ /\ CallsTableMoves
        /\ UNCHANGED <<fresh, late, buffer, table, fpc, rows>>
  /\ UNCHANGED <<exp, ppc, resume, final, loaded, pidfile, watchVars, batchVars>>

MainStep ==
  \/ WritePidfile \/ InstallHandler \/ StartExperiment \/ CallRun \/ RunStep
  \/ RunEnd \/ FinishScan \/ FinishOverwrite

WatcherStep == WatcherSees \/ Terminate \/ GraceEnd \/ MarkScan \/ MarkOverwrite

Next ==
  \/ MainStep
  \/ Rerun
  \/ WatcherStep
  \/ Notice
  \/ Reclaim
  \/ Finished
  \/ ZombieLands
  \/ LateLands
  \/ OtherRun

Spec == Init /\ [][Next]_vars

(* The processes run, the operator goes on, EC2 does what it announces;    *)
(* nobody has to send a notice, and a commit under way need not land.      *)
FairSpec ==
  /\ Spec
  /\ WF_vars(MainStep)
  /\ WF_vars(Rerun)
  /\ WF_vars(Reclaim \/ Finished)

-----------------------------------------------------------------------------
(* Properties.                                                             *)

(* spot_interrupt.go:55-57: a process that had no SIGTERM commits only     *)
(* calls that have no success row, even if the last commit of a killed     *)
(* process lands after the skip set was read.                              *)
FreshCommit ==
  [][fpc = "appending" /\ fpc' = "committed" /\ ~stop =>
       \A r \in rows : r.call \notin Committed]_vars

(* spot_interrupt.go:51: once the watcher has marked the run it stays      *)
(* interrupted for as long as no process is started after the one whose    *)
(* pid it had read: neither that one, which is dead, nor a status it was   *)
(* about to commit replaces the mark.                                      *)
InterruptedSticks == mark = "done" /\ watched => exp = "interrupted"

(* Whenever the instance goes, less than commit_every_n_rows finished      *)
(* calls have to be extracted once more, as long as commits are accepted.  *)
(* The call whose add_row() is committing the batch comes on top of them.  *)
LossBounded ==
  ~outdated =>
    Cardinality({c \in Calls : task[c] \in {"success", "failed"} /\ c \notin Committed})
      < CommitEveryRows

(* A process that had no SIGTERM reports success only if every call of the *)
(* experiment is committed, whichever process before it committed what,    *)
(* and whenever a commit of a dead one landed in between.                  *)
SuccessIsTrue == final = "success" /\ ~stop => Calls \subseteq Committed

(* Nobody resumes a run whose last process has returned 0, or whose row    *)
(* said success when the instance went.  SuccessIsTrue is what can be said *)
(* for it; a process that was sent SIGTERM may claim success with calls    *)
(* missing, and unless the watcher's mark corrects the row it is believed. *)
GivenUp == final = "success" \/ wpc = "gone"

(* spot_interrupt.go:53-57: interrupted or not, and rerun if need be, the  *)
(* experiment, unless it is given up with calls missing, ends with all     *)
(* calls and with status success.  The status may be another one if the    *)
(* row was never written, a commit to the table failed or came between, or *)
(* the run was marked after its end.                                       *)
Completed ==
  []<>(GivenUp => Calls \subseteq Committed) =>
    <>[](/\ Calls \subseteq Committed
         /\ \/ exp \in {"success", "none"}
            \/ disturbed
            \/ mark = "done" /\ final = "success")

-----------------------------------------------------------------------------
(* The strengthening that makes the safety properties inductive.           *)

(* Once the watcher is past the grace period the run it watched is dead,   *)
(* and nothing of it is under way any more after the mark.                 *)
WatchInv ==
  /\ noticed => instance < MaxInstances
  /\ wpc # "poll" => noticed
  /\ pidfile = "current" => ppc # "none"
  /\ wpc \in {"term", "grace"} /\ watched => ppc # "none"
  /\ wpc \in {"mark", "write", "gone"} /\ watched => ppc = "exited"
  /\ mark # "no" => wpc \in {"exited", "gone"}
  /\ mark = "done" /\ watched => ppc = "exited" /\ late = "none"
  /\ InterruptedSticks

(* Where the memory of the run is empty, and what it was started with.     *)
MemoryInv ==
  /\ ppc \in {"none", "started", "append", "ready"} => rpc = "off"
  /\ rpc \in {"off", "scan"} => task = NoTasks
  /\ rpc = "off" => buffer = {}
  /\ rpc # "off" => input = Calls
  /\ outdated => loaded
  /\ outdated /\ fpc = "appending" => stale
  /\ fpc = "appending" => loaded
  /\ resume /\ rpc \notin {"off", "scan", "failure"} => loaded
  /\ resume /\ ~loaded => task = NoTasks /\ buffer = {}

(* The first process of the experiment, which reads no table, finds none.  *)
FirstInv ==
  ~resume /\ ppc # "exited" =>
    zombie = {} /\ (rpc \in {"off", "scan", "dispatch"} => Committed = {})

(* What the run has still to extract or to commit is not committed yet, as *)
(* long as its tables are the latest and it had no SIGTERM.                *)
StillToCommit ==
  /\ rpc = "dispatch" => Committed \cap input \subseteq skip
  /\ fpc # "committed" => \A r \in buffer : r.call \notin Committed
  /\ fpc \in {"captured", "appending"} => rows = buffer
  /\ \A c \in Calls : task[c] \in Unfinished /\ (\A r \in adding : r.call # c)
       => c \notin Committed /\ \A r \in buffer : r.call # c

FreshInv == ppc = "run" /\ ~stop /\ ~outdated => StillToCommit

(* A finished call that is not committed has its row in the buffer, and    *)
(* the buffer, but for the row of add_row(), is smaller than a batch.      *)
FinishedIsKept ==
  /\ stale => buffer = {}
  /\ IsFiniteSet(buffer) /\ Cardinality(buffer \ adding) < CommitEveryRows
  /\ \A r \in adding : r \in buffer \/ r.call \in Committed
  /\ \A c \in Calls : task[c] \in {"success", "failed"} /\ c \notin Committed
       => \E r \in buffer \ adding : r.call = c

LossInv ==
  /\ rpc \in {"scan", "dispatch", "gather", "add", "flush"} => ppc = "run"
  /\ outdated => zombie = {}
  /\ \A r \in buffer \cup rows \cup adding : r.status = "success"
  /\ fpc \in {"captured", "appending"} => buffer \subseteq rows
  /\ fpc = "committed" => \A r \in buffer : r.call \in Committed
  /\ stale => fpc = "appending"
  /\ ~outdated => FinishedIsKept

IInv ==
  /\ TypeOK
  /\ BatchInv
  /\ WatchInv
  /\ MemoryInv
  /\ FirstInv
  /\ FreshInv
  /\ LossInv
  /\ SuccessIsTrue
=============================================================================
