----------------------------- MODULE ExtractBatch -----------------------------
(***************************************************************************)
(* One run of extract_batch.main() with --resume, and of runner.run() in   *)
(* it: the skip set is read once, a task is created for every other call   *)
(* of the input, the tasks extract and add their row, gather() waits for   *)
(* them and a last flush() ends the run.                                   *)
(*                                                                         *)
(* The loop that creates the tasks never suspends, so no task runs before  *)
(* the loop has ended; add_row() and flush() do not suspend either, so at  *)
(* most one task is inside add_row().  Only a signal interleaves with      *)
(* them.  The order of the input's lines is left open, and so is the order *)
(* in which tasks get the semaphore and their answers.                     *)
(***************************************************************************)
EXTENDS IcebergWriter

CONSTANT
  Concurrency       \* cfg.concurrency, the semaphore's size

ASSUME BatchAssumption == Concurrency \in Nat \ {0}

VARIABLES
  rpc,        \* where main() is
  stop,       \* runner.stop_after_current_event, a global of the process
  skip,       \* skip_set
  task,       \* what became of each call of this run
  adding,     \* the row whose add_row() is flushing (at most one)
  input,      \* the calls in the input file
  malformed   \* the input file has a line that is not JSON

batchVars == <<rpc, stop, skip, task, adding, input, malformed>>

Unfinished == {"queued", "running"}
TaskStates == {"none", "skipped", "success", "error", "failed", "cancelled"}
                \cup Unfinished

BatchTypeOK ==
  /\ rpc \in {"off", "scan", "dispatch", "gather", "add", "flush",
              "success", "failure"}
  /\ stop \in BOOLEAN
  /\ skip \in SUBSET Calls
  /\ task \in [Calls -> TaskStates]
  /\ adding \in SUBSET Row
  /\ input \in SUBSET Calls
  /\ malformed \in BOOLEAN

NoTasks == [c \in Calls |-> "none"]

BatchInit ==
  /\ rpc = "off"
  /\ stop = FALSE
  /\ skip = {}
  /\ task = NoTasks
  /\ adding = {}
  /\ input = {}
  /\ malformed = FALSE

HasErrorsRaised ==  \* variant: error rows are not counted
  \E c \in Calls : task[c] = "failed"
HasErrorsOrSkips ==  \* variant: skipped calls count as errors
  \E c \in Calls : task[c] \in {"error", "failed", "skipped"}

(* stats["errors"] is not 0: a row with an error, or a task that raised.   *)
HasErrors == \E c \in Calls : task[c] \in {"error", "failed"}

(* A new writer, the handler bound to it, and the call of asyncio.run().   *)
(* Nothing clears the stop event a previous run may have left set.         *)
MainStart(S, bad) ==
  /\ rpc = "off"
  /\ WriterNew
  /\ rpc' = "scan"
  /\ task' = NoTasks
  /\ skip' = {}
  /\ adding' = {}
  /\ input' = S
  /\ malformed' = bad
  /\ UNCHANGED stop

-----------------------------------------------------------------------------
(* query_skip_set: an exception of the scan is taken for a table that does *)
(* not exist yet, one of loading the table is not caught.                  *)

QueryAnyStatus ==  \* variant: the filter on extraction_status is missing
  /\ rpc = "scan"
  /\ skip' = {r.call : r \in Landed}
  /\ rpc' = "dispatch"
  /\ UNCHANGED <<stop, task, adding, input, malformed, writerVars>>

QueryNothing ==  \* variant: the run does not resume
  /\ rpc = "scan"
  /\ skip' = {}
  /\ rpc' = "dispatch"
  /\ UNCHANGED <<stop, task, adding, input, malformed, writerVars>>

QuerySkipSet ==
  /\ rpc = "scan"
  /\ \/ skip' = Committed \cap input
     \/ "scan" \in Faults /\ skip' = {}
  /\ rpc' = "dispatch"
  /\ UNCHANGED <<stop, task, adding, input, malformed, writerVars>>

QueryRaise ==
  /\ rpc = "scan"
  /\ "catalog" \in Faults
  /\ rpc' = "failure"
  /\ UNCHANGED <<stop, skip, task, adding, input, malformed, writerVars>>

Dispatch(c) ==
  /\ rpc = "dispatch"
  /\ ~stop
  /\ c \in input
  /\ task[c] = "none"
  /\ task' = [task EXCEPT ![c] = IF c \in skip THEN "skipped" ELSE "queued"]
  /\ UNCHANGED <<rpc, stop, skip, adding, input, malformed, writerVars>>

DispatchEndEarly ==  \* variant: the loop may miss the last line
  /\ rpc = "dispatch"
  /\ ~malformed /\ Cardinality({c \in input : task[c] = "none"}) <= 1
  /\ rpc' = "gather"
  /\ UNCHANGED <<stop, skip, task, adding, input, malformed, writerVars>>

(* The loop is over at the end of the input, or breaks at the next item    *)
(* once the stop event is set.                                             *)
DispatchEnd ==
  /\ rpc = "dispatch"
  /\ \/ stop /\ \E c \in input : task[c] = "none"
     \/ ~malformed /\ \A c \in input : task[c] # "none"
  /\ rpc' = "gather"
  /\ UNCHANGED <<stop, skip, task, adding, input, malformed, writerVars>>

(* The line that is not JSON raises in the loop; asyncio.run() cancels the *)
(* tasks before their first step.                                          *)
DispatchRaise ==
  /\ rpc = "dispatch"
  /\ malformed
  /\ task' = [c \in Calls |-> IF task[c] = "queued" THEN "cancelled" ELSE task[c]]
  /\ rpc' = "failure"
  /\ UNCHANGED <<stop, skip, adding, input, malformed, writerVars>>

TaskStartLeaks(c) ==  \* variant: finished tasks do not release the semaphore
  /\ rpc = "gather"
  /\ task[c] = "queued"
  /\ Cardinality({d \in Calls : task[d] \in {"running", "success"}}) < Concurrency
  /\ task' = [task EXCEPT ![c] = "running"]
  /\ UNCHANGED <<rpc, stop, skip, adding, input, malformed, writerVars>>

TaskStartFailed(c) ==  \* variant: a task that raises keeps its place
  /\ rpc = "gather"
  /\ task[c] = "queued"
  /\ Cardinality({d \in Calls : task[d] \in {"running", "failed"}}) < Concurrency
  /\ task' = [task EXCEPT ![c] = "running"]
  /\ UNCHANGED <<rpc, stop, skip, adding, input, malformed, writerVars>>

TaskStart(c) ==
  /\ rpc = "gather"
  /\ task[c] = "queued"
  /\ Cardinality({d \in Calls : task[d] = "running"}) < Concurrency
  /\ task' = [task EXCEPT ![c] = "running"]
  /\ UNCHANGED <<rpc, stop, skip, adding, input, malformed, writerVars>>

(* client.extract() always answers with a row, after its retries with an   *)
(* error row; add_row() may go on to flush().                              *)
TaskExtracted(c, s) ==
  /\ rpc = "gather"
  /\ task[c] = "running"
  /\ s = "success" \/ "llm" \in Faults
  /\ AddRow(RowOf(c, s))
  /\ IF fpc' = "called"
     THEN rpc' = "add" /\ adding' = {RowOf(c, s)} /\ UNCHANGED task
     ELSE task' = [task EXCEPT ![c] = s] /\ UNCHANGED <<rpc, adding>>
  /\ UNCHANGED <<stop, skip, input, malformed>>

AddReturn ==
  /\ rpc = "add"
  /\ FlushReturn
  /\ \E r \in adding : task' = [task EXCEPT ![r.call] = r.status]
  /\ adding' = {}
  /\ rpc' = "gather"
  /\ UNCHANGED <<stop, skip, input, malformed>>

AddRaiseRetries ==  \* variant: a call whose row was not added is tried again
  /\ rpc = "add"
  /\ FlushRaise
  /\ \E r \in adding : task' = [task EXCEPT ![r.call] = "queued"]
  /\ adding' = {}
  /\ rpc' = "gather"
  /\ UNCHANGED <<stop, skip, input, malformed>>

(* The exception ends the task, gather() swallows it.                      *)
AddRaise ==
  /\ rpc = "add"
  /\ FlushRaise
  /\ \E r \in adding : task' = [task EXCEPT ![r.call] = "failed"]
  /\ adding' = {}
  /\ rpc' = "gather"
  /\ UNCHANGED <<stop, skip, input, malformed>>

GatherEnd ==
  /\ rpc = "gather"
  /\ \A c \in Calls : task[c] \notin Unfinished
  /\ CallFlush
  /\ rpc' = "flush"
  /\ UNCHANGED <<stop, skip, task, adding, input, malformed>>

(* main() returns 0 iff nothing raised and no call ended in an error.      *)
RunReturn ==
  /\ rpc = "flush"
  /\ FlushReturn
  /\ rpc' = IF HasErrors THEN "failure" ELSE "success"
  /\ UNCHANGED <<stop, skip, task, adding, input, malformed>>

RunRaise ==
  /\ rpc = "flush"
  /\ FlushRaise
  /\ rpc' = "failure"
  /\ UNCHANGED <<stop, skip, task, adding, input, malformed>>

Flushing ==
  /\ rpc \in {"add", "flush"}
  /\ FlushStep
  /\ UNCHANGED batchVars

(* The handler _install_sigterm_handler installs.                          *)
BatchSigterm ==
  /\ stop' = TRUE
  /\ HandlerFlush
  /\ UNCHANGED <<rpc, skip, task, adding, input, malformed>>

BatchStep ==
  \/ QuerySkipSet
  \/ QueryRaise
  \/ \E c \in Calls : Dispatch(c)
  \/ DispatchEnd
  \/ DispatchRaise
  \/ \E c \in Calls : TaskStart(c)
  \/ \E c \in Calls, s \in {"success", "error"} : TaskExtracted(c, s)
  \/ AddReturn
  \/ AddRaise
  \/ GatherEnd
  \/ RunReturn
  \/ RunRaise
  \/ Flushing

-----------------------------------------------------------------------------
(* Properties of a run.                                                    *)

(* Every result a task has handed to add_row() is in the writer's buffer   *)
(* or committed for as long as the process lives: no failed commit, lost   *)
(* answer or flush from the signal handler makes flush() drop a row that   *)
(* is not in the table (flush() clears the buffer only after append()).    *)
RowsKept ==
  \A c \in Calls :
    task[c] \in {"success", "error"} => RowOf(c, task[c]) \in buffer \cup Landed

(* When main() returns 0 its writer holds nothing back and every call it   *)
(* tried or skipped has a committed success row, SIGTERM or not.           *)
SuccessIsDurable ==
  rpc = "success" =>
    /\ buffer = {}
    /\ \A c \in input : task[c] # "none" => c \in Committed

(* How far a run is from its end: each call has up to three steps before   *)
(* it, and between two of them there is at most one flush().               *)
Left(S) == Cardinality({c \in Calls : task[c] \in S})
ToDo == Left({"none"}) + Left({"none", "queued"}) + Left({"none", "queued", "running"})
Phase ==
  CASE rpc = "scan" -> 7
    [] rpc = "dispatch" -> 6
    [] rpc = "gather" -> 5
    [] rpc \in {"add", "flush"} /\ fpc = "called" -> 4
    [] rpc \in {"add", "flush"} /\ fpc = "captured" -> 3
    [] rpc \in {"add", "flush"} /\ fpc = "appending" -> 2
    [] rpc \in {"add", "flush"} /\ fpc = "committed" -> 1
    [] OTHER -> 0
Rank == 8 * ToDo + Phase

-----------------------------------------------------------------------------
(* The strengthening that makes the invariants of a run inductive.         *)

(* The buffer never grows during a flush, and what was appended is in the  *)
(* table: clearing the buffer then drops nothing.                          *)
FlushInv ==
  /\ fpc \in {"captured", "appending", "committed"} => buffer \subseteq rows
  /\ fpc = "committed" => rows \subseteq Landed

(* Only one task is inside add_row(), and its row is kept like those of    *)
(* the finished tasks.                                                     *)
AddingInv ==
  /\ rpc # "add" => adding = {}
  /\ \A q, r \in adding : q = r
  /\ \A r \in adding : task[r.call] = "running" /\ r \in buffer \cup Landed

SkipInv ==
  /\ skip \subseteq Committed
  /\ \A c \in Calls : task[c] = "skipped" => c \in Committed

(* What there can be at each point of a run.                               *)
PhaseInv ==
  /\ rpc \notin {"add", "flush"} => fpc = "none"
  /\ rpc \in {"scan", "dispatch"} => buffer = {}
  /\ rpc = "flush" => \A c \in Calls : task[c] \notin Unfinished
  /\ rpc \in {"scan", "dispatch", "gather", "add", "flush"}
       => \A c \in Calls : task[c] # "cancelled"
  /\ rpc \in {"gather", "add", "flush", "success"} =>
       (\A c \in input : task[c] # "none") \/ stop

BatchInv ==
  /\ WriterTypeOK
  /\ BatchTypeOK
  /\ FlushInv
  /\ AddingInv
  /\ SkipInv
  /\ PhaseInv
  /\ RowsKept
  /\ SuccessIsDurable
=============================================================================
