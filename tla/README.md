# Verification of the aws-llm pipeline

aws-llm extracts structured data from call transcripts with a language model on
one GPU instance. A user uploads a gzipped JSONL file (a *shard*) to S3; S3
announces it on an SQS queue; a Lambda scales an auto-scaling group from 0 to 1;
a worker on the instance takes one message at a time, runs the extraction of its
shard, commits the rows to an Iceberg table and deletes the message; when there
is nothing left it terminates its own instance. This directory holds TLA+ models
of that pipeline, the TLC configurations that check them and TLAPS proofs.

## 1. Inventory

| Component | State | Operations | Interacts with |
|---|---|---|---|
| Jobs queue, DLQ (`infra/bootstrap/modules/dispatch/main.tf`) | messages, receive counts, visibility | send, receive, redrive after `maxReceiveCount`, timeout, delete | S3, worker, dispatcher |
| Worker loop (`extract_lib/sqs_worker.py`) | SIGTERM flag, current message, time of the last message | poll, process a shard, delete, self-terminate | queue, S3, ASG, systemd, the run (in its own process) |
| Visibility heartbeat (`sqs_worker.py:113-159`) | a thread and its stop event | tick every 240 s, stop and join | queue, concurrently with the run |
| Extraction run (`extract_batch.py`, `runner.py`) | skip set, tasks, semaphore, the stop event (global of the process), statistics | scan, dispatch, task, gather, final flush, SIGTERM handler | writer, client |
| Iceberg writer (`iceberg_writer.py`) | row buffer, table cache; the table | `add_row`, `flush`, `query_skip_set`, `start_/finish_experiment_run`, `append_many` | catalog, SIGTERM handler (re-entrant) |
| vLLM client (`client.py`) | attempt counter, a process-wide HTTP client | up to 3 attempts with backoff | runner |
| Dispatcher Lambda (`lambda/dispatch/handler.py`) | none of its own | read depth, describe group, describe activities, set desired | queue, ASG, a concurrent invocation of itself |
| Auto-scaling group (`infra/runtime/modules/compute`) | desired capacity, the instance | launch, replace, terminate with decrement | dispatcher, worker |
| Reconcile loop (`run.sh`, `bootstrap-shim.sh`, role `ansible_cron`) | lock file, playbook directory, etag and galaxy markers | bootstrap, cron tick | S3 artifacts, systemd units |
| Spot watcher (`spot_watcher.py`) | pidfile (written by the run) | poll metadata, SIGTERM, grace of 90 s, SIGKILL, mark interrupted | run, experiment_runs |
| Query Lambda (`lambda/query`) | none | render, read-only check, start, poll 50 s, page results | Athena |
| Schema, features, metrics, configuration | none shared | pure functions, one metrics upload | - |
| Terraform, Ansible roles, Go experiments | - | provisioning, test drivers | - |

What is hard here: the SIGTERM handler runs `flush()` in the middle of the
`flush()` of the main flow; a run's handler replaces the worker's; the stop event
is a global of a process that runs many shards; SQS delivers at least once, the
visibility timeout races a long shard; the commit may be accepted while its
answer is lost; every API call may fail and the code mostly logs it; two Lambda
invocations and the auto-scaling group act on each other's stale answers; cron
and systemd start the same script. What makes the components correct: no result
is lost between a task and the table, no call is committed twice, a message is
deleted only when its shard is in the table, every message is eventually deleted
or quarantined, queued work eventually has an instance, idle instances go away.

## 2. Modules

| Module | Models | Kind |
|---|---|---|
| `IcebergWriter` | buffer, table and `flush()` split at each point where a signal makes a difference | component |
| `ExtractBatch` | one `extract_batch.main(--resume)` with `runner.run()`; EXTENDS `IcebergWriter` | component |
| `JobsQueue` | the queue and its DLQ | component |
| `SqsWorker` | the worker process; composes `ExtractBatch` and `JobsQueue`, adds crash, SIGTERM, timeout; properties and the inductive invariant | composition |
| `ShardLedger` | what the pipeline promises: pending, done, quarantined | abstract specification |
| `MCSqsWorker` | the instance for TLC | model |
| `ExtractBatchProofs` | what every step of a run preserves, and that it nears its end: the lemmas the next two rest on | proofs |
| `SqsWorkerProofs` | theorems about `SqsWorker`: its invariants, no duplicate rows, the refinements of `ShardLedger` and of `Fleet`'s worker, the end of a run; EXTENDS `ExtractBatchProofs` | proofs |
| `Fleet` | the dispatcher Lambda, the auto-scaling group and its one instance, with the worker as the fleet sees it; EXTENDS `JobsQueue` | composition |
| `MCFleet`, `FleetProofs` | its instance for TLC, its theorems | model, proofs |
| `VisibilityHeartbeat` | the heartbeat thread of one message, with a discrete clock | component |
| `MCHeartbeat`, `VisibilityHeartbeatProofs` | its instance for TLC, its theorems | model, proofs |
| `Reconcile` | `run.sh`, the bootstrap unit with its shim, the cron job, the playbook directory | component |
| `MCReconcile`, `ReconcileProofs` | its instance for TLC, its theorems | model, proofs |
| `Client` | the tasks of a run with their slots, attempts, backoffs and truncation, and the outages of the server; implements the tasks of `ExtractBatch` | component |
| `MCClient`, `ClientProofs` | its instance for TLC, its theorems | model, proofs |
| `SpotWatcher` | an experiment on spot instances: `extract_batch.main()` and the watcher as two processes, the run's row in `experiment_runs`; EXTENDS `ExtractBatch` | composition |
| `MCSpot`, `SpotWatcherProofs` | its instance for TLC, its theorems; the proofs EXTEND `ExtractBatchProofs` | model, proofs |
| `QueryLambda` | one invocation of the query Lambda with its clock, and the Athena query it starts | component |
| `MCQuery`, `QueryLambdaProofs` | its instance for TLC, its theorems | model, proofs |

### How the state corresponds to the code

* A *call* of the model is a run id and a call id together; `query_skip_set`
  filters on `run_id` and the run id is a function of the S3 key, so shards with
  different base names never share rows. Two uploads of the same key are two
  messages with the same shard (`upload`, `again`).
* `buffer` is `self._buffer` of the current writer, `table` counts the committed
  copies of each row. A row is a call and its `extraction_status`.
* `fpc` is the place inside `flush()`: `called` (to be tested for emptiness),
  `captured` (line 224 done), `appending` (inside `tbl.append`), `committed`
  (before `clear()`). `stale` records that another commit came after the open
  transaction read its metadata: the catalog then refuses it.
* `rpc` is the place in `main()`/`run()`; `task` the state of each `_do_one`.
  The dispatch loop never suspends and `add_row` never does, so tasks only run
  from `gather` on, and one at a time is inside `add_row` (`adding`).
* `pc`, `cur`, `ok`, `flag`, `handler` are those of the worker's main loop;
  `handler` is which function is installed for SIGTERM. `stop` is
  `runner.stop_after_current_event`: a new run does not clear it, a new process does.
* The process may die at any step (`Kill`); its memory goes, the queue and the
  table stay, systemd starts it again (`Start`).
* `Faults` names what can go wrong in an instance, so that each run says which
  faults a property survives: `commit` (refused or table not loadable), `lostack`
  (accepted, answer lost), `catalog`/`scan` (the two halves of
  `query_skip_set`), `llm` (an error row), `sigterm`, `kill`, `receive`,
  `prepare` (download or writer construction), `delete`, `early_visible` (the
  heartbeat fails long enough for the message to become visible).

`Fleet`:

* `at[i]` is the API call the execution `i` of `handler()` makes next; `enough[i]`
  keeps what it read of the queue, `forced[i]` where it came from. What it read of
  the group is used in the same step, as nothing comes between. The queue's depth
  counts visible messages only. A call that raises ends the execution
  (`ApiError`); a retry by Lambda is one more tick.
* `inst` is the instance the group counts, from `launching` to `working`, or
  `stuck` when its worker is gone for good; `dying` is one that was terminated
  and does not count any more. The group launches whenever `desired` is 1 and
  nothing counts.
* `aged[i]` says that an instance was launched while `i` was running. It stands
  for time: an execution ends within 30 s (the Lambda's timeout), an instance
  lives for at least `WORKER_IDLE_CAP_SEC` = 300 s, so an execution never sees
  both the launch and the end of the same instance. `polled` stands for another
  assumption on time: the bootstrap takes less than `WORKER_WALL_CAP_SEC`, so the
  worker polls before a cap ends it.
* The worker receives, processes (deletes or leaves) and, between two messages,
  reaches a cap; `SqsWorker` has the rest of it, and its `ServesFleet` says that the
  detailed worker does nothing else at the queue. `FleetView` maps it: an instance that
  works all the time, on which a process that dies leaves its message.
* The fault `heartbeat` lets the message in hand become visible, as `early_visible` of
  `SqsWorker` does.

`VisibilityHeartbeat`:

* `left` counts the units of time until the message becomes visible, `timer`
  those the thread still waits or its call still takes. `Pass` is a unit of
  time; nothing else takes any. A call reaches SQS (`Extend`, at any point of the
  call) or not, then returns; SQS refuses it for a message no longer in flight.
* `phase` follows `_process_shard` and `main()`: the block is entered, left with
  a result or an exception, joined for at most 5 s, and the message is deleted or
  left. The thread may still be in its call then.
* SQS's limit of 12 hours on the visibility of one receive is not modelled.

`Reconcile`:

* `at[p]` is the place of the unit's or the cron job's execution of `run.sh`,
  `etag[p]` and `stage[p]` are its variables; `unit` is the state of
  `aws-llm-bootstrap.service`, with the shim's two steps.
* Tarballs are numbered by upload; every upload has an etag of its own (`tar -czf`
  records the times of the files). An operator who copies an old object back is
  not modelled: its old etag may then meet an old marker.
* Of the playbook directory `dir` says which tarball came last, `torn` that a copy
  was cut short, `mixed` that files of other tarballs may be left, `coll` for which
  requirements there are collections. `rsync --delete` also removes the
  collections and both markers, in an order a crash may cut anywhere.
* `lock` is the holder of `LOCK_FILE`: a run by its fd 9, or the `flock` command
  of the cron job (`wrapper`), which are different open files.
* `OperatorRestart` (`systemctl restart`) kills the unit's processes first; it is
  the crash of this component. A lost instance starts again from `Init`.
* `starts` counts what systemd counts: every start of the unit, an operator's too, of
  which `StartLimitBurst` are allowed within an interval. Time is not modelled, so
  before any start the interval may be over or not; a start beyond the limit leaves
  the unit `given_up`, until an operator's start comes in a new interval.
* The playbook ends in two steps: its roles, of which the last installs the cron job
  (`RolesEnd`, which is when the instance is configured), and its `post_tasks`
  (`PlaybookEnd`), which touch the sentinel `bootstrap.done`. A failure in between
  makes systemd start the unit again, and the new `run.sh` may find the lock taken by
  a cron tick: it is skipped with status 0 and the sentinel is never touched. The same
  happens to an operator's restart. Nothing in the repository reads the sentinel
  (`sqs_worker.py:5-6` says that the worker's unit is gated on it; that unit is not), so
  `Configured` asks for the roles.

`Client`:

* `at[c]` is where the task of a call is: waiting for the semaphore (`queued`), in
  `client.extract()` with a request or a backoff, or `done`; `attempt[c]` is the loop
  variable, `timer[c]` the rest of the sleep. The slot is kept from `Acquire` to the end.
* Time is in seconds and only backoffs and outages measure it: a request takes as
  long as it takes. `down` is the rest of an outage, `cut[c]` that the request of `c`
  met one; it then fails. Anything else that ends a request without a valid answer
  (a refusal, the client's timeout, JSON that does not fit the schema) is a bad
  answer; `bad[c]` records one that the length of the text does not explain.
* A transcript is its length; `SentLength` is what `_truncate` sends of it, with the
  slices of Python, negative bounds included. A text longer than `Readable` gets no
  valid answer.

`SpotWatcher`:

* `ppc` is the place in `extract_batch.main()`, around the run of `ExtractBatch`;
  `resume` its flag, `final` its `final_status`. `wpc` is the place of the watcher,
  from the notice to the mark. Time is not modelled: the grace period ends at any
  point, and the instance goes (`Reclaim`) at any point after the notice.
* Writers cache the tables they load. `outdated` says that another commit came
  after the run loaded `calls_extractions`: every append of that process is then
  refused. `fresh` says whose copy of `experiment_runs` is the latest.
* A process that dies may leave a commit behind that lands later: rows (`zombie`)
  or a status (`late`). `disturbed` records a commit between the scan and the
  overwrite that the code does not retry: of another run, or a late one.
* The pidfile is written first thing and never removed, so it outlives the process:
  `pidfile` says whether it holds the pid of the current process or of an earlier one,
  `watched` whether the watcher has read the current one's. While a new process
  rewrites it, it is empty, which the watcher takes for none. That the number of an
  ended process is given to another program is not modelled.
* The operator runs it again on the same instance when it did not return 0 (`Rerun`), and
  on another one when the instance went (`Reclaim`), unless the run is over:
  nobody resumes a run that has returned 0 and whose row says success. One of the two is
  enough for nobody to resume it either (`Finished`); both may happen then.
* Every access to `experiment_runs` may fail (fault `status`), the answer of the first
  append may be lost. Others may commit to that table or to `calls_extractions`
  (`OtherRun`), once.

`QueryLambda`:

* `now` is the time since the invocation began, `spent` the time in the current
  call or sleep, both in seconds; `deadline` and `seen` are the handler's variables,
  `page` and `rows` those of the paginator's loop. `athena` and `size` belong to the
  query. A request is its template, which arguments are there and valid, and whether
  the SQL reads or writes.

## 3. Runs

| Run | Asks | Result |
|---|---|---|
| `worker_faults` | a shard of two calls and a test event; batches of 2, concurrency 2; failed and unacknowledged commits, failed scans, error rows, one SIGTERM, one crash: is a result ever dropped, is success durable, is a call lost without a SIGTERM, can a run go round for ever? | holds |
| `worker_ledger` | a shard announced twice, redelivered early; one crash, batches of two of three calls; every call but the scan, the commit's answer and the model may fail: duplicate rows, repeated extraction, a run that waits for ever, refinement of `ShardLedger` and of the worker in `Fleet` | holds |
| `worker_live` | a good shard, a poison shard, an unknown message, one crash: is every message resolved, does the good shard finish? | holds |
| `sigterm_loses_calls` | is a message deleted only when its shard is committed? | violated |
| `fleet` | two shards, a tick overlapping a force-scale, one fault of a failing API call, a failing launch or a lost instance, a heartbeat that may fail: do two instances ever overlap, is announced work always taken off the queue, does the fleet always go back to zero? | holds |
| `fleet_wedged` | does the fleet go back to zero when the terminate call may fail? | violated |
| `heartbeat` | the deployed numbers in units of 30 s (3600 s, 240 s, 600 s; a call takes up to 30 s, one may fail in a row), a shard of any length: is the message kept, is it given back? | holds |
| `reconcile` | three tarballs uploaded at any time, two with the same requirements; three failing commands, two restarts: does a playbook only run from one whole tarball with its collections, at least as new as the run saw; do runs exclude each other; is a new instance configured in spite of fewer failures and restarts than the start limit? | holds |
| `reconcile_stale` | does the cron job bring a new tarball to a running instance, when nothing fails? | violated |
| `client` | three calls, two of them longer than what may be sent, on two slots; the deployed attempts and backoffs, two outages: does a call fail for its length or for one outage, does each get its row, do the attempts implement the tasks of `ExtractBatch`? | holds |
| `spot` | two calls, committed one by one or together, up to three instances interrupted at any step, runs repeated after a failure, failing updates of the run's row, commits of dead processes that land late: does the mark stay on a process the watcher has signalled, is little lost, is a reported success true, is a call committed twice, is what the operator gives up running complete? | holds |
| `query` | nine kinds of requests, results of up to nine rows in pages of two, the deployed times: is the answer true, when does Lambda kill the invocation? | holds |

Bounds: two calls make batches that are partly committed; `MaxReceive` is 2 as
deployed; a message is received, redelivered and quarantined within it. One
SIGTERM and one crash (`MaxSigterms`, `MaxKills`) are enough for each of the
interleavings with `flush()`, the loop and the deletion; the theorems below have
no such bound (the constants are any naturals). `CommitEveryRows` 1 and 2 make
`add_row` commit alone or in batches, the time trigger is nondeterministic.

`MaxForces` 1 and `MaxFaults` 1 allow each overlap of a tick and a force-scale,
and each fault at each point, with `Threshold` 1 and `MaxReceive` 2 as deployed.
In `reconcile` three failures are `StartLimitBurst`, as deployed: the unit may give
up, and the run does not check deadlock as the system may stop there. Two restarts
and three failures let a run be cut, and its successor be cut again.
The heartbeat's clock needs no bound: `left` and `timer` only count down.
`client` has one call below and two above `MaxChars`, one far above, and a slot fewer
than calls; `MaxOutages` 2 is one more than the attempts must survive, so that the
precondition of `NoNeedlessError` matters. In `spot` the two calls fill a batch, or one is
committed before the other (the time trigger, a SIGTERM), so that runs begin with none,
one or both of them in the table; the first two instances may be
interrupted, so a resumed run is interrupted and resumed too. In `worker_ledger` three
calls make a full batch and a rest, with one slot, so that a task which kept its
slot would stop the calls behind it; error rows are left to `worker_faults` there, for the
number of states, and to the theorems. In `query` three pages
fit into the time that is left, five do not; a result may be empty, end within a page
or fill its last page.

Times that the code does not set are assumptions about the environment, with the
numbers the configurations give them: a heartbeat's call returns within 30 s and an Athena
call within 2 s (both boto3 clients keep their default timeouts and retries, which allow
more), an outage of the model server lasts less than 6 s (`RetryAssumption`: shorter than
the two backoffs together). `LeaseAssumption`, `TimeoutAssumption` and `RetryAssumption`
say what the properties need of them; where they do not hold, neither do `Owned`,
`KilledReading` and `NoNeedlessError`.

Fairness (`FairSpec`) of the worker: the process takes a step when it can, systemd starts it
again after a crash (`Restart=on-failure`), a visibility timeout ends. Nothing
forces uploads, faults, or a cap; `DISABLE_SELF_TERMINATE` is on in that run, as
`group_vars/all.yml` sets it. Of the fleet: the schedule fires every minute and
its executions go on, the group launches and terminates as asked, the worker
polls and reaches a cap (the caps are in force here), visibility timeouts end;
no force-scale, fault or upload has to happen. Of the heartbeat: time passes, the
thread goes on, and `join` returns; nothing makes the shard end. `heartbeat` does
not check deadlock, since one processing of one message ends. Of the reconcile
loop: the processes of the unit and of cron go on, systemd restarts a failed unit,
cron ticks. Of the client: the task of each call goes on when it can (a request ends by
its answer or by `request_timeout_s`, `asyncio.Semaphore` serves in order), and time
passes. Of the experiment: the process goes on, the operator repeats it with
`--resume` while it ends with another status than 0, and EC2 takes back what it announced
(`Reclaim \/ Finished`: after which the run is resumed, or over); nobody has to
interrupt, no late commit has to land, and the watcher need not run at all, since
the instance goes anyway. `spot` and `query` do not check deadlock, since an experiment
and an invocation end. `QueryLambda` has safety properties only: an invocation ends
because Lambda ends it.

### What the violations show

1. **A SIGTERM loses calls** (`sigterm_loses_calls`). The handler sets the stop
   event, `run()` breaks its loop and returns normally, no call ended in an
   error, `main()` returns 0, the worker deletes the message. The event is never
   cleared: every later shard of that process is deleted without being extracted.
2. **A failed terminate call wedges the fleet** (`fleet_wedged`). The worker logs
   the error and exits with status 0, which systemd's `Restart=on-failure` takes
   for a success; `desired` stays 1 and the dispatcher answers `already_running`
   at every tick. A bootstrap that fails for good has the same effect (fault
   `bootstrap` of `Fleet`).
3. **The cron job never reconciles** (`reconcile_stale`). It runs `flock -n` on the
   lock file that `run.sh` locks again through an open file of its own; each run
   finds its own parent holding the lock and is skipped. Once that is repaired,
   `Exclusive` is at stake: the shim unpacks without the lock, which is harmless while
   no run of the cron job gets past it.

Six more behaviours show in the passing runs as the hypotheses their properties
need:

* A SIGTERM duplicates rows: between the capture of the buffer and the append, or
  between the commit and the clear, the handler's `flush()` commits the same rows.
  `NoDuplicate` is therefore stated without SIGTERM, `FreshCommit` for a run that had
  none.
* A SIGTERM no longer stops the worker: from the first shard on the handler of
  the run is the installed one (`extract_batch.py:145`), and the worker's flag stays
  clear. `handler` of `SqsWorker` shows it.
* A failed scan re-extracts: the exception handler that `iceberg_writer.py` has for a
  missing table covers every error of the scan. `NoReextraction`, `NoDuplicate` and
  `FreshCommit` assume that scans do not fail.
* A late commit outdates a writer for the rest of its process, as nothing loads the
  table again (`iceberg_writer.py:167-180`): all further commits of that run are
  refused. Calls that finish then are lost with the process (`LossBounded` says
  `~outdated`) and extracted again by the next one (`Completed`).
* The watcher may mark a run it has not signalled. When a process is run again, the
  pidfile holds the pid of the one before until the new one has written its own; a
  notice read then makes the watcher signal a process that has ended, find it dead and mark
  the run interrupted while the new process starts (`spot_watcher.py:127-140`). That
  process goes on, unmolested, and overwrites the mark with its own status, or, if it
  read its row before the mark, has its status refused and leaves a run that may be
  complete as `interrupted`. A watcher that finds the process of its pid ended marks a
  finished run in the same way. `InterruptedSticks` therefore speaks of a pid that is the
  run's (`watched`), and `Completed` excuses a run that was marked after its end.
* A process that got SIGTERM may report success with calls missing: it stops
  dispatching, no call has failed, `main()` returns 0 and writes `success`. The watcher's
  mark corrects the row if the process ends in its grace period and the instance lasts
  until the mark; otherwise nothing does, and nobody resumes the run. `SuccessIsTrue` is
  stated for a process that had no SIGTERM, and `Completed` for an experiment that is not given
  up in that state (`GivenUp`).

What `heartbeat` shows beside that: the deployed interval survives one failed
call in a row, but not by the queue's 3600 s: the first tick replaces them by
600 s. With `WORKER_VIS_HEARTBEAT_S` of 300 s or more an extension is twice the
interval and no failure is survived (`LeaseAssumption`).

## 4. Proofs

`ExtractBatchProofs` holds what the worker and the experiment share: every step of a
run, of its writer and of its SIGTERM handler preserves `BatchInv` of `ExtractBatch` and
takes back no commit; every step of a run, the handler's apart, lowers `Rank`. The
invariant has the two properties `RowsKept` and `SuccessIsDurable` and what they need:
`FlushInv` (during a
flush the buffer only shrinks, and what was appended is in the table: without it the
clear after the append could drop rows), `AddingInv` (the same for the row whose
`add_row` is flushing), `SkipInv` (a skipped call is committed) and `PhaseInv` (which
tasks exist at each point of a run; a task is missing after the loop only because of
a SIGTERM).

`SqsWorkerProofs` proves, for every set of messages, shards and calls, every
batch size, concurrency, `MaxReceive` and set of faults:

* `TypeCorrect`, `RowsAreKept`, `SuccessDurable`, `NoLossButBySigterm`
  (`Spec => []P` for the four invariants of `worker_faults`). `IInv` of `SqsWorker` adds
  `WorkerInv` to `BatchInv`: the input of the run is the shard of the current message,
  and a shard that was processed with success is committed or there was a SIGTERM.
* `CommittedNotReextracted`: if `"scan" \notin Faults`, the action property
  `NoReextraction`. It needs `SkipFresh` too: nothing is committed between the scan and
  the tasks, so the skip set is still complete.
* `RowsAreUniqueTillSigterm`: before the first SIGTERM no call has two success rows, if
  scans do not fail and no answer of a commit is lost; `RowsAreUnique` is the case of
  instances without SIGTERM. `UniqueInv` says that a success row is in one place only,
  with its unfinished task, in the buffer or in the table, except between the commit
  and the clear. It needs `SkipFresh` when a task is created.
* `LedgerTillSigterm`, without any hypothesis on the faults: the initial states of
  `SqsWorker` map to those of `ShardLedger`, and every step up to the first SIGTERM to a
  step or a stutter; `WorkerImplementsLedger` is the refinement where no SIGTERM comes.
  `AskedInv` adds to the invariant that what is committed was asked for by the message
  in hand, and (`HeldInv`) that this message was received and is still in the queue.
  After a SIGTERM the refinement fails, by the first violation above.
* `WorkerServesFleet`: every step of the worker, signals and crashes included, is at the
  queue a step of the worker in `Fleet` or none. This links the two compositions: the
  safety results on the fleet are about a worker that may do whatever the detailed one
  does. The fairness that `Fleet` assumes of its worker is not derived from `SqsWorker`.
* `RunsAdvance` and `RankIsNatural`: while a run lasts, its own steps lower `Rank`, nothing
  else raises it, and it is a natural number. `Rank` counts three steps of every call
  that is not through them, and the places of the `flush()` between two. So a run makes
  finitely many steps whatever fails in it, a SIGTERM included (whose handler flushes
  in a step of its own and leaves the place of the main flow alone). That is the safety
  half of `Resolved`; that a step is always possible (`RunNeverStuck`) needs ENABLED and
  stays with TLC.
  `Calls` is assumed to be finite here: it is what is in the uploaded files.

TLC checked `IInv` and the other invariants of this section before they were proved.

`FleetProofs` proves, for any number of messages and of overlapping executions:

* `FleetTypeCorrect`: among the types, `desired <= max_size`, whatever the
  executions read and when;
* `InstancesDoNotOverlap`. The invariant (`IInv` of `Fleet`) says that an
  instance that counts has `desired = 1` and a dying one `desired = 0`, and that
  an execution which passed `desired = 0` either finds no instance or has seen its
  launch (`aged`), so that one cannot start to die before the execution ends.
  Without the last part the invariant is not inductive: the check of the
  activities is older than the call that follows it.

`VisibilityHeartbeatProofs` proves, for all numbers that satisfy
`LeaseAssumption`:

* `HeartbeatTypeCorrect`: no extension exceeds the queue's timeout;
* `MessageIsOwned`. The invariant (`LeaseInv`) says that the time left covers the
  rest of the wait, the call, and a whole period for every failure still to come.

`ReconcileProofs` proves, for any number of tarballs, restarts and failures,
`ReconcileTypeCorrect`, `RunsExclude`, `PlaybookIsWhole` and `PlaybookIsCurrent`.
Four parts make the invariant (`IInv` of `Reconcile`). `CronInv`: a run of the
cron job never passes `flock`, as its wrapper holds the lock, so only the unit's
run changes the directory. `UnitInv`: what was unpacked is not newer than the
bucket, and what is about to be unpacked not older than the directory.
`MarkerInv`: while files may be mixed the marker is behind them, so that no run
takes them for current, and the galaxy marker of an unmixed directory belongs to
its requirements and collections. `RunInv` carries these facts from place to
place in `run.sh`, up to the playbook's `post_tasks`. Because of `CronInv` the first
theorem says little about a repaired lock; see the third violation.

`ClientProofs` proves, for any calls, lengths and numbers of outages:

* `ClientTypeCorrect`; `NoErrorIsNeedless`, from `RetryAssumption` (an outage is
  shorter than the two backoffs together) and `TruncateAssumption` (the marker leaves
  room, what may be sent can be read). The invariant relates the rest of the outage
  to the backoffs a call has slept already (`OutageAt`): a call that met the outage
  sends its last attempt after the end of it.
* `AttemptsImplementTasks`: each step is a step of a task of `ExtractBatch` or none of
  its business; a task runs only within the limit of the semaphore.

`SpotWatcherProofs` proves, for any calls, batch sizes and numbers of instances:

* `SpotTypeCorrect` and `MarkSticks`: of the process whose pid the watcher has read, no
  status replaces the mark. `WatchInv` says that past the grace period that process is
  dead and, once the mark is made, no status of it is under way; of a process started
  after the pid was read it says nothing, and such a process does replace the mark.
* `CommitsAreFresh`, if scans do not fail and no answer of a commit is lost.
  `MemoryInv` says what is empty at each point and that an outdated writer appends in
  vain, `FirstInv` that the process that reads no skip set finds an empty table,
  `FreshInv` that what has still to be extracted or committed is not in the table.
* `ReportedSuccessIsTrue`, for all faults: a process that had no SIGTERM reports success
  only when every call is committed, whoever committed it. Here `PhaseInv` and
  `SuccessIsDurable` of the run do the work, with the input of `MemoryInv`.
* `FewCallsAreLost`, if commits are neither refused nor unacknowledged and no call
  ends as an error. `LossInv` says that a finished call that is not committed has
  its row in the buffer, which is smaller than a batch but for the row of `add_row`.
  The call of that row is not over while its `add_row` commits: a death in the middle of
  the commit costs a whole batch with it.

`QueryLambdaProofs` proves, for all times, page sizes and results, `TypeCorrect`,
`AnswersTruly` and `KilledOnlyReading`; `TimeoutAssumption` says that the start of the
query, all polls and the last sleep fit into Lambda's timeout. `TimeInv` bounds the
clock at each point of the handler, `PageInv` says how far the rows have come.

Assumed: the named assumptions on constants in the component modules; in `Fleet`
also the two on time that are guards of `SelfTerminate`.
Only model-checked: liveness, which is beyond the proof system's reach, as is
`ENABLED` (`Resolved`, `HealthyShardFinishes`, `Drained`, `ScaledBack`, `LeftIsRetried`,
`Configured`, `Answered`, `Completed`, and the invariant `RunNeverStuck`). Every other
invariant and every action property of the passing runs is proved, some under
hypotheses on the faults that the theorem states.

## 5. Not modelled

Within the modelled components:

* worker: duplicate call ids inside one file, two S3 keys that collide in
  `_derive_run_id`, further records of an event with several (`records[0]` only), a
  second SIGTERM during the handler, SQS retention (14 days), two workers at once
  (`NoOverlap` of `Fleet`), the systemd start limit. `finish_experiment_run` does
  nothing for the worker, as with `--resume` no row was started; it is in `SpotWatcher`;
* writer: `append_many` and `record_bench_measurement` (single appends that nothing
  reads back), the local mode that writes files;
* client: the retries the openai library makes by itself, which make one request last
  longer; that the HTTP client outlives the event loop it was made in
  (`client.py:57`), whose effect depends on that library;
* spot watcher: a watcher that runs without `RUN_ID`, and marks nothing, the
  reuse of a process id, the metadata service's tokens. No Ansible role installs
  the watcher: the model has it beside the run, as its docstring says;
* query Lambda: the text of the SQL and the stripping of comments before the
  read-only check. Two things show in the model that nothing promises otherwise:
  after a 504 or a kill the query goes on in Athena, and a limit that `int()` answers
  with a `TypeError` raises out of the handler.

Left out altogether: schema, features and metrics (functions of one record, and a
metrics upload, without protocol or shared state), configuration, Terraform and
Ansible roles (declarative provisioning), the Go experiments (drivers; read for their
expectations).

## 6. Order of work

Each step builds on the ones before it; all are done.

1. `IcebergWriter`, `ExtractBatch`, `JobsQueue`, `SqsWorker`, `ShardLedger`.
2. `Fleet`, `VisibilityHeartbeat` and their proofs.
3. `Reconcile` and its proofs.
4. `Client`, `SpotWatcher`, `QueryLambda` and their proofs.
5. Unique rows, the refinement of `ShardLedger`.
6. `ExtractBatchProofs` for both compositions of the run; the worker as that of `Fleet`,
   the end of a run, the truth of a reported success.

Left for later: the HTTP client shared between event loops, and several instances of
the worker, which the auto-scaling group of one does not allow today.
