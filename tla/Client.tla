--------------------------------- MODULE Client ---------------------------------
(***************************************************************************)
(* What a task of runner.run() does between getting the semaphore and      *)
(* handing over a row: extract_lib/client.extract() sends the (truncated)  *)
(* transcript to vLLM, up to MaxAttempts times, with a backoff that        *)
(* doubles.  The semaphore is kept during the backoff.                     *)
(*                                                                         *)
(* Time is discrete and only the backoff measures it.  A request may take  *)
(* any time; one that the server, or the client's own timeout, ends for a  *)
(* reason other than an outage is a bad answer.  A transcript is its       *)
(* length.                                                                 *)
(***************************************************************************)
EXTENDS Integers, FiniteSets

CONSTANTS
  Calls,
  Concurrency,     \* cfg.concurrency
  LengthOf,        \* len() of each call's transcript
  MaxChars,        \* cfg.max_transcript_chars
  MarkerLength,    \* len(_TRUNC_MARKER)
  Readable,        \* the longest text the model does not answer with nothing
  BackoffBase,     \* _BACKOFF_BASE_SEC
  MaxOutage,       \* how long the server is away at a time
  MaxOutages       \* bound of the model: how often it is

MaxAttempts == 3

ASSUME ClientAssumption ==
  /\ IsFiniteSet(Calls)
  /\ Concurrency \in Nat \ {0}
  /\ LengthOf \in [Calls -> Nat]
  /\ MaxChars \in Nat /\ MarkerLength \in Nat /\ Readable \in Nat
  /\ BackoffBase \in Nat /\ MaxOutage \in Nat \ {0}
  /\ MaxOutages \in Nat

(* What makes retries and truncation do their work: the backoffs of a call *)
(* outlast an outage, the marker leaves room for some of the transcript.   *)
ASSUME RetryAssumption == MaxOutage < BackoffBase + 2 * BackoffBase
ASSUME TruncateAssumption == MarkerLength < MaxChars /\ MaxChars <= Readable

VARIABLES
  at,        \* where the task of each call is
  attempt,   \* its attempt, from 0
  timer,     \* the rest of its backoff
  cut,       \* its request met an outage
  bad,       \* a text the model can read had a bad answer
  status,    \* extraction_status of its row
  down,      \* the rest of the outage
  outages    \* how many there were

vars == <<at, attempt, timer, cut, bad, status, down, outages>>

Backoff(a) == IF a = 0 THEN BackoffBase ELSE 2 * BackoffBase

TypeOK ==
  /\ at \in [Calls -> {"queued", "request", "backoff", "done"}]
  /\ attempt \in [Calls -> 0 .. MaxAttempts - 1]
  /\ timer \in [Calls -> 0 .. 2 * BackoffBase]
  /\ cut \in [Calls -> BOOLEAN]
  /\ bad \in [Calls -> BOOLEAN]
  /\ status \in [Calls -> {"none", "success", "error"}]
  /\ down \in 0 .. MaxOutage
  /\ outages \in 0 .. MaxOutages

Init ==
  /\ at = [c \in Calls |-> "queued"]
  /\ attempt = [c \in Calls |-> 0]
  /\ timer = [c \in Calls |-> 0]
  /\ cut = [c \in Calls |-> FALSE]
  /\ bad = [c \in Calls |-> FALSE]
  /\ status = [c \in Calls |-> "none"]
  /\ down = 0
  /\ outages = 0

-----------------------------------------------------------------------------
(* _truncate, with the slices of Python: text[:k] and text[-k:] for any k. *)

AtLeast0(n) == IF n < 0 THEN 0 ELSE n
Shorter(m, n) == IF m < n THEN m ELSE n
Head(n, k) == IF k >= 0 THEN Shorter(k, n) ELSE AtLeast0(n + k)
Tail(n, k) == IF k > 0 THEN Shorter(k, n) ELSE AtLeast0(n + k)

SentLengthPlusMarker(n) ==  \* variant: the marker is not counted
  IF MaxChars = 0 \/ n <= MaxChars THEN n
  ELSE Head(n, MaxChars \div 2) + MarkerLength + Tail(n, MaxChars - MaxChars \div 2)

SentLength(n) ==
  LET budget == MaxChars - MarkerLength
      head == budget \div 2
  IN  IF MaxChars = 0 \/ n <= MaxChars THEN n
      ELSE Head(n, head) + MarkerLength + Tail(n, budget - head)

-----------------------------------------------------------------------------
(* The attempts.                                                           *)

Active == {c \in Calls : at[c] \in {"request", "backoff"}}

AcquireAlways(c) ==  \* variant: the slot is not kept in the backoff
  /\ at[c] = "queued"
  /\ Cardinality({d \in Calls : at[d] = "request"}) < Concurrency
  /\ at' = [at EXCEPT ![c] = "request"]
  /\ cut' = [cut EXCEPT ![c] = down > 0]
  /\ UNCHANGED <<attempt, timer, bad, status, down, outages>>

Acquire(c) ==
  /\ at[c] = "queued"
  /\ Cardinality(Active) < Concurrency
  /\ at' = [at EXCEPT ![c] = "request"]
  /\ cut' = [cut EXCEPT ![c] = down > 0]
  /\ UNCHANGED <<attempt, timer, bad, status, down, outages>>

FailedForever(c) ==  \* variant: the attempts are not counted
  /\ at' = [at EXCEPT ![c] = "backoff"]
  /\ timer' = [timer EXCEPT ![c] = Backoff(attempt[c])]
  /\ UNCHANGED status

(* _sleep_backoff, or the error row once the attempts are used up.         *)
Failed(c) ==
  \/ /\ attempt[c] + 1 < MaxAttempts
     /\ at' = [at EXCEPT ![c] = "backoff"]
     /\ timer' = [timer EXCEPT ![c] = Backoff(attempt[c])]
     /\ UNCHANGED status
  \/ /\ attempt[c] + 1 = MaxAttempts
     /\ at' = [at EXCEPT ![c] = "done"]
     /\ status' = [status EXCEPT ![c] = "error"]
     /\ UNCHANGED timer

(* The request raises because the server is away.                          *)
ApiError(c) ==
  /\ at[c] = "request"
  /\ cut[c]
  /\ Failed(c)
  /\ UNCHANGED <<attempt, cut, bad, down, outages>>

(* A timeout or a 5xx, no content, no JSON, or JSON that does not validate.*)
(* A text that is too long is answered with empty content every time: that *)
(* is the fault of the truncation, not of the server.                      *)
BadAnswer(c) ==
  /\ at[c] = "request"
  /\ ~cut[c]
  /\ bad' = [bad EXCEPT ![c] = @ \/ SentLength(LengthOf[c]) <= Readable]
  /\ Failed(c)
  /\ UNCHANGED <<attempt, cut, down, outages>>

ValidAnswer(c) ==
  /\ at[c] = "request"
  /\ ~cut[c]
  /\ SentLength(LengthOf[c]) <= Readable
  /\ at' = [at EXCEPT ![c] = "done"]
  /\ status' = [status EXCEPT ![c] = "success"]
  /\ UNCHANGED <<attempt, timer, cut, bad, down, outages>>

RetryAtOnce(c) ==  \* variant: the coroutine of the backoff is not awaited
  /\ at[c] = "backoff"
  /\ at' = [at EXCEPT ![c] = "request"]
  /\ attempt' = [attempt EXCEPT ![c] = @ + 1]
  /\ timer' = [timer EXCEPT ![c] = 0]
  /\ cut' = [cut EXCEPT ![c] = down > 0]
  /\ UNCHANGED <<bad, status, down, outages>>

RetryUncounted(c) ==  \* variant: the loop does not count
  /\ at[c] = "backoff"
  /\ timer[c] = 0
  /\ at' = [at EXCEPT ![c] = "request"]
  /\ cut' = [cut EXCEPT ![c] = down > 0]
  /\ UNCHANGED <<attempt, timer, bad, status, down, outages>>

Retry(c) ==
  /\ at[c] = "backoff"
  /\ timer[c] = 0
  /\ at' = [at EXCEPT ![c] = "request"]
  /\ attempt' = [attempt EXCEPT ![c] = @ + 1]
  /\ cut' = [cut EXCEPT ![c] = down > 0]
  /\ UNCHANGED <<timer, bad, status, down, outages>>

-----------------------------------------------------------------------------
(* The server and the clock.                                               *)

(* The server goes away, for a time, and the requests it has are lost.     *)
Outage ==
  /\ down = 0
  /\ outages < MaxOutages
  /\ outages' = outages + 1
  /\ down' \in 1 .. MaxOutage
  /\ cut' = [c \in Calls |-> cut[c] \/ at[c] = "request"]
  /\ UNCHANGED <<at, attempt, timer, bad, status>>

Pass ==
  /\ down' = AtLeast0(down - 1)
  /\ timer' = [c \in Calls |-> AtLeast0(timer[c] - 1)]
  /\ UNCHANGED <<at, attempt, cut, bad, status, outages>>

TaskStep(c) ==
  Acquire(c) \/ ApiError(c) \/ BadAnswer(c) \/ ValidAnswer(c) \/ Retry(c)

Next ==
  \/ \E c \in Calls : TaskStep(c)
  \/ Outage
  \/ Pass

Spec == Init /\ [][Next]_vars

(* A task goes on when it can: its request ends by the answer or by        *)
(* request_timeout_s, the semaphore is given to whoever waits for it.      *)
FairSpec ==
  /\ Spec
  /\ \A c \in Calls : WF_vars(TaskStep(c))
  /\ WF_vars(Pass)

-----------------------------------------------------------------------------
(* Properties.                                                             *)

(* client.py:18-19, extract_batch.py:32-38: a call whose transcript any    *)
(* length may have does not become an error row because of its length, nor *)
(* because of one outage whenever it comes: the last attempt is sent after *)
(* its end.                                                                *)
NoNeedlessError ==
  \A c \in Calls : status[c] = "error" => bad[c] \/ outages > 1

(* Every call gets a row, even if the server never gives a valid answer.   *)
Answered == \A c \in Calls : at[c] = "queued" ~> status[c] # "none"

(* The tasks of ExtractBatch, whose calls of extract() have no attempts:   *)
(* the attempts, slots and backoffs implement them.                        *)
Tasks ==
  [c \in Calls |->
    CASE at[c] = "queued" -> "queued"
      [] at[c] \in {"request", "backoff"} -> "running"
      [] OTHER -> status[c]]

Rows == {[call |-> c, status |-> status[c]] : c \in {d \in Calls : at[d] = "done"}}

Batch == INSTANCE ExtractBatch WITH
           CommitEveryRows <- Cardinality(Calls) + 1, Faults <- {"llm"},
           buffer <- Rows, fpc <- "none", rows <- {}, stale <- FALSE,
           table <- [r \in [call : Calls, status : {"success", "error"}] |-> 0],
           rpc <- "gather", stop <- FALSE, skip <- {}, task <- Tasks,
           adding <- {}, input <- Calls, malformed <- FALSE

ImplementsTasks ==
  [][\E c \in Calls :
       \/ Batch!TaskStart(c)
       \/ \E s \in {"success", "error"} : Batch!TaskExtracted(c, s)]_<<Tasks, Rows>>

-----------------------------------------------------------------------------
(* The strengthening of NoNeedlessError: while a call has only met one     *)
(* outage, the rest of it is shorter by the backoffs the call has slept.   *)

Slept(a) == IF a = 0 THEN 0 ELSE IF a = 1 THEN BackoffBase ELSE 3 * BackoffBase

OutageAt(c) ==
  ~bad[c] /\ outages <= 1 =>
    /\ at[c] \in {"request", "backoff"} /\ (attempt[c] > 0 \/ at[c] = "backoff" \/ cut[c])
         => outages = 1
    /\ at[c] = "request" /\ down > 0 => down + Slept(attempt[c]) <= MaxOutage
    /\ at[c] = "request" /\ attempt[c] = MaxAttempts - 1 => ~cut[c]
    /\ at[c] = "backoff" =>
         /\ attempt[c] < MaxAttempts - 1
         /\ timer[c] < down => down - timer[c] + Slept(attempt[c] + 1) <= MaxOutage

TaskAt(c) ==
  /\ at[c] = "queued" => attempt[c] = 0 /\ status[c] = "none"
  /\ at[c] = "backoff" => attempt[c] < MaxAttempts - 1
  /\ at[c] # "done" => status[c] = "none"
  /\ at[c] = "done" => status[c] # "none"

ErrorAt(c) == status[c] = "error" => bad[c] \/ outages > 1

CallInv(c) == TaskAt(c) /\ OutageAt(c) /\ ErrorAt(c)

IInv ==
  /\ TypeOK
  /\ down > 0 => outages > 0
  /\ \A c \in Calls : CallInv(c)
=============================================================================
