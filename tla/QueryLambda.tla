------------------------------ MODULE QueryLambda ------------------------------
(***************************************************************************)
(* One invocation of the query Lambda (lambda/query/handler.py) and the    *)
(* Athena query it starts.  Time is in seconds: a call of Athena takes up  *)
(* to CallTime, a poll is followed by a sleep of PollInterval, and Lambda  *)
(* kills the invocation at LambdaTimeout.                                  *)
(*                                                                         *)
(* A result is its number of rows; item 0 is the header that Athena puts   *)
(* before the rows 1, 2, ... in the first page.                            *)
(***************************************************************************)
EXTENDS Integers, Sequences

CONSTANTS
  Requests,        \* records: env, template, args, sql (see Resolved)
  MaxPoll,         \* _MAX_POLL_SECONDS
  PollInterval,    \* _POLL_INTERVAL_SECONDS
  LambdaTimeout,   \* timeout of aws_lambda_function.aws_llm_table_query
  CallTime,        \* the longest a call of Athena takes
  PageSize,        \* items in a page of GetQueryResults
  MaxRows          \* bound of the model: rows of a result

ASSUME QueryAssumption ==
  /\ MaxPoll \in Nat \ {0} /\ PollInterval \in Nat \ {0}
  /\ LambdaTimeout \in Nat /\ CallTime \in Nat
  /\ PageSize \in Nat \ {0} /\ MaxRows \in Nat

(* Starting the query, all polls and the last sleep fit into the timeout.  *)
ASSUME TimeoutAssumption ==
  2 * CallTime + MaxPoll + PollInterval <= LambdaTimeout

VARIABLES
  request, pc,
  now,         \* time since the invocation began
  spent,       \* time in the current call or sleep
  deadline,
  seen,        \* local variable state of the handler
  page,        \* pages read so far
  rows,
  answer,      \* the status code; 0: none, Raised or Killed: no response
  athena,      \* the state of the query; "none": not started
  size         \* rows of its result

vars == <<request, pc, now, spent, deadline, seen, page, rows, answer, athena, size>>

Raised == 1
Killed == 2
Final == {"SUCCEEDED", "FAILED", "CANCELLED"}
InCall == {"start", "poll", "page"}

TypeOK ==
  /\ request \in Requests
  /\ pc \in {"resolve", "check", "sleep", "done"} \cup InCall
  /\ now \in 0 .. LambdaTimeout
  /\ spent \in Nat
  /\ deadline \in 0 .. LambdaTimeout + MaxPoll
  /\ seen \in {"QUEUED", "RUNNING"} \cup Final
  /\ page \in 0 .. MaxRows
  /\ rows \in Seq(Nat)
  /\ answer \in {0, Raised, Killed, 200, 400, 500, 504}
  /\ athena \in {"none", "QUEUED", "RUNNING"} \cup Final
  /\ size \in 0 .. MaxRows

Init ==
  /\ request \in Requests
  /\ pc = "resolve"
  /\ now = 0 /\ spent = 0 /\ deadline = 0
  /\ seen = "QUEUED"
  /\ page = 0 /\ rows = <<>>
  /\ answer = 0
  /\ athena = "none" /\ size = 0

-----------------------------------------------------------------------------
(* templates.render: a parameter is "good", "bad" (ValueError) or, for the *)
(* limit, "odd": int() raises a TypeError.                                 *)

Templates ==
  {"list_runs", "summarize_run", "compare_concurrency", "failed_calls", "field_disagreement"}

Required(t) ==
  CASE t \in {"summarize_run", "failed_calls"} -> {"run_id"}
    [] t = "compare_concurrency" -> {"test_name"}
    [] t = "field_disagreement" -> {"run_a", "run_b", "field"}
    [] OTHER -> {}

Limit(t, args) ==
  IF t \in {"list_runs", "failed_calls"} /\ "limit" \in DOMAIN args THEN args["limit"] ELSE "good"

Rendered(t, args) ==
  IF \/ t \notin Templates
     \/ \E p \in Required(t) : p \notin DOMAIN args \/ args[p] # "good"
     \/ Limit(t, args) = "bad"
  THEN "error"
  ELSE IF Limit(t, args) = "odd" THEN "raise" ELSE "read"

(* What the handler makes of the event: a query, an answer or an exception.*)
Resolved(r) ==
  LET sql == IF r.template # "none" THEN Rendered(r.template, r.args) ELSE r.sql
  IN  IF ~r.env THEN 500
      ELSE IF sql = "raise" THEN Raised
      ELSE IF sql = "read" THEN 0
      ELSE 400  \* template error, no SQL, or not SELECT or WITH

-----------------------------------------------------------------------------
(* The handler.                                                            *)

Goto(l) == pc' = l /\ spent' = 0
Answer(a) == Goto("done") /\ answer' = a

Resolve ==
  /\ pc = "resolve"
  /\ IF Resolved(request) = 0
     THEN Goto("start") /\ UNCHANGED answer
     ELSE Answer(Resolved(request))
  /\ UNCHANGED <<request, now, deadline, seen, page, rows, athena, size>>

StartReturn ==
  /\ pc = "start"
  /\ athena' = "QUEUED"
  /\ deadline' = now + MaxPoll
  /\ Goto("check")
  /\ UNCHANGED <<request, now, seen, page, rows, answer, size>>

(* The query may have been started all the same.                           *)
StartFail ==
  /\ pc = "start"
  /\ athena' \in {"none", "QUEUED"}
  /\ Answer(500)
  /\ UNCHANGED <<request, now, deadline, seen, page, rows, size>>

CheckNoDeadline ==  \* variant: while True
  /\ pc = "check"
  /\ Goto("poll")
  /\ UNCHANGED <<request, now, deadline, seen, page, rows, answer, athena, size>>

Check ==
  /\ pc = "check"
  /\ IF now < deadline THEN Goto("poll") /\ UNCHANGED answer ELSE Answer(504)
  /\ UNCHANGED <<request, now, deadline, seen, page, rows, athena, size>>

PollReturn ==
  /\ pc = "poll"
  /\ seen' = athena
  /\ \/ athena = "SUCCEEDED" /\ Goto("page") /\ UNCHANGED answer
     \/ athena \in {"FAILED", "CANCELLED"} /\ Answer(400)
     \/ athena \notin Final /\ Goto("sleep") /\ UNCHANGED answer
  /\ UNCHANGED <<request, now, deadline, page, rows, athena, size>>

(* Nothing catches an exception of get_query_execution.                    *)
PollRaise ==
  /\ pc = "poll"
  /\ Answer(Raised)
  /\ UNCHANGED <<request, now, deadline, seen, page, rows, athena, size>>

Wake ==
  /\ pc = "sleep"
  /\ spent >= PollInterval
  /\ Goto("check")
  /\ UNCHANGED <<request, now, deadline, seen, page, rows, answer, athena, size>>

(* Page k has the items k * PageSize, ... of 0 .. size.                    *)
IsLast(k) == size < (k + 1) * PageSize
LastItem(k) == IF IsLast(k) THEN size ELSE (k + 1) * PageSize - 1
Items(m, n) == [i \in 1 .. n - m + 1 |-> m + i - 1]

PageRowsNoHeader(k) == Items(k * PageSize + 1, LastItem(k))  \* variant: first stays TRUE
PageRows(k) == Items(IF k = 0 THEN 1 ELSE k * PageSize, LastItem(k))

PageForever ==  \* variant: the paginator does not see the last page
  /\ pc = "page"
  /\ rows' = rows \o PageRows(page)
  /\ page' = page + 1
  /\ Goto("page")
  /\ UNCHANGED <<request, now, deadline, seen, answer, athena, size>>

PageReturn ==
  /\ pc = "page"
  /\ rows' = rows \o PageRows(page)
  /\ IF IsLast(page)
     THEN Answer(200) /\ UNCHANGED page
     ELSE Goto("page") /\ page' = page + 1 /\ UNCHANGED answer
  /\ UNCHANGED <<request, now, deadline, seen, athena, size>>

PageFail ==
  /\ pc = "page"
  /\ Answer(500)
  /\ UNCHANGED <<request, now, deadline, seen, page, rows, athena, size>>

-----------------------------------------------------------------------------
(* Athena, Lambda and the clock.                                           *)

(* Queries run, succeed with some result, fail or are cancelled.           *)
AthenaStep ==
  /\ athena \in {"QUEUED", "RUNNING"}
  /\ \/ athena = "QUEUED" /\ athena' = "RUNNING" /\ UNCHANGED size
     \/ athena = "RUNNING" /\ athena' = "SUCCEEDED" /\ size' \in 0 .. MaxRows
     \/ athena' \in {"FAILED", "CANCELLED"} /\ UNCHANGED size
  /\ UNCHANGED <<request, pc, now, spent, deadline, seen, page, rows, answer>>

Tick ==
  /\ \/ pc \in InCall /\ spent < CallTime
     \/ pc = "sleep" /\ spent < PollInterval
  /\ now < LambdaTimeout
  /\ now' = now + 1
  /\ spent' = spent + 1
  /\ UNCHANGED <<request, pc, deadline, seen, page, rows, answer, athena, size>>

Kill ==
  /\ pc # "done"
  /\ now = LambdaTimeout
  /\ Answer(Killed)
  /\ UNCHANGED <<request, now, deadline, seen, page, rows, athena, size>>

Next ==
  \/ Resolve \/ StartReturn \/ StartFail \/ Check \/ PollReturn \/ PollRaise
  \/ Wake \/ PageReturn \/ PageFail
  \/ AthenaStep \/ Tick \/ Kill

Spec == Init /\ [][Next]_vars

-----------------------------------------------------------------------------
(* Properties.                                                             *)

CountsTo(s, n) == Len(s) = n /\ \A i \in 1 .. n : s[i] = i

(* What the caller is told is what happened: 200 comes with every row of   *)
(* the result once, in order and without the header; only a query that     *)
(* cannot be started is refused; a query that is said to have failed did;  *)
(* 504 is not said of a query seen to end, nor before MaxPoll seconds.     *)
AnswerTrue ==
  /\ answer = 200 => athena = "SUCCEEDED" /\ CountsTo(rows, size)
  /\ answer = 400 => athena \in {"none", "FAILED", "CANCELLED"}
  /\ answer = 400 /\ athena = "none" => Resolved(request) = 400
  /\ answer = 504 => seen \notin Final /\ now >= MaxPoll

(* An invocation is killed only while it reads the result, and only for    *)
(* its many pages, never for waiting: the handler's own limit leaves the   *)
(* rest of LambdaTimeout for the pages.                                    *)
KilledReading ==
  answer = Killed =>
    /\ athena = "SUCCEEDED"
    /\ (page + 1) * CallTime > LambdaTimeout - 2 * CallTime - MaxPoll

-----------------------------------------------------------------------------
(* The strengthening: where the handler is in time and in the result.      *)

PcInv ==
  /\ pc # "done" <=> answer = 0
  /\ pc \in {"resolve", "start", "check", "poll", "sleep"} =>
       page = 0 /\ rows = <<>> /\ seen \notin Final
  /\ pc \in {"resolve", "start"} => athena = "none"
  /\ pc \in {"check", "poll", "sleep"} => athena # "none"
  /\ pc = "page" => athena = "SUCCEEDED"

TimeInv ==
  /\ pc = "resolve" => now = 0
  /\ pc = "start" => now = spent /\ spent <= CallTime
  /\ pc \in {"check", "poll", "sleep", "page"} => deadline \in MaxPoll .. MaxPoll + CallTime
  /\ pc = "check" => now < deadline + CallTime + PollInterval
  /\ pc = "poll" => now - spent < deadline /\ spent <= CallTime
  /\ pc = "sleep" => now - spent < deadline + CallTime /\ spent <= PollInterval
  /\ pc = "page" => now - spent < deadline + CallTime + page * CallTime /\ spent <= CallTime

PageInv ==
  pc = "page" =>
    /\ page * PageSize <= size
    /\ CountsTo(rows, IF page = 0 THEN 0 ELSE page * PageSize - 1)

IInv == TypeOK /\ PcInv /\ TimeInv /\ PageInv /\ AnswerTrue /\ KilledReading
=============================================================================
