------------------------------ MODULE ClientProofs ------------------------------
(***************************************************************************)
(* For every set of calls, transcript lengths, backoffs and outages: no    *)
(* call fails because of its length or of one outage, and the attempts     *)
(* implement the tasks of ExtractBatch.                                    *)
(***************************************************************************)
EXTENDS Client, FiniteSetTheorems, TLAPS

(* A transcript of any length is sent with no more than MaxChars.          *)
LEMMA SentIsReadable ==
  ASSUME NEW n \in Nat
  PROVE  SentLength(n) <= Readable
<1>1. /\ MaxChars \in Nat /\ MarkerLength \in Nat /\ Readable \in Nat
      /\ MarkerLength < MaxChars /\ MaxChars <= Readable
  BY ClientAssumption, TruncateAssumption
<1> DEFINE budget == MaxChars - MarkerLength
           head == budget \div 2
<1>2. budget \in Nat \ {0} /\ head \in Nat /\ budget - head \in Nat \ {0}
  BY <1>1
<1> HIDE DEF head
<1>3. Head(n, head) <= head /\ Head(n, head) \in Nat
  BY <1>2 DEF Head, Shorter
<1>4. Tail(n, budget - head) <= budget - head /\ Tail(n, budget - head) \in Nat
  BY <1>2 DEF Tail, Shorter
<1>5. /\ Head(n, head) + MarkerLength + Tail(n, budget - head) <= MaxChars
      /\ Head(n, head) + MarkerLength + Tail(n, budget - head) \in Nat
  BY <1>1, <1>2, <1>3, <1>4
<1>6. SentLength(n) = IF n <= MaxChars THEN n
                      ELSE Head(n, head) + MarkerLength + Tail(n, budget - head)
  BY <1>1 DEF SentLength, head
<1>7. CASE n <= MaxChars
  BY <1>1, <1>6, <1>7
<1>8. CASE n > MaxChars
  BY <1>1, <1>5, <1>6, <1>8
<1> QED
  BY <1>1, <1>7, <1>8

-----------------------------------------------------------------------------
(* Every step keeps the invariant of every call.                           *)

LEMMA Numbers ==
  /\ BackoffBase \in Nat /\ MaxOutage \in Nat \ {0} /\ MaxOutages \in Nat
  /\ MaxOutage < 3 * BackoffBase
BY ClientAssumption, RetryAssumption

(* The variables of a call that a step does not touch.                     *)
LEMMA CallUntouched ==
  ASSUME NEW c \in Calls, CallInv(c), UNCHANGED <<down, outages>>,
         at'[c] = at[c], attempt'[c] = attempt[c], timer'[c] = timer[c],
         cut'[c] = cut[c], bad'[c] = bad[c], status'[c] = status[c]
  PROVE  CallInv(c)'
BY DEF CallInv, TaskAt, OutageAt, ErrorAt

(* A step of one call: it is enough to look at that call.                  *)
LEMMA OneCall ==
  ASSUME IInv, NEW c \in Calls, TypeOK', CallInv(c)', UNCHANGED <<down, outages>>,
         \A d \in Calls \ {c} :
           /\ at'[d] = at[d] /\ attempt'[d] = attempt[d] /\ timer'[d] = timer[d]
           /\ cut'[d] = cut[d] /\ bad'[d] = bad[d] /\ status'[d] = status[d]
  PROVE  IInv'
BY CallUntouched DEF IInv

LEMMA AcquireInv ==
  ASSUME IInv, NEW c \in Calls, Acquire(c)
  PROVE  IInv'
<1>1. TypeOK'
  BY DEF IInv, TypeOK, Acquire
<1>2. /\ at'[c] = "request" /\ attempt'[c] = 0 /\ cut'[c] = (down > 0)
      /\ status'[c] = "none" /\ UNCHANGED <<down, outages, bad>>
  BY DEF IInv, TypeOK, Acquire, CallInv, TaskAt
<1>3. CallInv(c)'
  BY <1>2, Numbers DEF IInv, TypeOK, CallInv, TaskAt, OutageAt, ErrorAt, Slept, MaxAttempts
<1> QED
  BY <1>1, <1>3, OneCall DEF IInv, TypeOK, Acquire

(* A failed attempt that counts as a bad answer, or that met the outage.   *)
LEMMA FailedInv ==
  ASSUME IInv, NEW c \in Calls, at[c] = "request", Failed(c),
         UNCHANGED <<attempt, cut, down, outages>>,
         bad' \in [Calls -> BOOLEAN], bad'[c] \/ (cut[c] /\ bad'[c] = bad[c]),
         \A d \in Calls \ {c} : bad'[d] = bad[d]
  PROVE  IInv'
<1>1. attempt[c] \in 0 .. MaxAttempts - 1 /\ MaxAttempts = 3
  BY DEF IInv, TypeOK, MaxAttempts
<1>2. Backoff(attempt[c]) \in 0 .. 2 * BackoffBase
  BY <1>1, Numbers DEF Backoff
<1>3. TypeOK'
  BY <1>2 DEF IInv, TypeOK, Failed
<1>4. \A d \in Calls \ {c} :
        at'[d] = at[d] /\ timer'[d] = timer[d] /\ status'[d] = status[d]
  BY DEF IInv, TypeOK, Failed
<1>5. CASE /\ attempt[c] + 1 < MaxAttempts /\ at'[c] = "backoff"
           /\ timer'[c] = Backoff(attempt[c]) /\ status'[c] = status[c]
  <2>1. Slept(attempt[c] + 1) = Slept(attempt[c]) + Backoff(attempt[c])
    BY <1>1, <1>5, Numbers DEF Slept, Backoff
  <2>2. Slept(attempt[c]) \in Nat
    BY <1>1, Numbers DEF Slept
  <2>3. CallInv(c)'
    BY <1>1, <1>2, <1>5, <2>1, <2>2, Numbers
    DEF IInv, TypeOK, CallInv, TaskAt, OutageAt, ErrorAt
  <2> QED
    BY <1>3, <1>4, <2>3, OneCall
<1>6. CASE /\ attempt[c] + 1 = MaxAttempts /\ at'[c] = "done"
           /\ status'[c] = "error" /\ UNCHANGED timer
  <2>1. CallInv(c)'
    BY <1>1, <1>6 DEF IInv, TypeOK, CallInv, TaskAt, OutageAt, ErrorAt
  <2> QED
    BY <1>3, <1>4, <2>1, OneCall
<1> QED
  BY <1>5, <1>6 DEF Failed, IInv, TypeOK

LEMMA ApiErrorInv ==
  ASSUME IInv, NEW c \in Calls, ApiError(c)
  PROVE  IInv'
BY FailedInv DEF ApiError, IInv, TypeOK

(* A text that can be read makes every bad answer the server's fault.      *)
LEMMA BadAnswerInv ==
  ASSUME IInv, NEW c \in Calls, BadAnswer(c)
  PROVE  IInv'
<1>1. SentLength(LengthOf[c]) <= Readable
  BY SentIsReadable, ClientAssumption
<1>2. bad' = [bad EXCEPT ![c] = TRUE] /\ bad \in [Calls -> BOOLEAN]
  BY <1>1 DEF BadAnswer, IInv, TypeOK
<1> QED
  BY <1>2, FailedInv DEF BadAnswer

LEMMA ValidAnswerInv ==
  ASSUME IInv, NEW c \in Calls, ValidAnswer(c)
  PROVE  IInv'
<1>1. TypeOK'
  BY DEF IInv, TypeOK, ValidAnswer
<1>2. CallInv(c)'
  BY DEF IInv, TypeOK, ValidAnswer, CallInv, TaskAt, OutageAt, ErrorAt
<1> QED
  BY <1>1, <1>2, OneCall DEF IInv, TypeOK, ValidAnswer

(* The last attempt is sent after the end of the outage.                   *)
LEMMA RetryInv ==
  ASSUME IInv, NEW c \in Calls, Retry(c)
  PROVE  IInv'
<1>1. attempt[c] \in 0 .. 1 /\ at[c] = "backoff" /\ timer[c] = 0 /\ MaxAttempts = 3
  BY DEF IInv, TypeOK, Retry, CallInv, TaskAt, MaxAttempts
<1>2. /\ at'[c] = "request" /\ attempt'[c] = attempt[c] + 1 /\ cut'[c] = (down > 0)
      /\ UNCHANGED <<timer, bad, status, down, outages>>
  BY DEF IInv, TypeOK, Retry
<1>3. TypeOK'
  BY <1>1 DEF IInv, TypeOK, Retry
<1>4. Slept(2) = 3 * BackoffBase
  BY Numbers DEF Slept
<1>5. CallInv(c)'
  BY <1>1, <1>2, <1>4, Numbers DEF IInv, TypeOK, CallInv, TaskAt, OutageAt, ErrorAt
<1> QED
  BY <1>3, <1>5, OneCall DEF IInv, TypeOK, Retry

LEMMA OutageStepInv ==
  ASSUME IInv, Outage
  PROVE  IInv'
<1>1. TypeOK' /\ (down' > 0 => outages' > 0)
  BY Numbers DEF IInv, TypeOK, Outage
<1>2. ASSUME NEW c \in Calls
      PROVE  CallInv(c)'
  <2>1. /\ down' \in 1 .. MaxOutage /\ outages' = outages + 1 /\ outages \in Nat
        /\ UNCHANGED <<at, attempt, timer, bad, status>>
        /\ cut'[c] = (cut[c] \/ at[c] = "request")
        /\ attempt[c] \in 0 .. 2 /\ MaxAttempts = 3
    BY Numbers DEF IInv, TypeOK, Outage, MaxAttempts
  <2>2. Slept(0) = 0
    BY DEF Slept
  <2> QED
    BY <2>1, <2>2, Numbers DEF IInv, CallInv, TaskAt, OutageAt, ErrorAt
<1> QED
  BY <1>1, <1>2 DEF IInv

LEMMA PassInv ==
  ASSUME IInv, Pass
  PROVE  IInv'
<1>1. TypeOK' /\ (down' > 0 => outages' > 0)
  BY Numbers DEF IInv, TypeOK, Pass, AtLeast0
<1>2. ASSUME NEW c \in Calls
      PROVE  CallInv(c)'
  <2>1. /\ down \in Nat /\ timer[c] \in Nat /\ UNCHANGED <<at, attempt, cut, bad, status, outages>>
        /\ down' = IF down = 0 THEN 0 ELSE down - 1
        /\ timer'[c] = IF timer[c] = 0 THEN 0 ELSE timer[c] - 1
        /\ attempt[c] \in 0 .. 2
    BY Numbers DEF IInv, TypeOK, Pass, AtLeast0, MaxAttempts
  <2>2. Slept(attempt[c]) \in Nat /\ Slept(attempt[c] + 1) \in Nat
    BY <2>1, Numbers DEF Slept
  <2> QED
    BY <2>1, <2>2, Numbers DEF IInv, CallInv, TaskAt, OutageAt, ErrorAt
<1> QED
  BY <1>1, <1>2 DEF IInv

LEMMA InitInv == Init => IInv
<1> SUFFICES ASSUME Init PROVE IInv
  OBVIOUS
<1>1. TypeOK
  BY Numbers DEF Init, TypeOK, MaxAttempts
<1> QED
  BY <1>1 DEF Init, IInv, CallInv, TaskAt, OutageAt, ErrorAt, MaxAttempts

LEMMA NextInv == IInv /\ [Next]_vars => IInv'
<1> SUFFICES ASSUME IInv, [Next]_vars PROVE IInv'
  OBVIOUS
<1>1. CASE UNCHANGED vars
  BY <1>1 DEF vars, IInv, TypeOK, CallInv, TaskAt, OutageAt, ErrorAt
<1> QED
  BY <1>1, AcquireInv, ApiErrorInv, BadAnswerInv, ValidAnswerInv, RetryInv,
     OutageStepInv, PassInv
  DEF Next, TaskStep

LEMMA Invariant == Spec => []IInv
BY InitInv, NextInv, PTL DEF Spec

(* The types; among them that no call makes more than MaxAttempts attempts.*)
THEOREM ClientTypeCorrect == Spec => []TypeOK
<1>1. IInv => TypeOK
  BY DEF IInv
<1> QED
  BY <1>1, Invariant, PTL

(* Whatever its length, and whenever the one outage comes, a call that the *)
(* server does not answer badly does not become an error row.              *)
THEOREM NoErrorIsNeedless == Spec => []NoNeedlessError
<1>1. IInv => NoNeedlessError
  BY DEF IInv, CallInv, ErrorAt, NoNeedlessError
<1> QED
  BY <1>1, Invariant, PTL

-----------------------------------------------------------------------------
(* The refinement of ExtractBatch's tasks.                                 *)

RunningTask == {c \in Calls : Tasks[c] = "running"}

LEMMA RunningIsActive ==
  ASSUME TypeOK
  PROVE  RunningTask = Active
BY DEF RunningTask, Active, Tasks, TypeOK

(* There is at most one row of a call, so they fit into the buffer.        *)
LEMMA RowsAreFew ==
  ASSUME NEW S, \A r \in S : r.call \in Calls, \A q, r \in S : q.call = r.call => q = r
  PROVE  Cardinality(S) < Cardinality(Calls) + 1
<1> DEFINE f == [r \in S |-> r.call]
<1>1. f \in Injection(S, Calls)
  BY DEF Injection, IsInjective
<1>2. IsFiniteSet(Calls)
  BY ClientAssumption
<1>3. Cardinality(S) <= Cardinality(Calls) /\ IsFiniteSet(S)
  BY <1>1, <1>2, FS_Injection
<1>4. Cardinality(S) \in Nat /\ Cardinality(Calls) \in Nat
  BY <1>2, <1>3, FS_CardinalityType
<1> QED
  BY <1>3, <1>4

(* ExtractBatch counts with a Cardinality of its own.                      *)
LEMMA SameCardinality ==
  ASSUME NEW S
  PROVE  Batch!Cardinality(S) = Cardinality(S)
BY DEF Batch!Cardinality, Cardinality

LEMMA AcquireIsStart ==
  ASSUME IInv, NEW c \in Calls, Acquire(c)
  PROVE  Batch!TaskStart(c)
<1>1. Tasks' = [Tasks EXCEPT ![c] = "running"] /\ Tasks[c] = "queued"
  BY DEF IInv, TypeOK, Acquire, Tasks
<1>2. Rows' = Rows
  BY DEF IInv, TypeOK, Acquire, Rows
<1>3. Batch!Cardinality({d \in Calls : Tasks[d] = "running"}) < Concurrency
  BY RunningIsActive, SameCardinality DEF RunningTask, Acquire, IInv
<1> QED
  BY <1>1, <1>2, <1>3 DEF Batch!TaskStart, Batch!writerVars

(* The last answer, or the last failure, of a call hands over its row.     *)
LEMMA LastIsExtracted ==
  ASSUME IInv, NEW c \in Calls, NEW s \in {"success", "error"}, at[c] = "request",
         at' = [at EXCEPT ![c] = "done"], status' = [status EXCEPT ![c] = s]
  PROVE  Batch!TaskExtracted(c, s)
<1>1. Tasks' = [Tasks EXCEPT ![c] = s] /\ Tasks[c] = "running"
  BY DEF IInv, TypeOK, Tasks
<1>2. Rows' = Rows \cup {[call |-> c, status |-> s]}
  BY DEF IInv, TypeOK, Rows
<1>3. Cardinality(Rows') < Cardinality(Calls) + 1
  BY RowsAreFew DEF Rows
<1>4. Batch!AddRow(Batch!RowOf(c, s))
  BY <1>2, <1>3, SameCardinality DEF Batch!AddRow, Batch!RowOf
<1> QED
  BY <1>1, <1>4 DEF Batch!TaskExtracted

LEMMA StepIsTaskStep ==
  ASSUME IInv, [Next]_vars
  PROVE  \/ \E c \in Calls :
              \/ Batch!TaskStart(c)
              \/ \E s \in {"success", "error"} : Batch!TaskExtracted(c, s)
         \/ UNCHANGED <<Tasks, Rows>>
<1>1. ASSUME NEW c \in Calls, at[c] = "request", Failed(c)
      PROVE  Batch!TaskExtracted(c, "error") \/ UNCHANGED <<Tasks, Rows>>
  <2>1. CASE at' = [at EXCEPT ![c] = "backoff"] /\ UNCHANGED status
    BY <1>1, <2>1 DEF IInv, TypeOK, Tasks, Rows
  <2>2. CASE at' = [at EXCEPT ![c] = "done"] /\ status' = [status EXCEPT ![c] = "error"]
    BY <1>1, <2>2, LastIsExtracted
  <2> QED
    BY <1>1, <2>1, <2>2 DEF Failed
<1>2. ASSUME NEW c \in Calls, ValidAnswer(c)
      PROVE  Batch!TaskExtracted(c, "success")
  BY <1>2, LastIsExtracted DEF ValidAnswer
<1>3. ASSUME NEW c \in Calls, Retry(c)
      PROVE  UNCHANGED <<Tasks, Rows>>
  BY <1>3 DEF IInv, TypeOK, Retry, Tasks, Rows
<1>4. CASE UNCHANGED <<at, status>>
  BY <1>4 DEF Tasks, Rows
<1> QED
  BY <1>1, <1>2, <1>3, <1>4, AcquireIsStart
  DEF Next, TaskStep, ApiError, BadAnswer, Outage, Pass, vars

(* Whatever its attempts and backoffs, a call is for ExtractBatch one task *)
(* that keeps its slot until it hands over one row.                        *)
THEOREM AttemptsImplementTasks == Spec => ImplementsTasks
BY StepIsTaskStep, Invariant, PTL DEF Spec, ImplementsTasks
=============================================================================
