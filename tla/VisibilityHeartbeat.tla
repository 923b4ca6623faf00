-------------------------- MODULE VisibilityHeartbeat --------------------------
(***************************************************************************)
(* The thread that keeps one message invisible while its shard is being    *)
(* processed (VisibilityHeartbeat in extract_lib/sqs_worker.py), with its  *)
(* clock.  Time advances in units; nothing else takes time but the call of *)
(* change_message_visibility, which may take up to MaxCall and fail, at    *)
(* most MaxMisses times in a row.  The shard takes as long as it likes.    *)
(***************************************************************************)
EXTENDS Integers

CONSTANTS
  Visibility,   \* visibility_timeout_seconds of the queue
  Interval,     \* WORKER_VIS_HEARTBEAT_S
  MinExtend,    \* the 600 s of vis_extend_to
  MaxCall, MaxMisses

(* vis_extend_to                                                           *)
ExtendTo == IF 2 * Interval >= MinExtend THEN 2 * Interval ELSE MinExtend

Period == Interval + MaxCall

ASSUME HeartbeatAssumption ==
  /\ Visibility \in Nat /\ Interval \in Nat \ {0} /\ MinExtend \in Nat
  /\ MaxCall \in Nat /\ MaxMisses \in Nat

(* What makes the timing work: an extension outlasts the rest of its own   *)
(* call, MaxMisses calls in vain, and the one that succeeds after them.    *)
ASSUME LeaseAssumption ==
  /\ MaxCall + Period + MaxMisses * Period < ExtendTo
  /\ ExtendTo <= Visibility

VARIABLES
  left,     \* time until the message becomes visible
  deleted,  \* the message is deleted
  phase,    \* where _process_shard and main() are with the message
  ok,       \* should_delete
  stop,     \* self._stop
  thread,   \* where _run is
  timer,    \* of the thread: rest of the wait, or of the call
  hit,      \* the present call has reached SQS
  misses    \* how many calls in a row did not

vars == <<left, deleted, phase, ok, stop, thread, timer, hit, misses>>

TypeOK ==
  /\ left \in 0 .. Visibility
  /\ deleted \in BOOLEAN
  /\ phase \in {"received", "processing", "joining", "over"}
  /\ ok \in BOOLEAN
  /\ stop \in BOOLEAN
  /\ thread \in {"off", "waiting", "calling", "ended"}
  /\ timer \in 0 .. Period
  /\ hit \in BOOLEAN
  /\ misses \in 0 .. MaxMisses

Init ==
  /\ left = Visibility
  /\ deleted = FALSE
  /\ phase = "received"
  /\ ok = FALSE
  /\ stop = FALSE
  /\ thread = "off"
  /\ timer = 0
  /\ hit = FALSE
  /\ misses = 0

-----------------------------------------------------------------------------
(* The worker.                                                             *)

Enter ==
  /\ phase = "received"
  /\ phase' = "processing"
  /\ thread' = "waiting"
  /\ timer' = Interval
  /\ UNCHANGED <<left, deleted, ok, stop, hit, misses>>

ExitOnSuccessOnly ==  \* variant: an exception leaves the thread running
  /\ phase = "processing"
  /\ ok' \in BOOLEAN
  /\ stop' = ok'
  /\ phase' = "joining"
  /\ UNCHANGED <<left, deleted, thread, timer, hit, misses>>

(* The download and the run end, with a return code or an exception.       *)
Exit ==
  /\ phase = "processing"
  /\ ok' \in BOOLEAN
  /\ stop' = TRUE
  /\ phase' = "joining"
  /\ UNCHANGED <<left, deleted, thread, timer, hit, misses>>

(* join(timeout=5) returns: the thread has ended, or a call is still under *)
(* way.  Then the message is deleted or left; deleting may fail.           *)
JoinAndDecide ==
  /\ phase = "joining"
  /\ thread # "waiting"
  /\ phase' = "over"
  /\ deleted' \in {FALSE, ok}
  /\ UNCHANGED <<left, ok, stop, thread, timer, hit, misses>>

-----------------------------------------------------------------------------
(* The thread.                                                             *)

WaitStopped ==
  /\ thread = "waiting"
  /\ stop
  /\ thread' = "ended"
  /\ timer' = 0
  /\ UNCHANGED <<left, deleted, phase, ok, stop, hit, misses>>

WaitTimeout ==
  /\ thread = "waiting"
  /\ ~stop
  /\ timer = 0
  /\ thread' = "calling"
  /\ timer' = MaxCall
  /\ hit' = FALSE
  /\ UNCHANGED <<left, deleted, phase, ok, stop, misses>>

ExtendByInterval ==  \* variant: extended by the interval alone
  /\ thread = "calling"
  /\ ~hit
  /\ left > 0 /\ ~deleted
  /\ left' = Interval
  /\ hit' = TRUE
  /\ UNCHANGED <<deleted, phase, ok, stop, thread, timer, misses>>

ExtendAddsUp ==  \* variant: the extension is added to the time left
  /\ thread = "calling"
  /\ ~hit
  /\ left > 0 /\ ~deleted
  /\ left' = left + ExtendTo
  /\ hit' = TRUE
  /\ UNCHANGED <<deleted, phase, ok, stop, thread, timer, misses>>

(* SQS refuses the call for a message that is not in flight.  The new      *)
(* timeout replaces the old one, be it longer or shorter.                  *)
Extend ==
  /\ thread = "calling"
  /\ ~hit
  /\ left > 0 /\ ~deleted
  /\ left' = ExtendTo
  /\ hit' = TRUE
  /\ UNCHANGED <<deleted, phase, ok, stop, thread, timer, misses>>

(* The call returns or raises; the loop goes on in either case.            *)
CallEnd ==
  /\ thread = "calling"
  /\ \/ hit /\ misses' = 0
     \/ ~hit /\ misses < MaxMisses /\ misses' = misses + 1
     \/ ~hit /\ (left = 0 \/ deleted) /\ UNCHANGED misses
  /\ thread' = "waiting"
  /\ timer' = Interval
  /\ UNCHANGED <<left, deleted, phase, ok, stop, hit>>

(* A unit of time.  The worker enters the block as soon as it has the      *)
(* message, and the thread goes on as soon as its wait or call is over.    *)
Pass ==
  /\ phase # "received"
  /\ thread = "waiting" => timer > 0 /\ ~stop
  /\ thread = "calling" => timer > 0
  /\ left' = IF left > 0 THEN left - 1 ELSE 0
  /\ timer' = IF timer > 0 THEN timer - 1 ELSE 0
  /\ UNCHANGED <<deleted, phase, ok, stop, thread, hit, misses>>

ThreadStep == WaitStopped \/ WaitTimeout \/ Extend \/ CallEnd

Next == Enter \/ Exit \/ JoinAndDecide \/ ThreadStep \/ Pass

Spec == Init /\ [][Next]_vars

(* Time passes, the thread goes on, and so does the worker once the shard  *)
(* has ended; nothing makes the shard end.                                 *)
FairSpec ==
  /\ Spec
  /\ WF_vars(Pass)
  /\ WF_vars(JoinAndDecide)
  /\ WF_vars(ThreadStep)

-----------------------------------------------------------------------------
(* Properties.                                                             *)

(* sqs_worker.py:113-118: however long the shard takes, the message does   *)
(* not become visible while it is being processed, transient errors of the *)
(* heartbeat's calls included.                                             *)
Owned == phase = "processing" => left > 0

(* The heartbeat does not outlive its shard: a message that was left       *)
(* becomes visible for the retry, whatever ended the shard and even if a   *)
(* call was under way when join() gave up waiting.                         *)
LeftIsRetried == phase = "over" /\ ~deleted ~> left = 0

(* The strengthening of Owned: the time that is left covers the worst case *)
(* until the next extension, given the calls that have failed already.     *)
Remaining == (MaxMisses - misses) * Period

LeaseInv ==
  phase = "processing" =>
    /\ ~stop /\ ~deleted
    /\ \/ thread = "waiting" /\ left > timer + MaxCall + Remaining
                             /\ timer <= Interval
       \/ thread = "calling" /\ ~hit /\ left > timer + Remaining
                             /\ timer <= MaxCall
       \/ thread = "calling" /\ hit /\ timer <= MaxCall
          /\ left > timer + Period + MaxMisses * Period

(* Nothing has happened yet to a message that was just received.          *)
FreshInv ==
  phase = "received" =>
    /\ thread = "off" /\ ~stop
    /\ left = Visibility /\ misses = 0 /\ ~deleted

IInv ==
  /\ TypeOK
  /\ LeaseInv
  /\ FreshInv
=============================================================================
