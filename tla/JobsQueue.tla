------------------------------ MODULE JobsQueue ------------------------------
(***************************************************************************)
(* The jobs queue and its dead-letter queue, as infra/modules/dispatch     *)
(* configures SQS and as the worker uses it: S3 puts one message per       *)
(* uploaded object (or more: notifications are at least once), a received  *)
(* message is invisible until its timeout ends, and a message that has     *)
(* been received MaxReceive times moves to the dead-letter queue when the  *)
(* next receive would return it.                                           *)
(***************************************************************************)
EXTENDS Integers

CONSTANTS
  Messages,     \* the messages that may ever be sent
  MaxReceive    \* maxReceiveCount of the redrive policy

ASSUME QueueAssumption == MaxReceive \in Nat \ {0}

VARIABLES
  msg,          \* where each message is
  receives      \* its ApproximateReceiveCount

queueVars == <<msg, receives>>

MsgStates == {"none", "visible", "inflight", "deleted", "dlq"}

QueueTypeOK ==
  /\ msg \in [Messages -> MsgStates]
  /\ receives \in [Messages -> 0 .. MaxReceive]

QueueInit ==
  /\ msg = [m \in Messages |-> "none"]
  /\ receives = [m \in Messages |-> 0]

Send(m) ==
  /\ msg[m] = "none"
  /\ msg' = [msg EXCEPT ![m] = "visible"]
  /\ UNCHANGED receives

ReceiveUnlimited(m) ==  \* variant: no redrive policy
  /\ msg[m] = "visible"
  /\ msg' = [msg EXCEPT ![m] = "inflight"]
  /\ receives' = [receives EXCEPT ![m] = @ + 1]

Receive(m) ==
  /\ msg[m] = "visible"
  /\ receives[m] < MaxReceive
  /\ msg' = [msg EXCEPT ![m] = "inflight"]
  /\ receives' = [receives EXCEPT ![m] = @ + 1]

Redrive(m) ==
  /\ msg[m] = "visible"
  /\ receives[m] = MaxReceive
  /\ msg' = [msg EXCEPT ![m] = "dlq"]
  /\ UNCHANGED receives

BecomeVisible(m) ==
  /\ msg[m] = "inflight"
  /\ msg' = [msg EXCEPT ![m] = "visible"]
  /\ UNCHANGED receives

(* Also with the receipt handle of a receive whose timeout has ended.      *)
Delete(m) ==
  /\ msg[m] \in {"visible", "inflight"}
  /\ msg' = [msg EXCEPT ![m] = "deleted"]
  /\ UNCHANGED receives
=============================================================================
