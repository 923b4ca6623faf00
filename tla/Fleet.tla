--------------------------------- MODULE Fleet ---------------------------------
(***************************************************************************)
(* The fleet of at most one instance: the dispatcher Lambda                *)
(* (lambda/dispatch/handler.py) scales the auto-scaling group from 0 to 1  *)
(* when the jobs queue holds work, the group launches the instance, and    *)
(* the worker on it (sqs_worker.py) scales the group back when it has      *)
(* nothing left to do.  The Lambda reads the queue, the group and the      *)
(* group's activities by one call each, and acts on what it read; a tick   *)
(* and a force-scale may run at the same time.                             *)
(*                                                                         *)
(* Of the worker only what the fleet sees is kept: it receives, deletes or *)
(* leaves a message, and ends between two messages.                        *)
(***************************************************************************)
EXTENDS JobsQueue, FiniteSets

CONSTANTS
  Invocations,    \* executions of the Lambda that may overlap
  Threshold,      \* MIN_FILES_THRESHOLD
  MaxSize,        \* max_size of the group
  FleetFaults,    \* what may fail in this instance
  NoMessage,
  MaxForces, MaxFaults   \* bounds of the model: how often it happens

ASSUME FleetAssumption ==
  /\ Threshold \in Nat
  /\ MaxSize \in {0, 1}
  /\ FleetFaults \subseteq {"api", "launch", "lost", "bootstrap", "terminate", "heartbeat"}
  /\ NoMessage \notin Messages
  /\ MaxForces \in Nat
  /\ MaxFaults \in Nat

VARIABLES
  applied,  \* the runtime stack is applied: the group exists
  desired,  \* the group's DesiredCapacity
  inst,     \* the instance that counts towards desired
  dying,    \* an instance that no longer counts is still shutting down
  cur,      \* the message the worker holds
  polled,   \* the worker has polled since it was started
  at,       \* the call each execution of the handler is about to make
  forced,   \* its forced
  enough,   \* whether its depth reaches the threshold
  aged,     \* whether an instance was launched since it began
  forces,   \* how often the operator forced a scale-up
  faults    \* how many faults happened

groupVars == <<applied, desired, inst, dying>>
workerVars == <<cur, polled>>
lambdaVars == <<at, forced, enough, aged>>
fleetVars == <<groupVars, workerVars, lambdaVars, forces, faults>>
vars == <<queueVars, fleetVars>>

Visible == {m \in Messages : msg[m] = "visible"}

TypeOK ==
  /\ QueueTypeOK
  /\ applied \in BOOLEAN
  /\ desired \in 0 .. MaxSize
  /\ inst \in {"none", "launching", "booting", "working", "stuck"}
  /\ dying \in BOOLEAN
  /\ cur \in Messages \cup {NoMessage}
  /\ polled \in BOOLEAN
  /\ at \in [Invocations -> {"idle", "queue_depth", "describe_asg",
                             "activities", "set_desired"}]
  /\ forced \in [Invocations -> BOOLEAN]
  /\ enough \in [Invocations -> BOOLEAN]
  /\ aged \in [Invocations -> BOOLEAN]
  /\ forces \in 0 .. MaxForces
  /\ faults \in 0 .. MaxFaults

Init ==
  /\ QueueInit
  /\ applied = FALSE
  /\ desired = 0
  /\ inst = "none"
  /\ dying = FALSE
  /\ cur = NoMessage
  /\ polled = FALSE
  /\ at = [i \in Invocations |-> "idle"]
  /\ forced = [i \in Invocations |-> FALSE]
  /\ enough = [i \in Invocations |-> FALSE]
  /\ aged = [i \in Invocations |-> FALSE]
  /\ forces = 0
  /\ faults = 0

Fault(f) ==
  /\ f \in FleetFaults
  /\ faults < MaxFaults
  /\ faults' = faults + 1

-----------------------------------------------------------------------------
(* The dispatcher.                                                         *)

Invoke(i, f) ==
  /\ at[i] = "idle"
  /\ at' = [at EXCEPT ![i] = "queue_depth"]
  /\ forced' = [forced EXCEPT ![i] = f]
  /\ UNCHANGED <<enough, aged, groupVars, workerVars, queueVars, faults>>

Tick(i) ==
  /\ Invoke(i, FALSE)
  /\ UNCHANGED forces

ForceScale(i) ==
  /\ forces < MaxForces
  /\ Invoke(i, TRUE)
  /\ forces' = forces + 1

(* The handler returns; its locals are gone.                               *)
Return(i) ==
  /\ at' = [at EXCEPT ![i] = "idle"]
  /\ forced' = [forced EXCEPT ![i] = FALSE]
  /\ enough' = [enough EXCEPT ![i] = FALSE]
  /\ aged' = [aged EXCEPT ![i] = FALSE]

QueueDepthAbove(i) ==  \* variant: the threshold itself is not enough
  /\ at[i] = "queue_depth"
  /\ at' = [at EXCEPT ![i] = "describe_asg"]
  /\ enough' = [enough EXCEPT ![i] = Cardinality(Visible) > Threshold]
  /\ UNCHANGED <<forced, aged, groupVars, workerVars>>
  /\ UNCHANGED <<queueVars, forces, faults>>

(* ApproximateNumberOfMessages does not count messages in flight.          *)
QueueDepth(i) ==
  /\ at[i] = "queue_depth"
  /\ at' = [at EXCEPT ![i] = "describe_asg"]
  /\ enough' = [enough EXCEPT ![i] = Cardinality(Visible) >= Threshold]
  /\ UNCHANGED <<forced, aged, groupVars, workerVars>>
  /\ UNCHANGED <<queueVars, forces, faults>>

CanScaleUp(i) ==
  /\ applied
  /\ desired = 0
  /\ MaxSize >= 1
  /\ forced[i] \/ enough[i]

DescribeAsg(i) ==
  /\ at[i] = "describe_asg"
  /\ \/ CanScaleUp(i) /\ at' = [at EXCEPT ![i] = "activities"]
                      /\ UNCHANGED <<forced, enough, aged>>
     \/ ~CanScaleUp(i) /\ Return(i)
  /\ UNCHANGED <<groupVars, workerVars, queueVars, forces, faults>>

HasLaunchInFlight(i) ==  \* variant: terminations are not looked at
  /\ at[i] = "activities"
  /\ \/ inst = "launching" /\ Return(i)
     \/ inst # "launching" /\ at' = [at EXCEPT ![i] = "set_desired"]
                           /\ UNCHANGED <<forced, enough, aged>>
  /\ UNCHANGED <<groupVars, workerVars, queueVars, forces, faults>>

(* A launch or a termination that is not over is an activity in progress.  *)
HasInFlightActivity(i) ==
  /\ at[i] = "activities"
  /\ \/ (inst = "launching" \/ dying) /\ Return(i)
     \/ ~(inst = "launching" \/ dying) /\ at' = [at EXCEPT ![i] = "set_desired"]
                                       /\ UNCHANGED <<forced, enough, aged>>
  /\ UNCHANGED <<groupVars, workerVars, queueVars, forces, faults>>

RaiseDesired(i) ==  \* variant: one more than there is, instead of 1
  /\ at[i] = "set_desired"
  /\ desired' = desired + 1
  /\ Return(i)
  /\ UNCHANGED <<applied, inst, dying, workerVars, queueVars, forces, faults>>

SetDesired(i) ==
  /\ at[i] = "set_desired"
  /\ desired' = 1
  /\ Return(i)
  /\ UNCHANGED <<applied, inst, dying, workerVars, queueVars, forces, faults>>

(* Any of the calls raises and the handler with it.                        *)
ApiError(i) ==
  /\ at[i] # "idle"
  /\ Fault("api")
  /\ Return(i)
  /\ UNCHANGED <<groupVars, workerVars, queueVars, forces>>

LambdaStep(i) ==
  \/ QueueDepth(i)
  \/ DescribeAsg(i)
  \/ HasInFlightActivity(i)
  \/ SetDesired(i)

-----------------------------------------------------------------------------
(* The group and its instance.                                             *)

Apply ==
  /\ ~applied
  /\ applied' = TRUE
  /\ UNCHANGED <<desired, inst, dying, workerVars, lambdaVars>>
  /\ UNCHANGED <<forces, faults, queueVars>>

(* An instance that is shutting down does not count, so the group launches *)
(* the next one beside it.                                                 *)
Launch ==
  /\ desired = 1
  /\ inst = "none"
  /\ inst' = "launching"
  /\ aged' = [i \in Invocations |-> at[i] # "idle"]
  /\ UNCHANGED <<applied, desired, dying, workerVars, at, forced>>
  /\ UNCHANGED <<enough, forces, faults, queueVars>>

(* A launch that fails (no capacity) is tried again by the group.          *)
LaunchEnd ==
  /\ inst = "launching"
  /\ \/ inst' = "booting" /\ UNCHANGED faults
     \/ inst' = "none" /\ Fault("launch")
  /\ UNCHANGED <<applied, desired, dying, workerVars>>
  /\ UNCHANGED <<lambdaVars, forces, queueVars>>

(* The bootstrap unit runs the playbook, which starts the worker; when it  *)
(* has failed StartLimitBurst times systemd gives up.                      *)
Bootstrap ==
  /\ inst = "booting"
  /\ \/ inst' = "working" /\ UNCHANGED faults
     \/ inst' = "stuck" /\ Fault("bootstrap")
  /\ polled' = FALSE
  /\ UNCHANGED <<applied, desired, dying, cur, lambdaVars, forces, queueVars>>

Terminated ==
  /\ dying
  /\ dying' = FALSE
  /\ UNCHANGED <<applied, desired, inst, workerVars, lambdaVars>>
  /\ UNCHANGED <<forces, faults, queueVars>>

(* The hardware fails; the group replaces an instance it finds unhealthy.  *)
Lost ==
  /\ inst \in {"booting", "working", "stuck"}
  /\ Fault("lost")
  /\ inst' = "none"
  /\ cur' = NoMessage
  /\ polled' = FALSE
  /\ UNCHANGED <<applied, desired, dying, lambdaVars, forces, queueVars>>

-----------------------------------------------------------------------------
(* The worker, as the fleet sees it.                                       *)

Working == inst = "working" /\ cur = NoMessage

ReceiveMessage(m) ==
  /\ Working
  /\ Receive(m)
  /\ cur' = m
  /\ polled' = TRUE
  /\ UNCHANGED <<groupVars, lambdaVars, forces, faults>>

ReceiveRedrives(m) ==
  /\ Working
  /\ Redrive(m)
  /\ UNCHANGED fleetVars

ReceiveNothing ==
  /\ Working
  /\ Visible = {}
  /\ polled' = TRUE
  /\ UNCHANGED <<groupVars, cur, lambdaVars, forces, faults, queueVars>>

(* The message was processed, or failed and waits for its timeout.         *)
ProcessShard ==
  /\ cur # NoMessage
  /\ \/ Delete(cur)
     \/ UNCHANGED queueVars
  /\ cur' = NoMessage
  /\ UNCHANGED <<groupVars, polled, lambdaVars, forces, faults>>

SelfTerminateKeepsDesired ==  \* variant: ShouldDecrementDesiredCapacity=False
  /\ Working
  /\ polled
  /\ \A i \in Invocations : ~aged[i]
  /\ inst' = "none"
  /\ dying' = TRUE
  /\ polled' = FALSE
  /\ UNCHANGED <<applied, desired, cur, lambdaVars, forces, faults, queueVars>>

(* A cap is reached at a turn of the loop.  The instance has polled by     *)
(* then, unless its bootstrap took longer than WORKER_WALL_CAP_SEC; and no *)
(* handler that saw it being launched (at most 30 s ago, the Lambda's      *)
(* timeout) still runs (the idle cap alone is 300 s).  When the call fails *)
(* the process exits all the same, with status 0.                          *)
SelfTerminate ==
  /\ Working
  /\ polled
  /\ \A i \in Invocations : ~aged[i]
  /\ \/ /\ desired' = 0
        /\ inst' = "none"
        /\ dying' = TRUE
        /\ UNCHANGED faults
     \/ /\ Fault("terminate")
        /\ inst' = "stuck"
        /\ UNCHANGED <<desired, dying>>
  /\ polled' = FALSE
  /\ UNCHANGED <<applied, cur, lambdaVars, forces, queueVars>>

ObjectCreated(m) ==
  /\ Send(m)
  /\ UNCHANGED fleetVars

(* The heartbeat keeps the message the worker holds invisible.             *)
VisibilityExpire(m) ==
  /\ m # cur \/ "heartbeat" \in FleetFaults
  /\ BecomeVisible(m)
  /\ UNCHANGED fleetVars

WorkerStep ==
  \/ \E m \in Messages : ReceiveMessage(m)
  \/ \E m \in Messages : ReceiveRedrives(m)
  \/ ReceiveNothing
  \/ ProcessShard

GroupStep == Launch \/ LaunchEnd \/ Bootstrap \/ Terminated

Next ==
  \/ \E i \in Invocations : Tick(i) \/ ForceScale(i)
  \/ \E i \in Invocations : LambdaStep(i) \/ ApiError(i)
  \/ Apply
  \/ GroupStep
  \/ Lost
  \/ WorkerStep
  \/ SelfTerminate
  \/ \E m \in Messages : ObjectCreated(m)
  \/ \E m \in Messages : VisibilityExpire(m)

Spec == Init /\ [][Next]_vars

(* The schedule fires every minute, a handler that runs goes on, the group *)
(* does what it was asked, the worker loops and reaches a cap, visibility  *)
(* timeouts end.                                                           *)
FairSpec ==
  /\ Spec
  /\ WF_vars(\E i \in Invocations : Tick(i))
  /\ \A i \in Invocations : WF_vars(LambdaStep(i))
  /\ WF_vars(Launch) /\ WF_vars(LaunchEnd)
  /\ WF_vars(Bootstrap) /\ WF_vars(Terminated)
  /\ WF_vars(WorkerStep)
  /\ WF_vars(SelfTerminate)
  /\ \A m \in Messages : WF_vars(VisibilityExpire(m))

-----------------------------------------------------------------------------
(* Properties.                                                             *)

(* No instance is launched while its predecessor is still shutting down:   *)
(* it would detach the state volume from it (role state_volume).           *)
NoOverlap == ~(dying /\ inst # "none")

(* Once the stack is applied, every announced shard is taken off the queue *)
(* (processed or in the dead-letter queue), however the instance's caps,   *)
(* its loss and the ticks of the dispatcher fall.                          *)
Drained ==
  \A m \in Messages :
    applied /\ msg[m] = "visible" ~> msg[m] \in {"deleted", "dlq"}

(* README.md:154-155, compute/main.tf:157-159: the fleet always goes back  *)
(* to no instance and desired=0.                                           *)
ScaledBack == []<>(desired = 0 /\ inst = "none")
-----------------------------------------------------------------------------
(* The strengthening of NoOverlap.  A handler that read desired=0 and goes *)
(* on sees a launch that comes in between (aged), so the instance it would *)
(* overlap with cannot end before the handler has.                         *)

GroupInv ==
  /\ inst # "none" => desired = 1
  /\ dying => desired = 0

HandlerInv ==
  \A i \in Invocations :
    at[i] \in {"activities", "set_desired"} =>
      /\ MaxSize = 1
      /\ inst # "none" => aged[i]
      /\ at[i] = "set_desired" => ~dying

IInv == TypeOK /\ NoOverlap /\ GroupInv /\ HandlerInv
=============================================================================
