------------------------------ MODULE FleetProofs ------------------------------
(***************************************************************************)
(* NoOverlap and the types of Fleet, for any number of messages, of        *)
(* overlapping executions of the dispatcher, and of faults.                *)
(***************************************************************************)
EXTENDS Fleet, TLAPS

USE DEF fleetVars, groupVars, workerVars, lambdaVars, queueVars

LEMMA InitInv == Init => IInv
<1> SUFFICES ASSUME Init PROVE IInv
  OBVIOUS
<1> USE DEF Init
<1>1. 0 \in 0 .. MaxSize /\ 0 \in 0 .. MaxForces /\ 0 \in 0 .. MaxFaults
  BY FleetAssumption
<1>2. QueueTypeOK
  BY QueueAssumption DEF QueueInit, QueueTypeOK, MsgStates
<1>3. TypeOK
  BY <1>1, <1>2 DEF TypeOK
<1>4. NoOverlap /\ GroupInv /\ HandlerInv
  BY DEF NoOverlap, GroupInv, HandlerInv
<1> QED BY <1>3, <1>4 DEF IInv

(* The queue's own operations keep the queue's types.                      *)
LEMMA QueueTypes ==
  ASSUME QueueTypeOK, NEW m \in Messages,
         Send(m) \/ Receive(m) \/ Redrive(m) \/ BecomeVisible(m) \/ Delete(m)
  PROVE  QueueTypeOK'
<1>1. CASE Send(m)
  BY <1>1 DEF QueueTypeOK, MsgStates, Send
<1>2. CASE Receive(m)
  <2>1. receives[m] + 1 \in 0 .. MaxReceive
    BY <1>2, QueueAssumption DEF QueueTypeOK, Receive
  <2> QED BY <1>2, <2>1 DEF QueueTypeOK, MsgStates, Receive
<1>3. CASE Redrive(m)
  BY <1>3 DEF QueueTypeOK, MsgStates, Redrive
<1>4. CASE BecomeVisible(m)
  BY <1>4 DEF QueueTypeOK, MsgStates, BecomeVisible
<1>5. CASE Delete(m)
  BY <1>5 DEF QueueTypeOK, MsgStates, Delete
<1> QED BY <1>1, <1>2, <1>3, <1>4, <1>5

LEMMA FaultType ==
  ASSUME faults \in 0 .. MaxFaults, NEW f, Fault(f)
  PROVE  faults' \in 0 .. MaxFaults
BY FleetAssumption DEF Fault

(* A step that leaves the queue and the handlers alone and neither starts  *)
(* nor ends an instance.                                                   *)
LEMMA Preserved ==
  ASSUME IInv, UNCHANGED <<desired, inst, dying, lambdaVars>>
  PROVE  (NoOverlap /\ GroupInv /\ HandlerInv)'
BY DEF IInv, NoOverlap, GroupInv, HandlerInv

-----------------------------------------------------------------------------

(* The steps of the dispatcher.                                            *)
LEMMA HandlerStep ==
  ASSUME IInv, NEW i \in Invocations,
         Tick(i) \/ ForceScale(i) \/ LambdaStep(i) \/ ApiError(i)
  PROVE  IInv'
<1> USE DEF IInv, TypeOK, NoOverlap, GroupInv, HandlerInv
<1>q. UNCHANGED queueVars /\ UNCHANGED <<applied, inst, dying, cur, polled>>
  BY DEF Tick, ForceScale, Invoke, LambdaStep, QueueDepth, DescribeAsg,
         HasInFlightActivity, SetDesired, ApiError
<1>qt. QueueTypeOK'
  BY <1>q DEF QueueTypeOK
<1>1. CASE Tick(i)
  BY <1>1, <1>q, <1>qt DEF Tick, Invoke
<1>2. CASE ForceScale(i)
  <2>1. forces' \in 0 .. MaxForces
    BY <1>2, FleetAssumption DEF ForceScale
  <2> QED BY <1>2, <1>q, <1>qt, <2>1 DEF ForceScale, Invoke
<1>3. CASE QueueDepth(i)
  BY <1>3, <1>q, <1>qt DEF QueueDepth
<1>4. CASE DescribeAsg(i)
  <2>1. at'[i] = "activities" => MaxSize = 1 /\ inst = "none"
    BY <1>4, FleetAssumption DEF DescribeAsg, CanScaleUp, Return
  <2>2. UNCHANGED <<desired, forces, faults>>
    BY <1>4 DEF DescribeAsg
  <2>3. CASE CanScaleUp(i)
    BY <1>4, <1>q, <1>qt, <2>1, <2>2, <2>3 DEF DescribeAsg
  <2>4. CASE Return(i)
    BY <1>q, <1>qt, <2>2, <2>4 DEF Return
  <2> QED BY <1>4, <2>3, <2>4 DEF DescribeAsg
<1>5. CASE HasInFlightActivity(i)
  <2>1. UNCHANGED <<desired, forces, faults>>
    BY <1>5 DEF HasInFlightActivity
  <2>2. CASE Return(i)
    BY <1>q, <1>qt, <2>1, <2>2 DEF Return
  <2>3. CASE ~(inst = "launching" \/ dying)
    BY <1>5, <1>q, <1>qt, <2>1, <2>3 DEF HasInFlightActivity
  <2> QED BY <1>5, <2>2, <2>3 DEF HasInFlightActivity
<1>6. CASE SetDesired(i)
  BY <1>6, <1>q, <1>qt DEF SetDesired, Return
<1>7. CASE ApiError(i)
  <2>1. faults' \in 0 .. MaxFaults
    BY <1>7, FaultType DEF ApiError
  <2> QED BY <1>7, <1>q, <1>qt, <2>1 DEF ApiError, Return
<1> QED BY <1>1, <1>2, <1>3, <1>4, <1>5, <1>6, <1>7 DEF LambdaStep

(* The steps of the group and of its instance.                             *)
LEMMA InstanceStep ==
  ASSUME IInv, Apply \/ GroupStep \/ Lost \/ SelfTerminate
  PROVE  IInv'
<1> USE DEF IInv, TypeOK, NoOverlap, GroupInv, HandlerInv
<1>q. UNCHANGED queueVars
  BY DEF Apply, GroupStep, Launch, LaunchEnd, Bootstrap, Terminated, Lost, SelfTerminate
<1>qt. QueueTypeOK'
  BY <1>q DEF QueueTypeOK
<1>1. CASE Apply
  BY <1>1, <1>qt DEF Apply
<1>2. CASE Launch
  <2>1. \A i \in Invocations : aged'[i] = (at[i] # "idle")
    BY <1>2 DEF Launch
  <2>2. aged' \in [Invocations -> BOOLEAN]
    BY <1>2 DEF Launch
  <2>3. ~dying
    BY <1>2 DEF Launch
  <2>4. HandlerInv'
    BY <1>2, <2>1, <2>3 DEF Launch
  <2> QED BY <1>2, <1>qt, <2>2, <2>3, <2>4 DEF Launch
<1>3. CASE LaunchEnd
  <2>1. faults' \in 0 .. MaxFaults
    BY <1>3, FaultType DEF LaunchEnd
  <2> QED BY <1>3, <1>qt, <2>1 DEF LaunchEnd
<1>4. CASE Bootstrap
  <2>1. faults' \in 0 .. MaxFaults
    BY <1>4, FaultType DEF Bootstrap
  <2> QED BY <1>4, <1>qt, <2>1 DEF Bootstrap
<1>5. CASE Terminated
  BY <1>5, <1>qt DEF Terminated
<1>6. CASE Lost
  <2>1. faults' \in 0 .. MaxFaults
    BY <1>6, FaultType DEF Lost
  <2> QED BY <1>6, <1>qt, <2>1 DEF Lost
<1>7. CASE SelfTerminate
  <2>1. faults' \in 0 .. MaxFaults
    BY <1>7, FaultType DEF SelfTerminate
  <2>2. 0 \in 0 .. MaxSize
    BY FleetAssumption
  <2>3. \A i \in Invocations : at[i] \notin {"activities", "set_desired"}
    BY <1>7 DEF SelfTerminate, Working
  <2>4. TypeOK'
    BY <1>7, <1>qt, <2>1, <2>2 DEF SelfTerminate
  <2>5. HandlerInv'
    BY <1>7, <2>3 DEF SelfTerminate
  <2>6. (NoOverlap /\ GroupInv)'
    BY <1>7 DEF SelfTerminate, Working
  <2> QED BY <2>4, <2>5, <2>6
<1> QED BY <1>1, <1>2, <1>3, <1>4, <1>5, <1>6, <1>7 DEF GroupStep

(* The worker's steps and the queue's move messages only.                  *)
LEMMA MessageStep ==
  ASSUME IInv,
         \/ WorkerStep
         \/ \E m \in Messages : ObjectCreated(m) \/ VisibilityExpire(m)
  PROVE  IInv'
<1>1. UNCHANGED <<desired, inst, dying, lambdaVars>>
  BY DEF WorkerStep, ReceiveMessage, ReceiveRedrives, ReceiveNothing, ProcessShard,
         ObjectCreated, VisibilityExpire
<1>2. (NoOverlap /\ GroupInv /\ HandlerInv)'
  BY <1>1, Preserved
<1>3. QueueTypeOK
  BY DEF IInv, TypeOK
<1>4. QueueTypeOK' /\ (cur \in Messages \cup {NoMessage} /\ polled \in BOOLEAN)'
  <2> USE <1>3 DEF IInv, TypeOK
  <2>1. ASSUME NEW m \in Messages, ReceiveMessage(m) PROVE <1>4!1 /\ <1>4!2
    BY <2>1, QueueTypes DEF ReceiveMessage
  <2>2. ASSUME NEW m \in Messages, ReceiveRedrives(m) PROVE <1>4!1 /\ <1>4!2
    BY <2>2, QueueTypes DEF ReceiveRedrives
  <2>3. CASE ReceiveNothing
    BY <2>3 DEF ReceiveNothing, QueueTypeOK
  <2>4. CASE ProcessShard
    <3>1. cur \in Messages
      BY <2>4 DEF ProcessShard
    <3>2. CASE Delete(cur)
      BY <2>4, <3>1, <3>2, QueueTypes DEF ProcessShard
    <3>3. CASE UNCHANGED queueVars
      BY <2>4, <3>3 DEF ProcessShard, QueueTypeOK
    <3> QED BY <2>4, <3>2, <3>3 DEF ProcessShard
  <2>5. ASSUME NEW m \in Messages, ObjectCreated(m) PROVE <1>4!1 /\ <1>4!2
    BY <2>5, QueueTypes DEF ObjectCreated
  <2>6. ASSUME NEW m \in Messages, VisibilityExpire(m) PROVE <1>4!1 /\ <1>4!2
    BY <2>6, QueueTypes DEF VisibilityExpire
  <2> QED BY <2>1, <2>2, <2>3, <2>4, <2>5, <2>6 DEF WorkerStep
<1>5. UNCHANGED <<applied, desired, inst, dying, lambdaVars, forces, faults>>
  BY DEF WorkerStep, ReceiveMessage, ReceiveRedrives, ReceiveNothing, ProcessShard,
         ObjectCreated, VisibilityExpire
<1> QED BY <1>2, <1>4, <1>5 DEF IInv, TypeOK

LEMMA StepInv == IInv /\ [Next]_vars => IInv'
<1> SUFFICES ASSUME IInv, [Next]_vars PROVE IInv'
  OBVIOUS
<1>1. CASE UNCHANGED vars
  BY <1>1 DEF vars, IInv, TypeOK, QueueTypeOK, NoOverlap, GroupInv, HandlerInv
<1>2. CASE Next
  BY <1>2, HandlerStep, InstanceStep, MessageStep DEF Next
<1> QED BY <1>1, <1>2

LEMMA Invariant == Spec => []IInv
BY InitInv, StepInv, PTL DEF Spec

(* Every variable keeps its type: in particular no two executions of the   *)
(* dispatcher ever raise the desired capacity above the group's maximum.   *)
THEOREM FleetTypeCorrect == Spec => []TypeOK
<1>1. IInv => TypeOK
  BY DEF IInv
<1> QED BY <1>1, Invariant, PTL

(* However the calls of overlapping executions of the dispatcher           *)
(* interleave with the worker's end, no instance is launched beside one    *)
(* that is still shutting down.                                            *)
THEOREM InstancesDoNotOverlap == Spec => []NoOverlap
<1>1. IInv => NoOverlap
  BY DEF IInv
<1> QED BY <1>1, Invariant, PTL
=============================================================================
