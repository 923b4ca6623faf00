----------------------- MODULE VisibilityHeartbeatProofs -----------------------
(***************************************************************************)
(* Owned for every interval, timeout, call length and number of failures   *)
(* that satisfies LeaseAssumption.                                         *)
(***************************************************************************)
EXTENDS VisibilityHeartbeat, TLAPS

LEMMA Numbers ==
  /\ Visibility \in Nat /\ Interval \in Nat /\ MaxCall \in Nat /\ MaxMisses \in Nat
  /\ Period \in Nat /\ ExtendTo \in Nat
  /\ Period = Interval + MaxCall
  /\ ExtendTo <= Visibility
BY HeartbeatAssumption, LeaseAssumption DEF Period, ExtendTo

(* The reserve for the calls in vain, as a number: a call that fails takes *)
(* one period of it.                                                       *)
LEMMA ReserveFacts ==
  ASSUME NEW M \in Nat, NEW P \in Nat, NEW k \in 0 .. M
  PROVE  /\ (M - k) * P \in Nat
         /\ M * P \in Nat
         /\ (M - 0) * P = M * P
         /\ k < M => (M - k) * P = P + (M - (k + 1)) * P
OBVIOUS

LEMMA Reserve ==
  ASSUME TypeOK
  PROVE  /\ Remaining \in Nat
         /\ MaxMisses * Period \in Nat
         /\ misses = 0 => Remaining = MaxMisses * Period
         /\ misses < MaxMisses => Remaining = Period + (MaxMisses - (misses + 1)) * Period
<1>1. misses \in 0 .. MaxMisses
  BY DEF TypeOK
<1> QED BY <1>1, Numbers, ReserveFacts DEF Remaining

LEMMA InitInv == Init => IInv
<1> SUFFICES ASSUME Init PROVE IInv
  OBVIOUS
<1>1. TypeOK
  <2>1. /\ left \in 0 .. Visibility
        /\ timer \in 0 .. Period
        /\ misses \in 0 .. MaxMisses
    BY Numbers DEF Init
  <2>2. deleted \in BOOLEAN /\ ok \in BOOLEAN /\ stop \in BOOLEAN /\ hit \in BOOLEAN
    BY DEF Init
  <2>3. /\ phase \in {"received", "processing", "joining", "over"}
        /\ thread \in {"off", "waiting", "calling", "ended"}
    BY DEF Init
  <2> QED BY <2>1, <2>2, <2>3 DEF TypeOK
<1>2. LeaseInv
  BY DEF Init, LeaseInv
<1>3. FreshInv
  BY DEF Init, FreshInv
<1> QED BY <1>1, <1>2, <1>3 DEF IInv

LEMMA TypeStep == TypeOK /\ [Next]_vars => TypeOK'
<1> SUFFICES ASSUME TypeOK, [Next]_vars PROVE TypeOK'
  OBVIOUS
<1> USE Numbers DEF TypeOK
<1>1. CASE Enter
  BY <1>1 DEF Enter
<1>2. CASE Exit
  BY <1>2 DEF Exit
<1>3. CASE JoinAndDecide
  <2>1. deleted' \in BOOLEAN
    BY <1>3, Zenon DEF JoinAndDecide
  <2>2. /\ left' \in 0 .. Visibility /\ timer' \in 0 .. Period /\ misses' \in 0 .. MaxMisses
        /\ phase' \in {"received", "processing", "joining", "over"}
        /\ thread' \in {"off", "waiting", "calling", "ended"}
    BY <1>3 DEF JoinAndDecide
  <2>3. ok' \in BOOLEAN /\ stop' \in BOOLEAN /\ hit' \in BOOLEAN
    BY <1>3, Zenon DEF JoinAndDecide
  <2> QED BY <2>1, <2>2, <2>3 DEF TypeOK
<1>4. CASE WaitStopped
  BY <1>4 DEF WaitStopped
<1>5. CASE WaitTimeout
  <2>1. timer' \in 0 .. Period
    <3>1. timer' = MaxCall
      BY <1>5 DEF WaitTimeout
    <3> QED BY <3>1
  <2>2. hit' \in BOOLEAN
    BY <1>5, Zenon DEF WaitTimeout
  <2> QED BY <1>5, <2>1, <2>2 DEF WaitTimeout
<1>6. CASE Extend
  BY <1>6 DEF Extend
<1>7. CASE CallEnd
  BY <1>7 DEF CallEnd
<1>8. CASE Pass
  BY <1>8 DEF Pass
<1>9. CASE UNCHANGED vars
  BY <1>9 DEF vars
<1> QED BY <1>1, <1>2, <1>3, <1>4, <1>5, <1>6, <1>7, <1>8, <1>9 DEF Next, ThreadStep

LEMMA StepInv == IInv /\ [Next]_vars => IInv'
<1> SUFFICES ASSUME IInv, [Next]_vars PROVE IInv'
  OBVIOUS
<1>t. TypeOK /\ TypeOK'
  BY TypeStep DEF IInv
<1>r. FreshInv'
  <2> SUFFICES ASSUME phase' = "received" PROVE FreshInv'
    BY DEF FreshInv
  <2>1. ~(Enter \/ Exit \/ JoinAndDecide)
    BY DEF Enter, Exit, JoinAndDecide
  <2>2. phase = "received" /\ thread = "off"
    BY <2>1 DEF IInv, FreshInv, vars, Next, ThreadStep, WaitStopped, WaitTimeout,
                Extend, CallEnd, Pass
  <2>3. UNCHANGED vars
    BY <2>1, <2>2 DEF Next, ThreadStep, WaitStopped, WaitTimeout, Extend, CallEnd, Pass
  <2> QED BY <2>2, <2>3 DEF IInv, FreshInv, vars
<1>l. LeaseInv'
  <2> SUFFICES ASSUME phase' = "processing" PROVE LeaseInv'
    BY DEF LeaseInv
  <2> USE Numbers, <1>t, Reserve
  <2>1. CASE Enter
    <3>1. left' = Visibility /\ misses' = 0 /\ ~stop' /\ ~deleted'
      BY <2>1 DEF Enter, IInv, FreshInv
    <3>2. misses = 0 /\ Remaining' = MaxMisses * Period
      BY <2>1, <3>1 DEF Enter, IInv, FreshInv, Remaining
    <3>3. MaxCall + Period + MaxMisses * Period < Visibility
      BY LeaseAssumption DEF TypeOK
    <3> QED BY <2>1, <3>1, <3>2, <3>3 DEF Enter, LeaseInv, TypeOK
  <2>2. CASE Exit \/ JoinAndDecide
    BY <2>2 DEF Exit, JoinAndDecide
  <2>3. CASE WaitStopped
    BY <2>3 DEF WaitStopped, IInv, LeaseInv
  <2>4. CASE WaitTimeout
    <3>1. Remaining' = Remaining
      BY <2>4 DEF WaitTimeout, Remaining
    <3> QED BY <2>4, <3>1 DEF WaitTimeout, IInv, LeaseInv, TypeOK
  <2>5. CASE Extend
    BY <2>5, LeaseAssumption DEF Extend, IInv, LeaseInv, TypeOK
  <2>6. CASE CallEnd
    <3>0. LeaseInv /\ phase = "processing" /\ thread = "calling"
      BY <2>6 DEF CallEnd, IInv
    <3>1. CASE hit
      <4>1. misses' = 0 /\ Remaining' = MaxMisses * Period
        BY <2>6, <3>1 DEF CallEnd, Remaining
      <4> QED BY <2>6, <3>0, <3>1, <4>1 DEF CallEnd, LeaseInv, TypeOK
    <3>2. CASE ~hit
      <4>1. left > 0 /\ ~deleted
        BY <3>0, <3>2 DEF LeaseInv, TypeOK
      <4>2. misses < MaxMisses /\ misses' = misses + 1
        BY <2>6, <3>2, <4>1 DEF CallEnd
      <4>3. Remaining = Period + Remaining'
        BY <4>2 DEF Remaining
      <4> QED BY <2>6, <3>0, <3>2, <4>2, <4>3 DEF CallEnd, LeaseInv, TypeOK
    <3> QED BY <3>1, <3>2
  <2>7. CASE Pass
    <3>1. Remaining' = Remaining
      BY <2>7 DEF Pass, Remaining
    <3> QED BY <2>7, <3>1 DEF Pass, IInv, LeaseInv, TypeOK
  <2>8. CASE UNCHANGED vars
    <3>1. Remaining' = Remaining
      BY <2>8 DEF vars, Remaining
    <3> QED BY <2>8, <3>1 DEF vars, IInv, LeaseInv
  <2> QED BY <2>1, <2>2, <2>3, <2>4, <2>5, <2>6, <2>7, <2>8 DEF Next, ThreadStep
<1> QED BY <1>t, <1>r, <1>l DEF IInv

(* The types of the heartbeat's variables: no extension takes the timeout  *)
(* beyond the queue's own.                                                 *)
THEOREM HeartbeatTypeCorrect == Spec => []TypeOK
<1>1. Init => TypeOK
  BY InitInv DEF IInv
<1> QED BY <1>1, TypeStep, PTL DEF Spec

(* Whatever the interval, the timeout, the length of the calls and the     *)
(* number of failures in a row, if an extension outlasts them, the message *)
(* never becomes visible while its shard is being processed.               *)
THEOREM MessageIsOwned == Spec => []Owned
<1>1. Spec => []IInv
  BY InitInv, StepInv, PTL DEF Spec
<1>2. IInv => Owned
  <2> SUFFICES ASSUME IInv, phase = "processing" PROVE left > 0
    BY DEF Owned
  <2> QED BY Numbers, Reserve DEF IInv, LeaseInv, TypeOK
<1> QED BY <1>1, <1>2, PTL
=============================================================================
