---------------------------- MODULE ReconcileProofs ----------------------------
(***************************************************************************)
(* The safety of Reconcile, for any number of tarballs, restarts and       *)
(* failures: TypeOK, Exclusive, RunsWhole, RunsCurrent.                    *)
(***************************************************************************)
EXTENDS Reconcile, TLAPS

USE DEF dirVars, unitVars, runVars, boundVars, Runs, Places, Tarballs

LEMMA InitInv == Init => IInv
<1> SUFFICES ASSUME Init PROVE IInv
  OBVIOUS
<1> USE ReconcileAssumption DEF Init
<1>0. torn \in BOOLEAN /\ mixed \in BOOLEAN /\ installed \in BOOLEAN
  BY Zenon
<1>a. /\ at \in [Runs -> Places]
      /\ etag \in [Runs -> 0 .. MaxUploads]
      /\ stage \in [Runs -> 0 .. MaxUploads]
  OBVIOUS
<1>1. TypeOK
  BY <1>0, <1>a DEF TypeOK
<1>2. CronInv /\ UnitInv
  BY DEF CronInv, UnitInv
<1>3. MarkerInv /\ RunInv
  BY DEF MarkerInv, RunInv
<1> QED BY <1>1, <1>2, <1>3 DEF IInv

-----------------------------------------------------------------------------
(* Types.                                                                  *)

LEMMA ExitTypes ==
  ASSUME TypeOK, NEW p \in Runs, NEW state \in {"active", "failed"}, ExitTo(p, state)
  PROVE  /\ at' \in [Runs -> Places]
         /\ etag' \in [Runs -> 0 .. MaxUploads]
         /\ stage' \in [Runs -> 0 .. MaxUploads]
         /\ lock' \in {"free", "wrapper"} \cup Runs
         /\ unit' \in {"shim", "extract", "run", "active", "failed", "given_up"}
         /\ tarball' \in 0 .. MaxUploads
         /\ starts' \in 1 .. StartLimitBurst
BY ReconcileAssumption DEF TypeOK, ExitTo, Gone

LEMMA UnpackTypes ==
  ASSUME TypeOK, Unpack \/ UNCHANGED <<dir, mixed>>
  PROVE  dir' \in 0 .. MaxUploads /\ mixed' \in BOOLEAN
<1>1. dir' \in 0 .. MaxUploads
  BY DEF Unpack, TypeOK
<1>2. CASE Unpack
  <2>1. mixed' = (mixed \/ dir \notin {0, tarball})
    BY <1>2 DEF Unpack
  <2>2. mixed' \in BOOLEAN
    BY <2>1, Zenon
  <2> QED BY <1>1, <2>2
<1>3. CASE UNCHANGED <<dir, mixed>>
  BY <1>1, <1>3 DEF TypeOK
<1> QED BY <1>2, <1>3

LEMMA RunTypes ==
  ASSUME IInv, NEW p \in Runs, RunStep(p) \/ Fail(p)
  PROVE  TypeOK'
<1> USE ReconcileAssumption
<1>0. TypeOK /\ (at[p] = "installing" => dir # 0)
  BY DEF IInv, CronInv, UnitInv
<1> USE <1>0
<1>1. CASE Lock(p)
  <2>1. CASE lock = "free"
    BY <1>1, <2>1 DEF Lock, TypeOK
  <2>2. CASE lock # "free"
    BY <1>1, <2>2, ExitTypes DEF Lock, TypeOK
  <2> QED BY <2>1, <2>2
<1>2. CASE Head(p)
  BY <1>2 DEF Head, Goto, TypeOK
<1>3. CASE Fetch(p)
  BY <1>3 DEF Fetch, Goto, TypeOK
<1>4. CASE RsyncBegin(p)
  BY <1>4 DEF RsyncBegin, Goto, TypeOK
<1>5. CASE RsyncEnd(p)
  <2>1. torn' \in BOOLEAN /\ mixed' \in BOOLEAN
    BY <1>5, Zenon DEF RsyncEnd
  <2> QED BY <1>5, <2>1 DEF RsyncEnd, Goto, TypeOK
<1>6. CASE Mark(p)
  BY <1>6 DEF Mark, Goto, TypeOK
<1>7. CASE Galaxy(p)
  BY <1>7 DEF Galaxy, Goto, TypeOK
<1>8. CASE GalaxyEnd(p)
  <2>1. dir \in 1 .. MaxUploads
    BY <1>8 DEF GalaxyEnd, Goto, TypeOK
  <2> QED BY <1>8, <2>1 DEF GalaxyEnd, Goto, TypeOK
<1>9. CASE PlaybookEnd(p)
  BY <1>9, ExitTypes DEF PlaybookEnd, TypeOK
<1>10. CASE Fail(p)
  BY <1>10, ExitTypes DEF Fail, TypeOK
<1>11. CASE RolesEnd(p)
  BY <1>11 DEF RolesEnd, Goto, TypeOK
<1> QED
  BY <1>1, <1>2, <1>3, <1>4, <1>5, <1>6, <1>7, <1>8, <1>9, <1>10, <1>11 DEF RunStep

LEMMA TypeStep == IInv /\ [Next]_vars => TypeOK'
<1> SUFFICES ASSUME IInv, TypeOK, [Next]_vars PROVE TypeOK'
  BY DEF IInv
<1> USE ReconcileAssumption
<1>1. CASE \E p \in Runs : RunStep(p) \/ Fail(p)
  BY <1>1, RunTypes
<1>2. CASE ShimFetch
  BY <1>2 DEF ShimFetch, TypeOK
<1>3. CASE ShimExtract
  BY <1>3 DEF ShimExtract, Unpack, TypeOK
<1>4. CASE ShimFail
  <2>1. dir' \in 0 .. MaxUploads /\ mixed' \in BOOLEAN
    BY <1>4, UnpackTypes DEF ShimFail
  <2>2. torn' \in BOOLEAN
    BY <1>4 DEF ShimFail, TypeOK
  <2> QED BY <1>4, <2>1, <2>2 DEF ShimFail, TypeOK
<1>5. CASE Restart
  BY <1>5 DEF Restart, StartLimited, TypeOK
<1>6. CASE OperatorRestart
  <2>1. dir' \in 0 .. MaxUploads /\ mixed' \in BOOLEAN
    BY <1>6, UnpackTypes DEF OperatorRestart
  <2>2. torn' \in BOOLEAN
    BY <1>6 DEF OperatorRestart, TypeOK
  <2> QED BY <1>6, <2>1, <2>2 DEF OperatorRestart, StartLimited, Gone, TypeOK
<1>7. CASE CronTick
  BY <1>7 DEF CronTick, TypeOK
<1>8. CASE SyncAnsible
  BY <1>8 DEF SyncAnsible, TypeOK
<1>9. CASE UNCHANGED vars
  BY <1>9 DEF vars, TypeOK
<1> QED BY <1>1, <1>2, <1>3, <1>4, <1>5, <1>6, <1>7, <1>8, <1>9 DEF Next

-----------------------------------------------------------------------------
(* The invariant.                                                          *)

(* A run of the cron job can only be skipped.                              *)
LEMMA CronSkips ==
  ASSUME IInv, RunStep("cron") \/ Fail("cron")
  PROVE  /\ at["cron"] = "flock" /\ lock = "wrapper" /\ lock' = "free"
         /\ at' = [at EXCEPT !["cron"] = "off"]
         /\ etag' = [etag EXCEPT !["cron"] = 0]
         /\ stage' = [stage EXCEPT !["cron"] = 0]
         /\ UNCHANGED <<s3, dirVars, unitVars, installed, applied, boundVars>>
BY DEF IInv, CronInv, RunStep, Fail, Lock, Head, Fetch, RsyncBegin, RsyncEnd, Mark,
       Galaxy, GalaxyEnd, RolesEnd, PlaybookEnd, Goto, ExitTo, Gone

LEMMA UnitRun ==
  ASSUME IInv, RunStep("unit") \/ Fail("unit")
  PROVE  CronInv' /\ UnitInv' /\ MarkerInv' /\ RunInv'
<1> USE ReconcileAssumption DEF IInv
<1>0. TypeOK /\ CronInv /\ UnitInv /\ MarkerInv /\ RunInv
  OBVIOUS
<1>c. CronInv'
  BY DEF TypeOK, CronInv, RunStep, Fail, Lock, Head, Fetch, RsyncBegin, RsyncEnd,
         Mark, Galaxy, GalaxyEnd, RolesEnd, PlaybookEnd, Goto, ExitTo, Gone
<1>1. CASE Lock("unit")
  <2>1. CASE lock = "free"
    <3>1. /\ at["unit"] = "flock" /\ at' = [at EXCEPT !["unit"] = "head"]
          /\ UNCHANGED <<etag, stage, s3, dirVars, unitVars>>
      BY <1>1, <2>1 DEF Lock
    <3>2. at'["unit"] = "head"
      BY <3>1 DEF TypeOK
    <3>3. UnitInv'
      BY <3>1, <3>2 DEF UnitInv
    <3>4. MarkerInv'
      BY <3>1 DEF MarkerInv
    <3>5. RunInv'
      BY <3>1, <3>2 DEF RunInv
    <3> QED BY <1>c, <3>3, <3>4, <3>5
  <2>2. CASE lock # "free"
    <3>1. /\ ExitTo("unit", "active")
          /\ UNCHANGED <<s3, dirVars>>
      BY <1>1, <2>2 DEF Lock
    <3>2. at'["unit"] = "off" /\ etag'["unit"] = 0
      BY <3>1 DEF ExitTo, Gone, TypeOK
    <3>3. UnitInv'
      BY <3>1, <3>2 DEF ExitTo, UnitInv, TypeOK
    <3>4. MarkerInv'
      BY <3>1 DEF MarkerInv
    <3>5. RunInv'
      BY <3>2 DEF RunInv
    <3> QED BY <1>c, <3>3, <3>4, <3>5
  <2> QED BY <1>c, <2>1, <2>2
<1>2. CASE Head("unit")
  <2>1. UnitInv' /\ MarkerInv'
    BY <1>2 DEF Head, Goto, TypeOK, UnitInv, MarkerInv
  <2>2. RunInv'
    BY <1>2 DEF Head, Goto, UpToDate, TypeOK, UnitInv, MarkerInv, RunInv
  <2> QED BY <1>c, <2>1, <2>2
<1>3. CASE Fetch("unit")
  BY <1>c, <1>3 DEF Fetch, Goto, TypeOK, UnitInv, MarkerInv, RunInv
<1>4. CASE RsyncBegin("unit")
  BY <1>c, <1>4 DEF RsyncBegin, Goto, TypeOK, UnitInv, MarkerInv, RunInv
<1>5. CASE RsyncEnd("unit")
  BY <1>c, <1>5 DEF RsyncEnd, Goto, TypeOK, UnitInv, MarkerInv, RunInv
<1>6. CASE Mark("unit")
  BY <1>c, <1>6 DEF Mark, Goto, TypeOK, UnitInv, MarkerInv, RunInv
<1>7. CASE Galaxy("unit")
  <2>1. ReqOf[dir] # NoReq /\ ReqOf[dir] # "none"
    BY <1>7 DEF Galaxy, Goto, TypeOK, UnitInv
  <2>2. CASE HasCollections
    BY <1>c, <1>7, <2>1, <2>2 DEF Galaxy, Goto, HasCollections, TypeOK, UnitInv, MarkerInv, RunInv
  <2>3. CASE ~HasCollections
    BY <1>c, <1>7, <2>1, <2>3 DEF Galaxy, Goto, HasCollections, TypeOK, UnitInv, MarkerInv, RunInv
  <2> QED BY <2>2, <2>3
<1>8. CASE GalaxyEnd("unit")
  BY <1>c, <1>8 DEF GalaxyEnd, Goto, TypeOK, UnitInv, MarkerInv, RunInv
<1>9. CASE PlaybookEnd("unit")
  BY <1>c, <1>9 DEF PlaybookEnd, ExitTo, Gone, TypeOK, UnitInv, MarkerInv, RunInv
<1>10. CASE Fail("unit")
  BY <1>c, <1>10 DEF Fail, ExitTo, Gone, TypeOK, UnitInv, MarkerInv, RunInv
<1>11. CASE RolesEnd("unit")
  BY <1>c, <1>11 DEF RolesEnd, Goto, TypeOK, UnitInv, MarkerInv, RunInv
<1> QED
  BY <1>1, <1>2, <1>3, <1>4, <1>5, <1>6, <1>7, <1>8, <1>9, <1>10, <1>11 DEF RunStep

(* Unpacking over the directory: the marker stays behind what was mixed.   *)
LEMMA Unpacking ==
  ASSUME IInv, unit = "extract", Unpack, UNCHANGED <<marker, coll, galaxy>>
  PROVE  MarkerInv' /\ dir' = tarball /\ dir' # 0
<1> USE ReconcileAssumption
<1>1. /\ dir' = tarball /\ dir' # 0 /\ dir \in Nat /\ dir' \in Nat /\ dir <= dir'
      /\ marker \in Nat /\ marker <= dir
  BY DEF IInv, TypeOK, UnitInv, MarkerInv, Unpack
<1>2. mixed' = (mixed \/ dir \notin {0, dir'})
  BY <1>1 DEF Unpack
<1>3. marker' <= dir'
  BY <1>1
<1>4. ASSUME mixed' PROVE marker' < dir'
  <2>1. mixed => marker < dir
    BY DEF IInv, MarkerInv
  <2>2. mixed \/ dir \notin {0, dir'}
    BY <1>2, <1>4, Zenon
  <2> QED BY <1>1, <2>1, <2>2
<1>5. ASSUME ~mixed', galaxy # NoReq
      PROVE  dir' # 0 /\ galaxy = ReqOf[dir'] /\ coll = galaxy
  <2>1. ~mixed /\ dir \in {0, dir'}
    BY <1>2, <1>5, Zenon
  <2>2. dir # 0 /\ galaxy = ReqOf[dir] /\ coll = galaxy
    BY <1>5, <2>1 DEF IInv, MarkerInv
  <2> QED BY <2>1, <2>2, <1>1
<1> QED BY <1>1, <1>3, <1>4, <1>5 DEF MarkerInv

LEMMA StepInv == IInv /\ [Next]_vars => IInv'
<1> SUFFICES ASSUME IInv, [Next]_vars PROVE CronInv' /\ UnitInv' /\ MarkerInv' /\ RunInv'
  BY TypeStep DEF IInv
<1> USE ReconcileAssumption DEF IInv
<1>1. CASE RunStep("unit") \/ Fail("unit")
  BY <1>1, UnitRun
<1>2. CASE RunStep("cron") \/ Fail("cron")
  <2>1. /\ at' = [at EXCEPT !["cron"] = "off"]
        /\ etag' = [etag EXCEPT !["cron"] = 0]
        /\ stage' = [stage EXCEPT !["cron"] = 0]
        /\ lock' = "free"
        /\ UNCHANGED <<s3, dirVars, unitVars>>
    BY <1>2, CronSkips
  <2> QED BY <2>1 DEF TypeOK, CronInv, UnitInv, MarkerInv, RunInv
<1>3. CASE ShimFetch
  BY <1>3 DEF ShimFetch, TypeOK, CronInv, UnitInv, MarkerInv, RunInv
<1>4. CASE ShimExtract
  <2>1. MarkerInv' /\ dir' = tarball /\ dir' # 0
    BY <1>4, Unpacking DEF ShimExtract
  <2> QED BY <1>4, <2>1 DEF ShimExtract, TypeOK, CronInv, UnitInv, RunInv
<1>5. CASE ShimFail
  <2>1. at["unit"] = "off"
    BY <1>5 DEF ShimFail, UnitInv
  <2>2. MarkerInv' /\ dir' <= s3
    BY <1>5, Unpacking DEF ShimFail, UnitInv, MarkerInv
  <2> QED BY <1>5, <2>1, <2>2 DEF ShimFail, TypeOK, CronInv, UnitInv, RunInv
<1>6. CASE Restart
  BY <1>6 DEF Restart, StartLimited, TypeOK, CronInv, UnitInv, MarkerInv, RunInv
<1>7. CASE OperatorRestart
  <2>1. at'["unit"] = "off" /\ at'["cron"] = at["cron"] /\ etag'["unit"] = 0
    BY <1>7 DEF OperatorRestart, Gone, TypeOK
  <2>2. MarkerInv' /\ dir' <= s3
    BY <1>7, Unpacking DEF OperatorRestart, UnitInv, MarkerInv
  <2>3. CronInv'
    BY <1>7, <2>1 DEF OperatorRestart, Gone, CronInv
  <2> QED
    BY <1>7, <2>1, <2>2, <2>3 DEF OperatorRestart, StartLimited, TypeOK, UnitInv, RunInv
<1>8. CASE CronTick
  BY <1>8 DEF CronTick, TypeOK, CronInv, UnitInv, MarkerInv, RunInv
<1>9. CASE SyncAnsible
  BY <1>9 DEF SyncAnsible, TypeOK, CronInv, UnitInv, MarkerInv, RunInv
<1>10. CASE UNCHANGED vars
  BY <1>10 DEF vars, CronInv, UnitInv, MarkerInv, RunInv
<1> QED BY <1>1, <1>2, <1>3, <1>4, <1>5, <1>6, <1>7, <1>8, <1>9, <1>10 DEF Next

LEMMA Invariance == Spec => []IInv
BY InitInv, StepInv, PTL DEF Spec

-----------------------------------------------------------------------------

(* The types of the directory, the unit, the runs and the locks.           *)
THEOREM ReconcileTypeCorrect == Spec => []TypeOK
<1>1. IInv => TypeOK
  BY DEF IInv
<1> QED BY <1>1, Invariance, PTL

(* Two runs never change the playbook directory together, nor does one     *)
(* while the shim unpacks: as the cron job is deployed, none of its runs   *)
(* ever gets that far.                                                     *)
THEOREM RunsExclude == Spec => []Exclusive
<1>1. IInv => Exclusive
  BY DEF IInv, CronInv, Exclusive, Changing
<1> QED BY <1>1, Invariance, PTL

(* However earlier runs and shims ended, a playbook runs from the files of *)
(* one tarball with the collections it requires.                           *)
THEOREM PlaybookIsWhole == Spec => []RunsWhole
<1>1. IInv => RunsWhole
  BY DEF IInv, CronInv, RunInv, RunsWhole
<1> QED BY <1>1, Invariance, PTL

(* Whenever tarballs are uploaded, a run that goes on to the playbook has  *)
(* at least the one whose etag it read.                                    *)
THEOREM PlaybookIsCurrent == Spec => []RunsCurrent
<1>1. IInv => RunsCurrent
  BY DEF IInv, CronInv, RunInv, RunsCurrent
<1> QED BY <1>1, Invariance, PTL
=============================================================================
