------------------------------- MODULE Reconcile -------------------------------
(***************************************************************************)
(* How an instance gets its configuration: the systemd unit                *)
(* aws-llm-bootstrap runs bootstrap-shim.sh, which unpacks the playbook    *)
(* tarball and becomes run.sh; the playbook's last role installs a cron    *)
(* job that runs run.sh every five minutes, wrapped in a flock of its own, *)
(* before the tasks that end the playbook.                                 *)
(* Tarballs are numbered in the order of their upload, which is what their *)
(* etags tell apart; 0 stands for none.                                    *)
(***************************************************************************)
EXTENDS Integers

CONSTANTS
  ReqOf,          \* hash of the requirements.yml in each tarball
  NoReq,          \* no such hash
  MaxUploads,     \* bounds of the model: tarballs,
  MaxRestarts,    \* restarts of the unit by an operator,
  MaxFailures,    \* commands that fail
  StartLimitBurst

Tarballs == 1 .. MaxUploads

ASSUME ReconcileAssumption ==
  /\ MaxUploads \in Nat \ {0}
  /\ MaxRestarts \in Nat
  /\ MaxFailures \in Nat
  /\ StartLimitBurst \in Nat \ {0}
  /\ NoReq \notin {ReqOf[v] : v \in Tarballs}
  /\ {"none", "partial"} \cap {ReqOf[v] : v \in Tarballs} = {}

Runs == {"unit", "cron"}   \* who executes run.sh

VARIABLES
  s3,         \* the tarball in the bucket
  dir,        \* the tarball whose files PLAYBOOK_DIR got last
  torn,       \* some of them are missing or cut short
  mixed,      \* there may be files of other tarballs beside them
  marker,     \* ETAG_MARKER
  coll,       \* the collections: absent, incomplete, or for which requirements
  galaxy,     \* GALAXY_MARKER
  unit,       \* where the unit is
  tarball,    \* the tarball the shim downloaded
  starts,     \* starts of the unit that count for its limit
  at,         \* where each execution of run.sh is
  etag,       \* its TARBALL_ETAG
  stage,      \* its STAGE
  lock,       \* who holds LOCK_FILE
  installed,  \* the cron job is installed
  applied,    \* the tarball all of whose roles ran last
  restarts, failures

dirVars == <<dir, torn, mixed, marker, coll, galaxy>>
unitVars == <<unit, tarball, starts>>
runVars == <<at, etag, stage, lock>>
boundVars == <<restarts, failures>>
vars == <<s3, dirVars, unitVars, runVars, installed, applied, boundVars>>

Places == {"off", "flock", "head", "fetch", "rsync", "rsyncing", "mark",
           "galaxy", "installing", "playbook", "post"}

TypeOK ==
  /\ s3 \in Tarballs
  /\ dir \in 0 .. MaxUploads
  /\ torn \in BOOLEAN
  /\ mixed \in BOOLEAN
  /\ marker \in 0 .. MaxUploads
  /\ coll \in {"none", "partial"} \cup {ReqOf[v] : v \in Tarballs}
  /\ galaxy \in {NoReq} \cup {ReqOf[v] : v \in Tarballs}
  /\ unit \in {"shim", "extract", "run", "active", "failed", "given_up"}
  /\ tarball \in 0 .. MaxUploads
  /\ starts \in 1 .. StartLimitBurst
  /\ at \in [Runs -> Places]
  /\ etag \in [Runs -> 0 .. MaxUploads]
  /\ stage \in [Runs -> 0 .. MaxUploads]
  /\ lock \in {"free", "wrapper"} \cup Runs
  /\ installed \in BOOLEAN
  /\ applied \in 0 .. MaxUploads
  /\ restarts \in 0 .. MaxRestarts
  /\ failures \in 0 .. MaxFailures

(* A new instance.                                                         *)
Init ==
  /\ s3 = 1
  /\ dir = 0
  /\ torn = FALSE
  /\ mixed = FALSE
  /\ marker = 0
  /\ coll = "none"
  /\ galaxy = NoReq
  /\ unit = "shim"
  /\ tarball = 0
  /\ starts = 1
  /\ at = [p \in Runs |-> "off"]
  /\ etag = [p \in Runs |-> 0]
  /\ stage = [p \in Runs |-> 0]
  /\ lock = "free"
  /\ installed = FALSE
  /\ applied = 0
  /\ restarts = 0
  /\ failures = 0

-----------------------------------------------------------------------------
(* run.sh, executed by p.                                                  *)

Goto(p, from, to) ==
  /\ at[p] = from
  /\ at' = [at EXCEPT ![p] = to]

(* The process ends.  Its locks go with it: fd 9, and of the cron job also *)
(* the one of the flock command around it.                                 *)
Gone(p) ==
  /\ at' = [at EXCEPT ![p] = "off"]
  /\ etag' = [etag EXCEPT ![p] = 0]
  /\ stage' = [stage EXCEPT ![p] = 0]
  /\ lock' = IF lock = p \/ (p = "cron" /\ lock = "wrapper") THEN "free" ELSE lock

ExitTo(p, state) ==
  /\ Gone(p)
  /\ unit' = IF p = "unit" THEN state ELSE unit
  /\ UNCHANGED <<tarball, starts>>

LockAnyway(p) ==  \* variant: the answer of flock is not looked at
  /\ at[p] = "flock"
  /\ lock' = p
  /\ at' = [at EXCEPT ![p] = "head"]
  /\ UNCHANGED <<unitVars, etag, stage, s3, dirVars, installed, applied, boundVars>>

(* flock -n 9, on an open file of its own: it conflicts with whoever holds *)
(* the lock through another one, the flock command of the cron job that    *)
(* started this very run included.  The run is skipped with status 0.      *)
Lock(p) ==
  /\ at[p] = "flock"
  /\ \/ /\ lock = "free"
        /\ lock' = p
        /\ at' = [at EXCEPT ![p] = "head"]
        /\ UNCHANGED <<unitVars, etag, stage>>
     \/ /\ lock # "free"
        /\ ExitTo(p, "active")
  /\ UNCHANGED <<s3, dirVars, installed, applied, boundVars>>

UpToDateEither == marker = s3 \/ dir # 0   \* variant: or for and

UpToDate == marker = s3 /\ dir # 0

Head(p) ==
  /\ Goto(p, "head", IF UpToDate THEN "galaxy" ELSE "fetch")
  /\ etag' = [etag EXCEPT ![p] = s3]
  /\ UNCHANGED <<stage, lock, s3, dirVars, unitVars, installed, applied, boundVars>>

FetchMarks(p) ==  \* variant: the marker is written before the files
  /\ Goto(p, "fetch", "rsync")
  /\ stage' = [stage EXCEPT ![p] = s3]
  /\ marker' = etag[p]
  /\ UNCHANGED <<etag, lock, s3, dir, torn, mixed, coll, galaxy>>
  /\ UNCHANGED <<unitVars, installed, applied, boundVars>>

(* Downloads what is in the bucket by now, and unpacks it aside.           *)
Fetch(p) ==
  /\ Goto(p, "fetch", "rsync")
  /\ stage' = [stage EXCEPT ![p] = s3]
  /\ UNCHANGED <<etag, lock, s3, dirVars, unitVars, installed, applied, boundVars>>

(* rsync --delete removes what the tarball does not have, in any order the *)
(* collections and both markers among it.                                  *)
RsyncBegin(p) ==
  /\ Goto(p, "rsync", "rsyncing")
  /\ dir' = stage[p]
  /\ torn' = TRUE
  /\ mixed' = TRUE
  /\ marker' \in {marker, 0}
  /\ coll' \in {coll, "none"}
  /\ galaxy' \in {galaxy, NoReq}
  /\ UNCHANGED <<etag, stage, lock, s3, unitVars, installed, applied, boundVars>>

RsyncEnd(p) ==
  /\ Goto(p, "rsyncing", "mark")
  /\ dir' = stage[p]
  /\ torn' = FALSE
  /\ mixed' = FALSE
  /\ marker' = 0
  /\ coll' = "none"
  /\ galaxy' = NoReq
  /\ UNCHANGED <<etag, stage, lock, s3, unitVars, installed, applied, boundVars>>

Mark(p) ==
  /\ Goto(p, "mark", "galaxy")
  /\ marker' = etag[p]
  /\ UNCHANGED <<dir, torn, mixed, coll, galaxy, etag, stage, lock, s3>>
  /\ UNCHANGED <<unitVars, installed, applied, boundVars>>

HasCollections == galaxy = ReqOf[dir] /\ coll # "none"

Galaxy(p) ==
  /\ Goto(p, "galaxy", IF HasCollections THEN "playbook" ELSE "installing")
  /\ coll' = IF HasCollections THEN coll ELSE "partial"
  /\ UNCHANGED <<dir, torn, mixed, marker, galaxy, etag, stage, lock, s3>>
  /\ UNCHANGED <<unitVars, installed, applied, boundVars>>

GalaxyEndMarksEtag(p) ==  \* variant: the marker gets the tarball's etag
  /\ Goto(p, "installing", "playbook")
  /\ coll' = ReqOf[dir]
  /\ galaxy' = etag[p]
  /\ UNCHANGED <<dir, torn, mixed, marker, etag, stage, lock, s3>>
  /\ UNCHANGED <<unitVars, installed, applied, boundVars>>

GalaxyEnd(p) ==
  /\ Goto(p, "installing", "playbook")
  /\ coll' = ReqOf[dir]
  /\ galaxy' = ReqOf[dir]
  /\ UNCHANGED <<dir, torn, mixed, marker, etag, stage, lock, s3>>
  /\ UNCHANGED <<unitVars, installed, applied, boundVars>>

(* All roles have run; the last one installs the cron job.                 *)
RolesEnd(p) ==
  /\ Goto(p, "playbook", "post")
  /\ applied' = dir
  /\ installed' = TRUE
  /\ UNCHANGED <<etag, stage, lock, s3, dirVars, unitVars, boundVars>>

(* The post_tasks, which leave nothing that anybody reads, are over too.   *)
PlaybookEnd(p) ==
  /\ at[p] = "post"
  /\ ExitTo(p, "active")
  /\ UNCHANGED <<s3, dirVars, installed, applied, boundVars>>

(* set -e: any command that fails ends the run.                            *)
Fail(p) ==
  /\ at[p] \notin {"off", "flock"}
  /\ failures < MaxFailures
  /\ failures' = failures + 1
  /\ ExitTo(p, "failed")
  /\ UNCHANGED <<s3, dirVars, installed, applied, restarts>>

RunStep(p) ==
  \/ Lock(p)
  \/ Head(p)
  \/ Fetch(p)
  \/ RsyncBegin(p)
  \/ RsyncEnd(p)
  \/ Mark(p)
  \/ Galaxy(p)
  \/ GalaxyEnd(p)
  \/ RolesEnd(p)
  \/ PlaybookEnd(p)

-----------------------------------------------------------------------------
(* The unit and its shim.                                                  *)

ShimFetch ==
  /\ unit = "shim"
  /\ unit' = "extract"
  /\ tarball' = s3
  /\ UNCHANGED <<starts, runVars, s3, dirVars, installed, applied, boundVars>>

(* tar unpacks over what is there, and without the lock.                   *)
Unpack ==
  /\ dir' = tarball
  /\ mixed' = (mixed \/ dir \notin {0, tarball})

ShimExtract ==
  /\ unit = "extract"
  /\ unit' = "run"
  /\ Unpack
  /\ torn' = FALSE
  /\ at' = [at EXCEPT !["unit"] = "flock"]
  /\ UNCHANGED <<marker, coll, galaxy, tarball, starts, etag, stage, lock, s3>>
  /\ UNCHANGED <<installed, applied, boundVars>>

(* The download fails, or tar does in the middle.                          *)
ShimFail ==
  /\ unit \in {"shim", "extract"}
  /\ failures < MaxFailures
  /\ failures' = failures + 1
  /\ unit' = "failed"
  /\ \/ unit = "extract" /\ Unpack /\ torn' = TRUE
     \/ UNCHANGED <<dir, torn, mixed>>
  /\ UNCHANGED <<marker, coll, galaxy, tarball, starts, runVars, s3>>
  /\ UNCHANGED <<installed, applied, restarts>>

RestartNever ==  \* variant: Restart=no
  /\ unit = "failed"
  /\ unit' = "given_up"
  /\ UNCHANGED <<tarball, starts, runVars, s3, dirVars, installed, applied, boundVars>>

(* systemd starts the unit, unless it has been started StartLimitBurst     *)
(* times within StartLimitIntervalSec; whether that has passed is open.    *)
StartLimited ==
  \/ unit' = "shim" /\ starts' = 1
  \/ unit' = "shim" /\ starts < StartLimitBurst /\ starts' = starts + 1
  \/ unit' = "given_up" /\ starts = StartLimitBurst /\ UNCHANGED starts

(* Restart=on-failure                                                      *)
Restart ==
  /\ unit = "failed"
  /\ StartLimited
  /\ UNCHANGED <<tarball, runVars, s3, dirVars, installed, applied, boundVars>>

(* systemctl restart: whatever the unit is running is killed first; the    *)
(* start counts like any other.                                            *)
OperatorRestart ==
  /\ restarts < MaxRestarts
  /\ restarts' = restarts + 1
  /\ Gone("unit")
  /\ StartLimited
  /\ \/ unit = "extract" /\ Unpack /\ torn' = TRUE
     \/ UNCHANGED <<dir, torn, mixed>>
  /\ UNCHANGED <<tarball, marker, coll, galaxy, s3, installed, applied, failures>>

UnitStep == ShimFetch \/ ShimExtract \/ Restart \/ RunStep("unit")

-----------------------------------------------------------------------------
(* The cron job.                                                           *)

(* flock -n LOCK_FILE run.sh: the lock is taken, then run.sh started; if   *)
(* it cannot be taken nothing happens.                                     *)
CronTick ==
  /\ installed
  /\ at["cron"] = "off"
  /\ lock = "free"
  /\ lock' = "wrapper"
  /\ at' = [at EXCEPT !["cron"] = "flock"]
  /\ UNCHANGED <<etag, stage, s3, dirVars, unitVars, installed, applied, boundVars>>

(* make sync-ansible                                                       *)
SyncAnsible ==
  /\ s3 < MaxUploads
  /\ s3' = s3 + 1
  /\ UNCHANGED <<dirVars, unitVars, runVars, installed, applied, boundVars>>

Next ==
  \/ \E p \in Runs : RunStep(p) \/ Fail(p)
  \/ ShimFetch
  \/ ShimExtract
  \/ ShimFail
  \/ Restart
  \/ OperatorRestart
  \/ CronTick
  \/ SyncAnsible

Spec == Init /\ [][Next]_vars

(* The unit's processes and those of cron go on, and cron ticks.           *)
FairSpec ==
  /\ Spec
  /\ WF_vars(UnitStep)
  /\ WF_vars(RunStep("cron"))
  /\ WF_vars(CronTick)

-----------------------------------------------------------------------------
(* Properties.                                                             *)

Changing(p) == at[p] \notin {"off", "flock"}

(* run.sh:37-43, ansible_cron/tasks/main.yml:2: two runs never work on the *)
(* playbook directory at the same time, nor does a run with the shim.      *)
Exclusive ==
  /\ ~(Changing("unit") /\ Changing("cron"))
  /\ unit = "extract" => ~Changing("cron")

(* run.sh:59-82: whatever killed or failed earlier runs, a playbook runs   *)
(* from the files of one tarball, with the collections it requires.        *)
RunsWhole ==
  \A p \in Runs : at[p] \in {"playbook", "post"} => ~torn /\ ~mixed /\ coll = ReqOf[dir]

(* run.sh:47-56: a run never takes an old playbook for the one it saw in   *)
(* the bucket.                                                             *)
RunsCurrent ==
  \A p \in Runs :
    at[p] \in {"galaxy", "installing", "playbook", "post"} => dir >= etag[p]

(* bootstrap-shim.sh:6-9: fewer failures and restarts than StartLimitBurst *)
(* do not keep a new instance from being configured by all the roles.      *)
Configured == <>(applied # 0 \/ failures + restarts >= StartLimitBurst)

(* README.md:187-190: the cron job brings a new tarball to a running       *)
(* instance.                                                               *)
PicksUp == \A v \in Tarballs : s3 = v ~> applied >= v

-----------------------------------------------------------------------------
(* The strengthening of Exclusive, RunsWhole and RunsCurrent.              *)

(* A run of the cron job finds its own wrapper holding the lock, so only   *)
(* the unit ever changes anything.                                         *)
CronInv ==
  /\ at["cron"] \in {"off", "flock"}
  /\ at["cron"] = "flock" => lock = "wrapper"
  /\ lock # "cron"

UnitInv ==
  /\ at["unit"] # "off" => unit = "run"
  /\ tarball <= s3 /\ dir <= s3 /\ etag["unit"] <= s3
  /\ unit = "extract" => tarball >= dir /\ tarball # 0
  /\ at["unit"] # "off" => dir # 0

(* The marker is behind the bucket whenever the files cannot be trusted;   *)
(* when they can, the collections are those of the files, or not marked.   *)
MarkerInv ==
  /\ marker <= dir
  /\ mixed => marker < dir
  /\ ~mixed /\ galaxy # NoReq => dir # 0 /\ galaxy = ReqOf[dir] /\ coll = galaxy

RunInv ==
  /\ at["unit"] \notin {"off", "rsyncing"} => ~torn
  /\ at["unit"] \in {"fetch", "rsync", "rsyncing", "mark"} => etag["unit"] # 0
  /\ at["unit"] \in {"fetch", "rsync"} => marker < etag["unit"]
  /\ at["unit"] \in {"rsync", "rsyncing", "mark"} =>
       etag["unit"] <= stage["unit"] /\ stage["unit"] <= s3
  /\ at["unit"] \in {"rsync", "rsyncing"} => stage["unit"] >= dir
  /\ at["unit"] = "rsyncing" => mixed /\ dir = stage["unit"]
  /\ at["unit"] = "mark" => dir = stage["unit"] /\ ~mixed /\ marker = 0
  /\ at["unit"] \in {"galaxy", "installing", "playbook", "post"} =>
       ~mixed /\ dir >= etag["unit"]
  /\ at["unit"] = "installing" => galaxy = NoReq
  /\ at["unit"] \in {"playbook", "post"} => coll = ReqOf[dir]

IInv == TypeOK /\ CronInv /\ UnitInv /\ MarkerInv /\ RunInv
=============================================================================
