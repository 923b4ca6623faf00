------------------------------ MODULE ShardLedger ------------------------------
(***************************************************************************)
(* What the pipeline promises its user, with no process, queue or buffer   *)
(* in sight: every shard that is announced stays pending until it is done  *)
(* or in quarantine; what is committed stays committed; a shard is done    *)
(* only when all its calls are committed; it is in quarantine only after   *)
(* MaxAttempts attempts, and done and quarantined are final.                *)
(***************************************************************************)
EXTENDS Integers

CONSTANTS
  Items,        \* the announcements
  NeedsOf,      \* the set of calls each announcement asks for
  CallIds,      \* all calls
  MaxAttempts   \* attempts an announcement gets

VARIABLES
  status,     \* of each announcement
  attempts,   \* started for each announcement
  done        \* the calls whose extraction is committed

ledgerVars == <<status, attempts, done>>

LInit ==
  /\ status = [i \in Items |-> "absent"]
  /\ attempts = [i \in Items |-> 0]
  /\ done = {}

Announce(i) ==
  /\ status[i] = "absent"
  /\ status' = [status EXCEPT ![i] = "pending"]
  /\ UNCHANGED <<attempts, done>>

Attempt(i) ==
  /\ status[i] = "pending"
  /\ attempts[i] < MaxAttempts
  /\ attempts' = [attempts EXCEPT ![i] = @ + 1]
  /\ UNCHANGED <<status, done>>

(* A batch commits, on behalf of some announcement that has been tried.    *)
Commit ==
  \E i \in Items :
    /\ attempts[i] > 0
    /\ \E S \in SUBSET NeedsOf[i] : done' = done \cup S
    /\ UNCHANGED <<status, attempts>>

Finish(i) ==
  /\ status[i] = "pending"
  /\ attempts[i] > 0
  /\ NeedsOf[i] \subseteq done
  /\ status' = [status EXCEPT ![i] = "done"]
  /\ UNCHANGED <<attempts, done>>

Quarantine(i) ==
  /\ status[i] = "pending"
  /\ attempts[i] = MaxAttempts
  /\ status' = [status EXCEPT ![i] = "quarantined"]
  /\ UNCHANGED <<attempts, done>>

LNext ==
  \/ \E i \in Items : Announce(i) \/ Attempt(i) \/ Finish(i) \/ Quarantine(i)
  \/ Commit

LSpec == LInit /\ [][LNext]_ledgerVars
=============================================================================
