---------------------------- MODULE JobLifecycle ----------------------------
(***************************************************************************)
(* What the background job store promises for each job, with every store   *)
(* operation atomic: the statuses of JobStatus (server/src/domain/job.rs), *)
(* the moves between them that the operations of HarpeStore make, and the  *)
(* attempts each job is granted.  JobQueue, where an operation is a read   *)
(* and a later write, is shown to implement this module.                   *)
(***************************************************************************)
EXTENDS Integers

CONSTANT Job          \* the ids of the rows of table background_job

VARIABLES
  phase,              \* the status of each job, "absent" before and "purged" after its row exists
  attempts,           \* executions started since the job was last granted attempts
  granted             \* the attempts it was granted: max_attempts

lifecycleVars == <<phase, attempts, granted>>

Init ==
  /\ phase = [j \in Job |-> "absent"]
  /\ attempts = [j \in Job |-> 0]
  /\ granted = [j \in Job |-> 0]

Move(j, from, to) ==
  /\ phase[j] = from
  /\ phase' = [phase EXCEPT ![j] = to]

\* A job that becomes runnable afresh has all its attempts before it.
Grant(j, from) ==
  /\ Move(j, from, "pending")
  /\ attempts' = [attempts EXCEPT ![j] = 0]
  /\ \E m \in 1..10 : granted' = [granted EXCEPT ![j] = m]

Enqueue(j) == Grant(j, "absent")

Claim(j) ==
  /\ Move(j, "pending", "running")
  /\ attempts[j] < granted[j]
  /\ attempts' = [attempts EXCEPT ![j] = @ + 1]
  /\ UNCHANGED granted

Complete(j) ==
  /\ Move(j, "running", "succeeded")
  /\ UNCHANGED <<attempts, granted>>

Retry(j) ==
  /\ Move(j, "running", "pending")
  /\ attempts[j] < granted[j]
  /\ UNCHANGED <<attempts, granted>>

Exhaust(j) ==
  /\ Move(j, "running", "failed")
  /\ attempts[j] = granted[j]
  /\ UNCHANGED <<attempts, granted>>

Reopen(j) == Grant(j, "failed")

Purge(j) ==
  /\ Move(j, "failed", "purged")
  /\ attempts' = [attempts EXCEPT ![j] = 0]
  /\ granted' = [granted EXCEPT ![j] = 0]

Next ==
  \E j \in Job : \/ Enqueue(j) \/ Claim(j) \/ Complete(j) \/ Retry(j)
                 \/ Exhaust(j) \/ Reopen(j) \/ Purge(j)

Spec == Init /\ [][Next]_lifecycleVars
=============================================================================
