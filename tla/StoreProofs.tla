----------------------------- MODULE StoreProofs -----------------------------
(***************************************************************************)
(* Proofs about two of the modules of the store, which share no name.      *)
(*                                                                         *)
(* JobQueue, for any number of jobs, runners, admins, faults and attempts. *)
(* Part 1 holds however many runners and admin requests there are; part 2  *)
(* assumes one runner and one admin request at a time.                     *)
(*                                                                         *)
(* Migrations, for every number of servers, migrations, statements and     *)
(* games (part 3).  The inductive invariant adds to the safety properties  *)
(* what a server in its loop knows: that everything it has passed is       *)
(* recorded, and that the statements before its next one are applied.      *)
(***************************************************************************)
EXTENDS JobQueue, Migrations, TLAPS

USE JobQueueAssumption

\* The backoff before a retry is a natural number.
LEMMA RetryDelayIsNat == ASSUME NEW n \in Nat PROVE RetryDelay(n) \in Nat
<1>1. CASE n > 8 BY <1>1 DEF RetryDelay
<1>2. CASE n \in 0..8 BY <1>2 DEF RetryDelay
<1>3. QED BY <1>1, <1>2

\* normalize_max_attempts ends between 1 and 10 whatever is asked for.
LEMMA NormalizeRange == ASSUME NEW m \in Int PROVE NormalizeMaxAttempts(m) \in 1..10
BY DEF NormalizeMaxAttempts

\* The row that is not there is a row.
LEMMA AbsentRowType == AbsentRow \in Row
BY DEF AbsentRow, Row, Status

\* The row a retry of an admin writes is a pending row with all its attempts
\* before it, whatever number of them the request asks for.
LEMMA ReopenedType ==
  ASSUME NEW row \in Row, NEW m \in Nat, now \in Nat
  PROVE  /\ Reopened(row, m) \in Row
         /\ Reopened(row, m).status = "pending"
         /\ Reopened(row, m).attempts = 0
         /\ row.maxAttempts \in 1..10 => Reopened(row, m).maxAttempts \in 1..10
<1>1. NormalizeMaxAttempts(m) \in 1..10 /\ NormalizeMaxAttempts(m) \in Nat
  BY NormalizeRange
<1>2. CASE m > 0
  BY <1>1, <1>2 DEF Reopened, Row, Status
<1>3. CASE ~(m > 0)
  BY <1>3 DEF Reopened, Row, Status
<1>4. QED BY <1>2, <1>3

\* No task is a task.
LEMMA NoTaskType == NoTask \in Task
BY DEF NoTask, Task

\* No request is a request.
LEMMA NoRequestType == NoRequest \in Request
BY AbsentRowType DEF NoRequest, Request

\* A row written by update_job_state is a row, and its status is the one the
\* call asked for.
LEMMA RowWrittenType ==
  ASSUME TypeOK, ControlOK, NEW r \in Runners, pc[r] = "write"
  PROVE  /\ RowWritten(r) \in Row
         /\ RowWritten(r).status = StatusWritten(task[r].op)
         /\ StatusWritten(task[r].op) \in Status
         /\ task[r].op = "claim" <=> StatusWritten(task[r].op) = "running"
         /\ task[r].job \in Job
         /\ task[r].op \in {"claim", "complete", "retry", "fail"}
         /\ RowWritten(r).attempts =
              (IF task[r].op = "claim" THEN task[r].attempts ELSE snap[r].attempts)
         /\ RowWritten(r).runAfter =
              (IF task[r].op = "retry" THEN task[r].runAfter ELSE snap[r].runAfter)
         /\ RowWritten(r).maxAttempts = snap[r].maxAttempts
<1>1. /\ task[r].op \in {"claim", "complete", "retry", "fail"}
      /\ task[r].job \in Job
  BY DEF ControlOK
<1>2. snap[r] \in Row /\ task[r] \in Task
  BY DEF TypeOK
<1>3. /\ StatusWritten(task[r].op) \in Status
      /\ task[r].op = "claim" <=> StatusWritten(task[r].op) = "running"
  BY <1>1 DEF StatusWritten, Status
<1>4. QED BY <1>1, <1>2, <1>3 DEF RowWritten, Row, Task

-----------------------------------------------------------------------------
(* Part 1: any number of runners and admins.                               *)

\* The types hold at first.
LEMMA InitTyped == Init => TypeOK /\ ControlOK
BY AbsentRowType, NoTaskType, NoRequestType
   DEF Init, TypeOK, ControlOK, NoTask, NoRequest

\* Every step keeps the types and what a runner holds at its place.
LEMMA NextTyped == TypeOK /\ ControlOK /\ [Next]_vars => TypeOK' /\ ControlOK'
<1> SUFFICES ASSUME TypeOK, ControlOK, [Next]_vars
             PROVE  TypeOK' /\ ControlOK'
  OBVIOUS
<1> USE AbsentRowType, NoTaskType, NoRequestType
<1>1. CASE Tick
  <2>1. /\ now \in Nat /\ now' = now + 1 /\ task \in [Runners -> Task]
        /\ UNCHANGED <<rows, stamp, nextId, overtaken, pc, task, snap, batch, request,
                       faults, adminRequests>>
    BY <1>1 DEF Tick, TypeOK, queue, runner, bounds
  <2>2. TypeOK'
    BY <2>1 DEF TypeOK
  <2>3. \A r \in Runners : task[r].runAfter <= now => task[r].runAfter <= now + 1
    BY <2>1 DEF Task
  <2>4. QED BY <2>1, <2>2, <2>3 DEF ControlOK
<1>2. CASE EnqueueJob
  <2>1. nextId \in Job /\ nextId + 1 \in 1..(MaxJobs + 1)
    BY <1>2 DEF EnqueueJob, TypeOK, Job
  <2>2. QED BY <1>2, <2>1 DEF EnqueueJob, TypeOK, ControlOK, runner, bounds
<1>2a. ASSUME NEW j \in Job, StoreJob(j) PROVE TypeOK' /\ ControlOK'
  <2>1. stamp[j] \in Nat
    BY <1>2a DEF StoreJob, TypeOK
  <2>2. [status |-> "pending", attempts |-> 0,
         maxAttempts |-> NormalizeMaxAttempts(MaxAttempts), runAfter |-> stamp[j]] \in Row
    <3>1. NormalizeMaxAttempts(MaxAttempts) \in 1..10
      BY NormalizeRange
    <3>2. QED BY <2>1, <3>1 DEF Row, Status
  <2>3. QED BY <1>2a, <2>2 DEF StoreJob, TypeOK, ControlOK, runner, bounds
<1>3. ASSUME NEW r \in Runners, Wake(r) PROVE TypeOK' /\ ControlOK'
  BY <1>3 DEF Wake, TypeOK, ControlOK, queue, bounds
<1>3a. ASSUME NEW r \in Runners, TakeTime(r) PROVE TypeOK' /\ ControlOK'
  <2>1. /\ now \in Nat
        /\ [NoTask EXCEPT !.op = "select", !.runAfter = now] \in Task
        /\ [NoTask EXCEPT !.op = "select", !.runAfter = now].op = "select"
        /\ [NoTask EXCEPT !.op = "select", !.runAfter = now].runAfter = now
    BY DEF TypeOK, NoTask, Task
  <2> DEFINE asked == [NoTask EXCEPT !.op = "select", !.runAfter = now]
  <2> HIDE DEF asked
  <2>2. task' = [task EXCEPT ![r] = asked]
    BY <1>3a DEF TakeTime, asked
  <2>3. asked \in Task /\ asked.op = "select" /\ asked.runAfter <= now
    BY <2>1 DEF asked
  <2>4. QED BY <1>3a, <2>2, <2>3 DEF TakeTime, TypeOK, ControlOK, queue, bounds
<1>4. ASSUME NEW r \in Runners, SelectJob(r) PROVE TypeOK' /\ ControlOK'
  <2>1. PICK j \in Due(task[r].runAfter) : task' = [task EXCEPT ![r] =
                   [op |-> "claim", job |-> j, attempts |-> rows[j].attempts + 1,
                    maxAttempts |-> rows[j].maxAttempts, runAfter |-> 0]]
    BY <1>4 DEF SelectJob
  <2>2. j \in Job /\ rows[j] \in Row
    BY <2>1 DEF Due, TypeOK
  <2>3. [op |-> "claim", job |-> j, attempts |-> rows[j].attempts + 1,
         maxAttempts |-> rows[j].maxAttempts, runAfter |-> 0] \in Task
    BY <2>2 DEF Task, Row
  <2>4. QED BY <1>4, <2>1, <2>2, <2>3 DEF SelectJob, TypeOK, ControlOK, queue, bounds
<1>5. ASSUME NEW r \in Runners, SelectNone(r) PROVE TypeOK' /\ ControlOK'
  BY <1>5 DEF SelectNone, EndBatch, TypeOK, ControlOK, queue, bounds, NoTask
<1>6. ASSUME NEW r \in Runners, ReadRow(r) PROVE TypeOK' /\ ControlOK'
  <2>1. task[r].job \in Job /\ rows[task[r].job] \in Row
    BY <1>6 DEF ReadRow, TypeOK, ControlOK
  <2>2. QED BY <1>6, <2>1 DEF ReadRow, EndBatch, TypeOK, ControlOK, queue, bounds, NoTask
<1>7. ASSUME NEW r \in Runners, WriteRow(r) PROVE TypeOK' /\ ControlOK'
  <2>1. pc[r] = "write"
    BY <1>7 DEF WriteRow
  <2>2. RowWritten(r) \in Row /\ task[r].job \in Job
    BY <2>1, RowWrittenType
  <2>3. rows' \in [Job -> Row] /\ overtaken' \subseteq Job
    BY <1>7, <2>2 DEF WriteRow, UpdateRow, PassOver, TypeOK
  <2>4. [op |-> "run", job |-> task[r].job, attempts |-> RowWritten(r).attempts,
         maxAttempts |-> RowWritten(r).maxAttempts, runAfter |-> 0] \in Task
    BY <2>2 DEF Task, Row
  <2>5. QED
    BY <1>7, <2>2, <2>3, <2>4
       DEF WriteRow, JobProcessed, EndBatch, TypeOK, ControlOK, bounds, NoTask
<1>8. ASSUME NEW r \in Runners, ProcessOk(r) PROVE TypeOK' /\ ControlOK'
  BY <1>8 DEF ProcessOk, TypeOK, ControlOK, Task, queue, bounds
<1>9. ASSUME NEW r \in Runners, ProcessErr(r) PROVE TypeOK' /\ ControlOK'
  <2>1. task[r] \in Task /\ RetryDelay(task[r].attempts) \in Nat
    BY RetryDelayIsNat DEF TypeOK, Task
  <2>2. task'[r] \in Task /\ task'[r].op \in {"retry", "fail"} /\ task'[r].job = task[r].job
    <3>1. now \in Nat /\ now + RetryDelay(task[r].attempts) \in Nat
      BY <2>1 DEF TypeOK
    <3>2. task'[r] = IF ShouldRetry(task[r])
                     THEN [task[r] EXCEPT !.op = "retry",
                                          !.runAfter = now + RetryDelay(task[r].attempts)]
                     ELSE [task[r] EXCEPT !.op = "fail"]
      BY <1>9 DEF ProcessErr, TypeOK
    <3>3. QED BY <2>1, <3>1, <3>2 DEF Task
  <2>3. \A s \in Runners : s # r => task'[s] = task[s]
    BY <1>9 DEF ProcessErr, TypeOK
  <2>4. task' \in [Runners -> Task]
    BY <1>9, <2>2, <2>3 DEF ProcessErr, TypeOK
  <2>5. QED BY <1>9, <2>2, <2>3, <2>4 DEF ProcessErr, TypeOK, ControlOK, queue, bounds
<1>10. ASSUME NEW r \in Runners, StoreError(r) PROVE TypeOK' /\ ControlOK'
  BY <1>10 DEF StoreError, Fault, EndBatch, TypeOK, ControlOK, queue, NoTask
<1>11. ASSUME NEW r \in Runners, AnswerLost(r) PROVE TypeOK' /\ ControlOK'
  <2>1. pc[r] = "write"
    BY <1>11 DEF AnswerLost
  <2>2. RowWritten(r) \in Row /\ task[r].job \in Job
    BY <2>1, RowWrittenType
  <2>3. rows' \in [Job -> Row] /\ overtaken' \subseteq Job
    BY <1>11, <2>2 DEF AnswerLost, UpdateRow, PassOver, TypeOK
  <2>4. QED BY <1>11, <2>3 DEF AnswerLost, Fault, EndBatch, TypeOK, ControlOK, NoTask
<1>12. ASSUME NEW r \in Runners, Crash(r) PROVE TypeOK' /\ ControlOK'
  BY <1>12 DEF Crash, Fault, TypeOK, ControlOK, queue, NoTask
<1>13. ASSUME NEW r \in Runners, Restart(r) PROVE TypeOK' /\ ControlOK'
  BY <1>13 DEF Restart, TypeOK, ControlOK, queue, bounds
<1>14. ASSUME NEW a \in Admins, AdminRead(a) PROVE TypeOK' /\ ControlOK'
  <2>1. PICK j \in Job, op \in {"retry", "purge"} :
          request' = [request EXCEPT ![a] = [op |-> op, job |-> j, snap |-> rows[j]]]
    BY <1>14 DEF AdminRead
  <2>2. [op |-> op, job |-> j, snap |-> rows[j]] \in Request
    BY DEF Request, TypeOK
  <2>3. QED BY <1>14, <2>1, <2>2 DEF AdminRead, TypeOK, ControlOK, queue, runner
<1>14a. ASSUME NEW a \in Admins, AdminReopen(a) PROVE TypeOK' /\ ControlOK'
  <2>1. PICK m \in AdminMaxAttempts :
          request' = [request EXCEPT ![a].op = "update", ![a].snap = Reopened(@, m)]
    BY <1>14a DEF AdminReopen
  <2>2. request[a] \in Request /\ request[a].snap \in Row
    BY DEF TypeOK, Request
  <2>3. Reopened(request[a].snap, m) \in Row /\ Reopened(request[a].snap, m).status = "pending"
    BY <2>2, ReopenedType DEF TypeOK
  <2> DEFINE asked == [request[a] EXCEPT !.op = "update", !.snap = Reopened(@, m)]
  <2>4. /\ asked \in Request /\ asked.job = request[a].job
        /\ asked.snap = Reopened(request[a].snap, m) /\ asked.op = "update"
    BY <2>2, <2>3 DEF Request
  <2>5. request' = [request EXCEPT ![a] = asked]
    BY <2>1
  <2>6. request[a].op # "none" /\ asked.snap.status = "pending"
    BY <1>14a, <2>3, <2>4 DEF AdminReopen
  <2> HIDE DEF asked
  <2>7. QED
    BY <1>14a, <2>4, <2>5, <2>6 DEF AdminReopen, TypeOK, ControlOK, queue, runner, bounds
<1>15. ASSUME NEW a \in Admins, AdminRetry(a) PROVE TypeOK' /\ ControlOK'
  <2>1. UpdateRow(request[a].job, request[a].snap) /\ request[a].snap \in Row
    BY <1>15 DEF AdminRetry, TypeOK, Request
  <2>2. rows' \in [Job -> Row]
    BY <2>1 DEF UpdateRow, TypeOK
  <2>3. QED BY <1>15, <2>2 DEF AdminRetry, TypeOK, ControlOK, runner, bounds, NoRequest
<1>16. ASSUME NEW a \in Admins, AdminPurge(a) PROVE TypeOK' /\ ControlOK'
  BY <1>16 DEF AdminPurge, TypeOK, ControlOK, runner, bounds, NoRequest
<1>17. ASSUME NEW a \in Admins, AdminAbandon(a) PROVE TypeOK' /\ ControlOK'
  BY <1>17 DEF AdminAbandon, TypeOK, ControlOK, queue, runner, bounds, NoRequest
<1>18. CASE UNCHANGED vars
  BY <1>18 DEF vars, TypeOK, ControlOK
<1>19. QED
  BY <1>1, <1>2, <1>2a, <1>3, <1>3a, <1>4, <1>5, <1>6, <1>7, <1>8, <1>9, <1>10, <1>11,
     <1>12, <1>13, <1>14, <1>14a, <1>15, <1>16, <1>17, <1>18
     DEF Next, RunnerStep, FaultStep, AdminStep

\* Every state of the queue is well typed, and a runner's place in its loop
\* decides what it is doing, for every number of jobs, runners and admins.
THEOREM TypeCorrect == Spec => [](TypeOK /\ ControlOK)
<1>1. QED BY InitTyped, NextTyped, PTL DEF Spec

\* A row changes only by enqueue_job, by a runner's write and by an admin's.
LEMMA RowsUntouched ==
  ASSUME NEW r \in Runners,
         Wake(r) \/ TakeTime(r) \/ SelectJob(r) \/ SelectNone(r) \/ ReadRow(r) \/ ProcessOk(r)
           \/ ProcessErr(r) \/ StoreError(r) \/ Crash(r) \/ Restart(r)
  PROVE  /\ rows' = rows /\ nextId' = nextId /\ request' = request /\ now' = now
         /\ stamp' = stamp /\ overtaken' = overtaken
BY DEF Wake, TakeTime, SelectJob, SelectNone, ReadRow, ProcessOk, ProcessErr, StoreError,
       EndBatch, Crash, Restart, queue, bounds

\* Every step keeps that a Running job has a runner, unless there was a
\* fault.
LEMMA OwnerStep ==
  TypeOK /\ ControlOK /\ RunningHasOwner /\ [Next]_vars => RunningHasOwner'
<1> SUFFICES ASSUME TypeOK, ControlOK, RunningHasOwner, [Next]_vars, faults' = 0,
                    NEW j \in Job, rows'[j].status = "running"
             PROVE  \E r \in Runners : Holds(r, j)'
  BY DEF RunningHasOwner
<1> DEFINE Kept == rows'[j].status = rows[j].status /\ faults' = faults
<1>0. ASSUME Kept PROVE \E r \in Runners : Holds(r, j)
  BY <1>0 DEF RunningHasOwner
<1>1. CASE Tick
  BY <1>0, <1>1 DEF Tick, queue, runner, bounds, Holds
<1>2. CASE EnqueueJob
  BY <1>0, <1>2 DEF EnqueueJob, runner, bounds, Holds
<1>2a. ASSUME NEW i \in Job, StoreJob(i) PROVE \E r \in Runners : Holds(r, j)'
  BY <1>0, <1>2a DEF StoreJob, runner, bounds, Holds, TypeOK
<1>3. ASSUME NEW r \in Runners, Wake(r) \/ Restart(r) \/ ProcessOk(r) \/ ProcessErr(r)
      PROVE  \E s \in Runners : Holds(s, j)'
  <2>1. Kept
    BY <1>3, RowsUntouched DEF Wake, Restart, ProcessOk, ProcessErr, bounds
  <2>2. PICK s \in Runners : Holds(s, j)
    BY <2>1, <1>0
  <2>3. Holds(s, j)'
    <3>1. CASE Wake(r) \/ Restart(r)
      BY <2>2, <3>1 DEF Wake, Restart, Holds
    <3>2. CASE ProcessOk(r)
      BY <2>2, <3>2 DEF ProcessOk, Holds, TypeOK, Task
    <3>3. CASE ProcessErr(r)
      BY <2>2, <3>3 DEF ProcessErr, Holds, TypeOK, Task
    <3>4. QED BY <1>3, <3>1, <3>2, <3>3
  <2>4. QED BY <2>3
<1>4. ASSUME NEW r \in Runners, TakeTime(r) \/ SelectJob(r) \/ SelectNone(r)
      PROVE  \E s \in Runners : Holds(s, j)'
  <2>1. Kept
    BY <1>4, RowsUntouched DEF TakeTime, SelectJob, SelectNone, bounds
  <2>2. PICK s \in Runners : Holds(s, j)
    BY <2>1, <1>0
  <2>3. s # r /\ task'[s] = task[s]
    BY <1>4, <2>2 DEF TakeTime, SelectJob, SelectNone, EndBatch, Holds, ControlOK, TypeOK
  <2>4. QED BY <2>2, <2>3 DEF Holds
<1>5. ASSUME NEW r \in Runners, ReadRow(r) PROVE \E s \in Runners : Holds(s, j)'
  <2>1. Kept
    BY <1>5, RowsUntouched DEF ReadRow, bounds
  <2>2. PICK s \in Runners : Holds(s, j)
    BY <2>1, <1>0
  <2>3. task'[s] = task[s]
    BY <1>5, <2>1, <2>2 DEF ReadRow, EndBatch, Exists, Holds, TypeOK
  <2>4. QED BY <2>2, <2>3 DEF Holds
<1>6. ASSUME NEW r \in Runners, WriteRow(r) PROVE \E s \in Runners : Holds(s, j)'
  <2>0. pc[r] = "write" /\ faults' = faults
    BY <1>6 DEF WriteRow, bounds
  <2>1. CASE j = task[r].job /\ Exists(j)
    <3>1. rows'[j] = RowWritten(r)
      BY <1>6, <2>1 DEF WriteRow, UpdateRow, TypeOK
    <3>2. task[r].op = "claim"
      BY <2>0, <3>1, RowWrittenType
    <3>3. Holds(r, j)'
      BY <1>6, <2>1, <3>2 DEF WriteRow, Holds, TypeOK
    <3>4. QED BY <3>3
  <2>2. CASE ~(j = task[r].job /\ Exists(j))
    <3>1. rows'[j] = rows[j]
      BY <1>6, <2>2 DEF WriteRow, UpdateRow, TypeOK
    <3>2. PICK s \in Runners : Holds(s, j)
      BY <2>0, <3>1, <1>0
    <3>3. s # r
      BY <2>2, <3>1, <3>2 DEF Holds, Exists
    <3>4. task'[s] = task[s]
      BY <1>6, <3>3 DEF WriteRow, JobProcessed, EndBatch, TypeOK
    <3>5. QED BY <3>2, <3>4 DEF Holds
  <2>3. QED BY <2>1, <2>2
<1>7. ASSUME NEW r \in Runners, FaultStep(r) PROVE FALSE
  BY <1>7 DEF FaultStep, StoreError, AnswerLost, Crash, Fault, TypeOK
<1>8. ASSUME NEW a \in Admins, AdminStep(a) PROVE \E s \in Runners : Holds(s, j)'
  <2>1. Kept
    <3>1. CASE AdminRead(a) \/ AdminReopen(a) \/ AdminAbandon(a)
      BY <3>1 DEF AdminRead, AdminReopen, AdminAbandon, queue, bounds
    <3>2. CASE AdminRetry(a)
      <4>1. request[a].snap.status = "pending"
        BY <3>2 DEF AdminRetry, ControlOK
      <4>2. QED BY <3>2, <4>1 DEF AdminRetry, bounds, UpdateRow, TypeOK
    <3>3. CASE AdminPurge(a)
      BY <3>3 DEF AdminPurge, AbsentRow, TypeOK, bounds
    <3>4. QED BY <1>8, <3>1, <3>2, <3>3 DEF AdminStep
  <2>2. task' = task
    BY <1>8 DEF AdminStep, AdminRead, AdminReopen, AdminRetry, AdminPurge, AdminAbandon, runner
  <2>3. QED BY <2>1, <2>2, <1>0 DEF Holds
<1>9. CASE UNCHANGED vars
  BY <1>0, <1>9 DEF vars, Holds
<1>10. QED
  BY <1>1, <1>2, <1>2a, <1>3, <1>4, <1>5, <1>6, <1>7, <1>8, <1>9 DEF Next, RunnerStep

\* Without a fault no job is left Running that nobody works on, for every
\* number of runners and admin requests and every interleaving of them.
THEOREM NoStrandedJob == Spec => []RunningHasOwner
<1>1. Init => RunningHasOwner
  BY DEF Init, RunningHasOwner, AbsentRow
<1>2. QED BY <1>1, OwnerStep, TypeCorrect, PTL DEF Spec

\* No write of a process that read a row before it was deleted brings the
\* row back.
THEOREM NoResurrection == Spec => DeletedStaysDeleted
<1> DEFINE A == \A j \in Job : ~Exists(j) /\ Exists(j)' => stamp[j] # Never
<1>1. TypeOK /\ ControlOK /\ [Next]_vars => [A]_vars
  <2> SUFFICES ASSUME TypeOK, ControlOK, Next, NEW j \in Job, ~Exists(j), Exists(j)'
               PROVE  stamp[j] # Never
    OBVIOUS
  <2>1. CASE Tick
    BY <2>1 DEF Tick, queue, Exists
  <2>2. CASE EnqueueJob
    BY <2>2 DEF EnqueueJob, Exists
  <2>2a. ASSUME NEW i \in Job, StoreJob(i) PROVE stamp[j] # Never
    BY <2>2a DEF StoreJob, Exists, TypeOK
  <2>3. ASSUME NEW r \in Runners, WriteRow(r) \/ AnswerLost(r) PROVE FALSE
    BY <2>3 DEF WriteRow, AnswerLost, UpdateRow, Exists, TypeOK
  <2>4. ASSUME NEW r \in Runners, rows' = rows PROVE FALSE
    BY <2>4 DEF Exists
  <2>5. ASSUME NEW a \in Admins, AdminStep(a) PROVE FALSE
    BY <2>5 DEF AdminStep, AdminRead, AdminReopen, AdminRetry, AdminPurge, AdminAbandon,
                UpdateRow, Exists, AbsentRow, TypeOK, queue
  <2>6. QED
    BY <2>1, <2>2, <2>2a, <2>3, <2>4, <2>5, RowsUntouched DEF Next, RunnerStep, FaultStep
<1>2. QED BY <1>1, TypeCorrect, PTL DEF Spec, DeletedStaysDeleted

-----------------------------------------------------------------------------
(* Part 2: one server, and one admin request at a time.                    *)

OneAtATime ==
  /\ \A r, s \in Runners : r = s
  /\ \A a, b \in Admins : a = b

Typed == TypeOK /\ ControlOK

\* What the only runner knows when it writes: its snapshot is the row.
LEMMA WriterKnows ==
  ASSUME Typed, SerialInv, NEW r \in Runners, pc[r] = "write", NEW j, j = task[r].job
  PROVE  /\ j \in Job /\ rows[j] \in Row /\ Exists(j) /\ task[r] \in Task
         /\ task[r].op \in {"claim", "complete", "retry", "fail"}
         /\ RowWritten(r) = [rows[j] EXCEPT
               !.status = StatusWritten(task[r].op),
               !.attempts = IF task[r].op = "claim" THEN task[r].attempts ELSE @,
               !.runAfter = IF task[r].op = "retry" THEN task[r].runAfter ELSE @]
         /\ task[r].op = "claim" => /\ rows[j].status = "pending"
                                    /\ task[r].attempts = rows[j].attempts + 1
         /\ task[r].op # "claim" => /\ rows[j].status = "running"
                                    /\ rows[j].attempts = task[r].attempts
                                    /\ rows[j].maxAttempts = task[r].maxAttempts
<1>1. /\ task[r].op \in {"claim", "complete", "retry", "fail"}
      /\ j \in Job /\ rows[j] \in Row /\ task[r] \in Task
  BY DEF Typed, TypeOK, ControlOK
<1>2. snap[r] = rows[j]
  BY DEF SerialInv, SnapshotsCurrent
<1>3. task[r].op = "claim" => /\ rows[j].status = "pending"
                              /\ task[r].attempts = rows[j].attempts + 1
  BY DEF SerialInv, ClaimStillGood
<1>4. task[r].op # "claim" => Holds(r, j)
  BY <1>1 DEF Holds
<1>5. task[r].op # "claim" => /\ rows[j].status = "running"
                              /\ rows[j].attempts = task[r].attempts
                              /\ rows[j].maxAttempts = task[r].maxAttempts
  BY <1>1, <1>4 DEF SerialInv, OwnerSeesTruth
<1>6. Exists(j)
  BY <1>1, <1>3, <1>5 DEF Exists
<1>7. QED BY <1>1, <1>2, <1>3, <1>5, <1>6 DEF RowWritten

\* The row the only runner writes is a step of the job's life.
LEMMA RowWrittenIs ==
  ASSUME Typed, SerialInv, NEW r \in Runners, pc[r] = "write", NEW j, j = task[r].job
  PROVE  LET row == RowWritten(r)
         IN  /\ row \in Row
             /\ row.maxAttempts = rows[j].maxAttempts
             /\ \/ /\ task[r].op = "claim"
                   /\ rows[j].status = "pending" /\ row.status = "running"
                   /\ row.attempts = rows[j].attempts + 1 /\ row.attempts = task[r].attempts
                   /\ rows[j].attempts < rows[j].maxAttempts
                \/ /\ task[r].op = "complete"
                   /\ rows[j].status = "running" /\ row.status = "succeeded"
                   /\ row.attempts = rows[j].attempts
                \/ /\ task[r].op = "retry"
                   /\ rows[j].status = "running" /\ row.status = "pending"
                   /\ row.attempts = rows[j].attempts
                   /\ rows[j].attempts < rows[j].maxAttempts
                \/ /\ task[r].op = "fail"
                   /\ rows[j].status = "running" /\ row.status = "failed"
                   /\ row.attempts = rows[j].attempts
                   /\ rows[j].attempts = rows[j].maxAttempts
<1>1. /\ rows[j] \in Row /\ j \in Job /\ task[r] \in Task
      /\ RowWritten(r) = [rows[j] EXCEPT
               !.status = StatusWritten(task[r].op),
               !.attempts = IF task[r].op = "claim" THEN task[r].attempts ELSE @,
               !.runAfter = IF task[r].op = "retry" THEN task[r].runAfter ELSE @]
  BY WriterKnows
<1>2. RowWritten(r) \in Row
  BY RowWrittenType DEF Typed
<1>3. /\ rows[j].status = "pending" => rows[j].attempts < rows[j].maxAttempts
      /\ rows[j].status = "running" => rows[j].attempts \in 1..rows[j].maxAttempts
  BY <1>1 DEF SerialInv, AttemptAccounting
<1>4. CASE task[r].op = "claim"
  <2>1. rows[j].status = "pending" /\ task[r].attempts = rows[j].attempts + 1
    BY <1>4, WriterKnows
  <2>2. QED BY <1>1, <1>2, <1>3, <1>4, <2>1 DEF StatusWritten, Row
<1>5. CASE task[r].op = "complete"
  <2>1. rows[j].status = "running"
    BY <1>5, WriterKnows
  <2>2. QED BY <1>1, <1>2, <1>5, <2>1 DEF StatusWritten, Row
<1>6. CASE task[r].op = "retry"
  <2>1. /\ rows[j].status = "running" /\ rows[j].attempts = task[r].attempts
        /\ rows[j].maxAttempts = task[r].maxAttempts
    BY <1>6, WriterKnows
  <2>2. task[r].attempts < task[r].maxAttempts
    BY <1>6 DEF SerialInv, DecisionSound, ShouldRetry
  <2>3. QED BY <1>1, <1>2, <1>6, <2>1, <2>2 DEF StatusWritten, Row
<1>7. CASE task[r].op = "fail"
  <2>1. /\ rows[j].status = "running" /\ rows[j].attempts = task[r].attempts
        /\ rows[j].maxAttempts = task[r].maxAttempts
    BY <1>7, WriterKnows
  <2>2. ~(task[r].attempts < task[r].maxAttempts)
    BY <1>7 DEF SerialInv, DecisionSound, ShouldRetry
  <2>3. rows[j].attempts = rows[j].maxAttempts
    BY <1>1, <1>3, <2>1, <2>2 DEF Row, Task
  <2>4. QED BY <1>1, <1>2, <1>7, <2>1, <2>3 DEF StatusWritten, Row
<1>8. QED BY <1>4, <1>5, <1>6, <1>7, WriterKnows

RequestsCurrent ==
  \A a \in Admins :
    /\ request[a].op # "none" => rows[request[a].job].status = "failed"
    /\ request[a].op \in {"retry", "purge"} => request[a].snap = rows[request[a].job]
    /\ request[a].op = "update" => /\ request[a].snap.attempts = 0
                                   /\ request[a].snap.maxAttempts \in 1..10

\* What a runner's write does to the table, and to what admins have read.
LEMMA SerialWrite ==
  ASSUME Typed, SerialInv, NEW r \in Runners, pc[r] = "write",
         UpdateRow(task[r].job, RowWritten(r)), PassOver(r),
         nextId' = nextId, request' = request, stamp' = stamp
  PROVE  /\ rows' = [rows EXCEPT ![task[r].job] = RowWritten(r)]
         /\ AttemptAccounting' /\ RowsSane' /\ RequestsCurrent' /\ OvertakenWait'
<1> DEFINE j == task[r].job
<1>1. j \in Job /\ Exists(j)
  BY WriterKnows
<1>2. rows' = [rows EXCEPT ![j] = RowWritten(r)] /\ rows \in [Job -> Row]
  BY <1>1 DEF UpdateRow, Typed, TypeOK
<1> DEFINE row == RowWritten(r)
<1>3. /\ row \in Row
      /\ row.maxAttempts = rows[j].maxAttempts
      /\ \/ row.status = "running" /\ row.attempts = rows[j].attempts + 1
            /\ rows[j].status = "pending" /\ rows[j].attempts < rows[j].maxAttempts
         \/ row.status = "succeeded" /\ row.attempts = rows[j].attempts
            /\ rows[j].status = "running"
         \/ row.status = "pending" /\ row.attempts = rows[j].attempts
            /\ rows[j].status = "running" /\ rows[j].attempts < rows[j].maxAttempts
         \/ row.status = "failed" /\ row.attempts = rows[j].attempts
            /\ rows[j].status = "running" /\ rows[j].attempts = rows[j].maxAttempts
  BY RowWrittenIs
<1>4. rows'[j] = row /\ \A i \in Job : i # j => rows'[i] = rows[i]
  BY <1>1, <1>2
<1>5. AttemptAccounting'
  <2> SUFFICES ASSUME NEW i \in Job
               PROVE  /\ rows'[i].status = "pending" => rows'[i].attempts < rows'[i].maxAttempts
                      /\ rows'[i].status \in {"running", "succeeded"} =>
                           rows'[i].attempts \in 1..rows'[i].maxAttempts
                      /\ rows'[i].status = "failed" => rows'[i].attempts = rows'[i].maxAttempts
    BY DEF AttemptAccounting
  <2>1. CASE i # j
    BY <1>4, <2>1 DEF SerialInv, AttemptAccounting
  <2>2. CASE i = j
    <3>1. rows[j] \in Row
      BY <1>1, <1>2
    <3>2. rows[j].status = "running" => rows[j].attempts \in 1..rows[j].maxAttempts
      BY <1>1 DEF SerialInv, AttemptAccounting
    <3> HIDE DEF j, row
    <3>3. QED BY <1>3, <1>4, <2>2, <3>1, <3>2 DEF Row
  <2>3. QED BY <2>1, <2>2
<1>6. RowsSane'
  <2>1. rows[j].maxAttempts \in 1..10 /\ ~(j >= nextId)
    BY <1>1 DEF SerialInv, RowsSane
  <2>2. row.status # "absent"
    BY <1>3
  <2>3. QED BY <1>3, <1>4, <2>1, <2>2 DEF SerialInv, RowsSane, Exists
<1>7. RequestsCurrent'
  <2> SUFFICES ASSUME NEW a \in Admins, request[a].op # "none"
               PROVE  rows'[request[a].job] = rows[request[a].job]
    BY DEF RequestsCurrent, SerialInv, SnapshotsCurrent
  <2>1. rows[request[a].job].status = "failed" /\ request[a].job \in Job
    BY DEF SerialInv, SnapshotsCurrent, Typed, ControlOK
  <2>2. request[a].job # j
    BY <1>3, <2>1
  <2>3. QED BY <1>4, <2>1, <2>2
<1>8. OvertakenWait'
  <2>1. \A i \in overtaken : i \in Job /\ rows[i].status = "pending"
    BY DEF SerialInv, OvertakenWait, Typed, TypeOK
  <2>2. CASE task[r].op = "claim"
    <3>1. ~(rows[j].runAfter < rows[j].runAfter)
      BY <1>1, <1>2 DEF Row
    <3>2. \A i \in overtaken' : i \in Job /\ i # j /\ rows[i].status = "pending"
      BY <2>1, <2>2, <3>1 DEF PassOver
    <3>3. QED BY <1>4, <3>2 DEF OvertakenWait
  <2>3. CASE task[r].op # "claim"
    <3>1. overtaken' = overtaken /\ rows[j].status = "running"
      BY <2>3, WriterKnows DEF PassOver
    <3>2. QED BY <1>4, <2>1, <3>1 DEF OvertakenWait
  <2>4. QED BY <2>2, <2>3
<1>9. QED BY <1>2, <1>5, <1>6, <1>7, <1>8

\* A step of the only runner that leaves the table alone keeps what is said
\* of the table and of the requests.
LEMMA SerialRead ==
  ASSUME SerialInv, rows' = rows, nextId' = nextId, request' = request, stamp' = stamp,
         overtaken' = overtaken
  PROVE  AttemptAccounting' /\ RowsSane' /\ RequestsCurrent' /\ OvertakenWait'
BY DEF SerialInv, AttemptAccounting, RowsSane, RequestsCurrent, SnapshotsCurrent, Exists,
       OvertakenWait

\* A runner without a task satisfies everything said of runners.
LEMMA IdleRunner ==
  ASSUME OneAtATime, NEW r \in Runners, task'[r] = NoTask, pc'[r] # "write",
         AttemptAccounting', RowsSane', RequestsCurrent', OvertakenWait'
  PROVE  SerialInv'
<1>1. \A s \in Runners : s = r
  BY DEF OneAtATime
<1>2. QED
  BY <1>1 DEF SerialInv, OwnerSeesTruth, Holds, ClaimStillGood, SnapshotsCurrent,
              DecisionSound, RequestsCurrent, NoTask

\* With one runner and one admin request, every step of the runner keeps the
\* serial invariant, a fault or a restart included.
LEMMA SerialRunner ==
  ASSUME OneAtATime, Typed, SerialInv, Typed', NEW r \in Runners,
         RunnerStep(r) \/ FaultStep(r) \/ Restart(r)
  PROVE  SerialInv'
<1>0. \A s \in Runners : s = r
  BY DEF OneAtATime
<1> DEFINE OwnerOK == \A j \in Job : Holds(r, j) => /\ rows[j].status = "running"
                                                  /\ rows[j].attempts = task[r].attempts
                                                  /\ rows[j].maxAttempts = task[r].maxAttempts
<1>a. OwnerOK
  BY DEF SerialInv, OwnerSeesTruth
<1>1. CASE Wake(r) \/ Restart(r)
  <2>1. /\ task' = task /\ rows' = rows /\ nextId' = nextId /\ request' = request
        /\ stamp' = stamp /\ overtaken' = overtaken
        /\ now' = now /\ pc'[r] # "write" /\ snap' = snap
    BY <1>1 DEF Wake, Restart, queue, bounds, Typed, TypeOK
  <2>2. task[r].op = "none"
    BY <1>1 DEF Wake, Restart, Typed, ControlOK
  <2>3. AttemptAccounting' /\ RowsSane' /\ RequestsCurrent' /\ OvertakenWait'
    BY <2>1, SerialRead
  <2>4. QED
    BY <1>0, <2>1, <2>2, <2>3
       DEF SerialInv, OwnerSeesTruth, Holds, ClaimStillGood, SnapshotsCurrent,
           DecisionSound, RequestsCurrent
<1>1a. CASE TakeTime(r)
  <2>1. task'[r] = [NoTask EXCEPT !.op = "select", !.runAfter = now] /\ pc'[r] # "write"
    BY <1>1a DEF TakeTime, Typed, TypeOK
  <2>2. AttemptAccounting' /\ RowsSane' /\ RequestsCurrent' /\ OvertakenWait'
    BY <1>1a, RowsUntouched, SerialRead
  <2>3. task'[r].op = "select"
    BY <2>1 DEF NoTask
  <2>4. QED
    BY <1>0, <2>1, <2>2, <2>3
       DEF SerialInv, OwnerSeesTruth, Holds, ClaimStillGood, SnapshotsCurrent,
           DecisionSound, RequestsCurrent
<1>2. CASE SelectJob(r)
  <2> DEFINE t == task[r].runAfter
  <2>1. PICK j \in Due(t) : /\ \A i \in Due(t) : Precedes(j, i)
                            /\ task' = [task EXCEPT ![r] =
                                 [op |-> "claim", job |-> j, attempts |-> rows[j].attempts + 1,
                                  maxAttempts |-> rows[j].maxAttempts, runAfter |-> 0]]
    BY <1>2 DEF SelectJob
  <2>2. /\ rows' = rows /\ nextId' = nextId /\ request' = request /\ now' = now
        /\ stamp' = stamp /\ overtaken' = overtaken
        /\ pc'[r] = "read" /\ t \in Nat /\ t <= now
    BY <1>2 DEF SelectJob, queue, bounds, Typed, TypeOK, ControlOK, Task
  <2>3. task'[r] = [op |-> "claim", job |-> j, attempts |-> rows[j].attempts + 1,
                    maxAttempts |-> rows[j].maxAttempts, runAfter |-> 0]
    BY <2>1 DEF Typed, TypeOK
  <2>4. /\ j \in Job /\ rows[j].status = "pending" /\ rows[j].runAfter <= t
        /\ rows[j].runAfter \in Nat /\ now \in Nat
    BY DEF Due, Typed, TypeOK, Row
  <2>5. \A i \in overtaken : rows[j].runAfter <= rows[i].runAfter
    <3> SUFFICES ASSUME NEW i \in overtaken
                 PROVE  rows[j].runAfter <= rows[i].runAfter
      OBVIOUS
    <3>1. rows[i].runAfter \in Nat /\ i \in Job /\ rows[i].status = "pending"
      BY DEF Typed, TypeOK, Row, SerialInv, OvertakenWait
    <3>2. CASE rows[i].runAfter <= t
      BY <2>1, <2>4, <3>1, <3>2 DEF Due, Precedes
    <3>3. CASE ~(rows[i].runAfter <= t)
      BY <2>2, <2>4, <3>1, <3>3
    <3>4. QED BY <3>2, <3>3
  <2>6. AttemptAccounting' /\ RowsSane' /\ RequestsCurrent' /\ OvertakenWait'
    BY <2>2, SerialRead
  <2> HIDE DEF t
  <2>6a. rows[j].runAfter <= now
    BY <2>2, <2>4
  <2>7. ClaimStillGood'
    BY <1>0, <2>2, <2>3, <2>4, <2>5, <2>6a DEF ClaimStillGood
  <2>8. QED
    BY <1>0, <2>2, <2>3, <2>6, <2>7
       DEF SerialInv, OwnerSeesTruth, Holds, SnapshotsCurrent, DecisionSound, RequestsCurrent
<1>3. CASE SelectNone(r) \/ StoreError(r) \/ Crash(r)
  <2>1. task'[r] = NoTask /\ pc'[r] # "write"
    BY <1>3 DEF SelectNone, StoreError, Crash, EndBatch, Typed, TypeOK
  <2>2. QED BY <1>3, <2>1, RowsUntouched, SerialRead, IdleRunner
<1>4. CASE ReadRow(r)
  <2>1. /\ rows' = rows /\ nextId' = nextId /\ request' = request /\ now' = now
        /\ stamp' = stamp /\ overtaken' = overtaken
    BY <1>4, RowsUntouched
  <2>2. AttemptAccounting' /\ RowsSane' /\ RequestsCurrent' /\ OvertakenWait'
    BY <2>1, SerialRead
  <2>3. CASE Exists(task[r].job)
    <3>1. task' = task /\ snap'[r] = rows[task[r].job]
      BY <1>4, <2>3 DEF ReadRow, Typed, TypeOK
    <3>2. QED
      BY <1>0, <2>1, <2>2, <3>1
         DEF SerialInv, OwnerSeesTruth, Holds, ClaimStillGood, SnapshotsCurrent,
             DecisionSound, RequestsCurrent
  <2>4. CASE ~Exists(task[r].job)
    <3>1. task'[r] = NoTask /\ pc'[r] # "write"
      BY <1>4, <2>4 DEF ReadRow, EndBatch, Typed, TypeOK
    <3>2. QED BY <2>2, <3>1, IdleRunner
  <2>5. QED BY <2>3, <2>4
<1>5. CASE ProcessOk(r) \/ ProcessErr(r)
  <2>1. /\ rows' = rows /\ nextId' = nextId /\ request' = request /\ now' = now
        /\ stamp' = stamp /\ overtaken' = overtaken
        /\ pc'[r] = "read" /\ task[r].op = "run" /\ task[r] \in Task
    BY <1>5 DEF ProcessOk, ProcessErr, queue, bounds, Typed, TypeOK, ControlOK
  <2>2. /\ task'[r].op \in {"complete", "retry", "fail"}
        /\ task'[r].job = task[r].job /\ task'[r].attempts = task[r].attempts
        /\ task'[r].maxAttempts = task[r].maxAttempts
        /\ task'[r].op = "retry" => ShouldRetry(task[r])
        /\ task'[r].op = "fail" => ~ShouldRetry(task[r])
    <3>1. CASE ProcessOk(r)
      BY <2>1, <3>1 DEF ProcessOk, Typed, TypeOK, Task
    <3>2. CASE ProcessErr(r)
      BY <2>1, <3>2 DEF ProcessErr, Typed, TypeOK, Task
    <3>3. QED BY <1>5, <3>1, <3>2
  <2>3. AttemptAccounting' /\ RowsSane' /\ RequestsCurrent' /\ OvertakenWait'
    BY <2>1, SerialRead
  <2>4. OwnerSeesTruth'
    BY <1>0, <1>a, <2>1, <2>2 DEF OwnerSeesTruth, Holds
  <2>5. DecisionSound'
    BY <1>0, <2>2 DEF DecisionSound, ShouldRetry
  <2>6. QED
    BY <1>0, <2>1, <2>2, <2>3, <2>4, <2>5
       DEF SerialInv, ClaimStillGood, SnapshotsCurrent, RequestsCurrent
<1>6. CASE AnswerLost(r)
  <2>1. /\ pc[r] = "write" /\ UpdateRow(task[r].job, RowWritten(r)) /\ PassOver(r)
        /\ nextId' = nextId /\ request' = request /\ stamp' = stamp
        /\ task'[r] = NoTask /\ pc'[r] # "write"
    BY <1>6 DEF AnswerLost, EndBatch, Typed, TypeOK
  <2>2. QED BY <2>1, SerialWrite, IdleRunner
<1>7. CASE WriteRow(r)
  <2>1. /\ pc[r] = "write" /\ UpdateRow(task[r].job, RowWritten(r)) /\ PassOver(r)
        /\ nextId' = nextId /\ request' = request /\ stamp' = stamp
    BY <1>7 DEF WriteRow, bounds
  <2>2. /\ rows' = [rows EXCEPT ![task[r].job] = RowWritten(r)]
        /\ AttemptAccounting' /\ RowsSane' /\ RequestsCurrent' /\ OvertakenWait'
    BY <2>1, SerialWrite
  <2>3. task[r].job \in Job /\ Exists(task[r].job)
    BY <2>1, WriterKnows
  <2>4. CASE task[r].op # "claim"
    <3>1. task'[r] = NoTask /\ pc'[r] # "write"
      BY <1>7, <2>3, <2>4 DEF WriteRow, JobProcessed, EndBatch, Typed, TypeOK
    <3>2. QED BY <2>2, <3>1, IdleRunner
  <2>5. CASE task[r].op = "claim"
    <3>1. /\ task'[r] = [op |-> "run", job |-> task[r].job,
                         attempts |-> RowWritten(r).attempts,
                         maxAttempts |-> RowWritten(r).maxAttempts, runAfter |-> 0]
          /\ pc'[r] = "process"
      BY <1>7, <2>3, <2>5 DEF WriteRow, Typed, TypeOK
    <3>2. RowWritten(r).status = "running" /\ rows'[task[r].job] = RowWritten(r)
      BY <2>1, <2>2, <2>3, <2>5, RowWrittenIs DEF Typed, TypeOK
    <3>3. OwnerSeesTruth'
      BY <1>0, <3>1, <3>2 DEF OwnerSeesTruth, Holds
    <3>4. QED
      BY <1>0, <2>2, <3>1, <3>3
         DEF SerialInv, ClaimStillGood, SnapshotsCurrent, DecisionSound, RequestsCurrent
  <2>6. QED BY <2>4, <2>5
<1>8. QED BY <1>1, <1>1a, <1>2, <1>3, <1>4, <1>5, <1>6, <1>7 DEF RunnerStep, FaultStep

\* Time that passes keeps the serial invariant.
LEMMA SerialTick == ASSUME Typed, SerialInv, Tick PROVE SerialInv'
<1>1. /\ rows' = rows /\ nextId' = nextId /\ task' = task /\ pc' = pc /\ snap' = snap
      /\ request' = request /\ now' = now + 1 /\ stamp' = stamp /\ overtaken' = overtaken
  BY DEF Tick, queue, runner
<1>2. ClaimStillGood'
  <2> SUFFICES ASSUME NEW r \in Runners, task[r].op = "claim"
               PROVE  LET j == task[r].job
                      IN  /\ rows[j].status = "pending"
                          /\ rows[j].attempts + 1 = task[r].attempts
                          /\ rows[j].runAfter <= now + 1
                          /\ \A i \in overtaken : rows[j].runAfter <= rows[i].runAfter
    BY <1>1 DEF ClaimStillGood
  <2>1. rows[task[r].job] \in Row /\ now \in Nat
    BY DEF Typed, TypeOK, ControlOK
  <2>2. rows[task[r].job].runAfter <= now + 1
    BY <2>1 DEF SerialInv, ClaimStillGood, Row
  <2>3. QED BY <2>2 DEF SerialInv, ClaimStillGood
<1>3. QED
  BY <1>1, <1>2, SerialRead
     DEF SerialInv, OwnerSeesTruth, Holds, SnapshotsCurrent, DecisionSound, RequestsCurrent

\* A row that appears or changes without being claimed, held or read by the
\* runner keeps what is said of the runner.
LEMMA SerialOther ==
  ASSUME Typed, SerialInv, NEW j \in Job, \A i \in Job : i # j => rows'[i] = rows[i],
         rows[j].status \in {"absent", "failed"}, overtaken' = overtaken,
         task' = task, pc' = pc, snap' = snap, now' = now
  PROVE  /\ OwnerSeesTruth' /\ ClaimStillGood' /\ DecisionSound' /\ OvertakenWait'
         /\ \A r \in Runners : pc'[r] = "write" => snap'[r] = rows'[task'[r].job]
<1>0. \A i \in overtaken : i \in Job /\ i # j /\ rows'[i] = rows[i] /\ rows[i].status = "pending"
  BY DEF SerialInv, OvertakenWait, Typed, TypeOK
<1>1. ASSUME NEW r \in Runners, task[r].op \notin {"none", "select"}
      PROVE  task[r].job \in Job /\ task[r].job # j /\ rows'[task[r].job] = rows[task[r].job]
  <2>1. task[r].job \in Job /\ task[r] \in Task
    BY <1>1 DEF Typed, TypeOK, ControlOK
  <2>2. task[r].op # "claim" => Holds(r, task[r].job)
    BY <1>1, <2>1 DEF Holds, Task
  <2>3. rows[task[r].job].status \in {"pending", "running"}
    BY <1>1, <2>1, <2>2 DEF SerialInv, ClaimStillGood, OwnerSeesTruth
  <2>4. QED BY <2>1, <2>3
<1>2. OwnerSeesTruth'
  BY <1>1 DEF SerialInv, OwnerSeesTruth, Holds
<1>3. ClaimStillGood'
  <2> SUFFICES ASSUME NEW r \in Runners, task[r].op = "claim"
               PROVE  LET k == task[r].job
                      IN  /\ rows'[k].status = "pending"
                          /\ rows'[k].attempts + 1 = task[r].attempts
                          /\ rows'[k].runAfter <= now
                          /\ \A i \in overtaken : rows'[k].runAfter <= rows'[i].runAfter
    BY DEF ClaimStillGood
  <2>1. rows'[task[r].job] = rows[task[r].job]
    BY <1>1
  <2>2. QED BY <1>0, <2>1 DEF SerialInv, ClaimStillGood
<1>4. DecisionSound'
  BY DEF SerialInv, DecisionSound, ShouldRetry
<1>5. ASSUME NEW r \in Runners, pc'[r] = "write" PROVE snap'[r] = rows'[task'[r].job]
  <2>1. task[r].op \notin {"none", "select"}
    BY <1>5 DEF Typed, ControlOK
  <2>2. QED BY <1>1, <1>5, <2>1 DEF SerialInv, SnapshotsCurrent
<1>6. OvertakenWait'
  BY <1>0 DEF OvertakenWait
<1>7. QED BY <1>2, <1>3, <1>4, <1>5, <1>6

\* A call of enqueue_job that takes its time and its id keeps the serial
\* invariant.
LEMMA SerialEnqueue == ASSUME Typed, SerialInv, EnqueueJob PROVE SerialInv'
<1>1. /\ nextId \in Job /\ nextId \in Nat
      /\ rows' = rows /\ task' = task /\ pc' = pc /\ snap' = snap /\ now' = now
      /\ request' = request /\ overtaken' = overtaken /\ nextId' = nextId + 1
      /\ stamp' = [stamp EXCEPT ![nextId] = now] /\ stamp \in [Job -> Nat \cup {Never}]
  BY DEF EnqueueJob, runner, Typed, TypeOK, Job
<1>2. RowsSane'
  BY <1>1 DEF SerialInv, RowsSane, Exists, Job
<1>3. QED
  BY <1>1, <1>2
     DEF SerialInv, OwnerSeesTruth, Holds, AttemptAccounting, ClaimStillGood, OvertakenWait,
         SnapshotsCurrent, DecisionSound, ShouldRetry

\* The row of a job that comes to the table keeps the serial invariant.
LEMMA SerialStore == ASSUME Typed, SerialInv, NEW j \in Job, StoreJob(j) PROVE SerialInv'
<1> DEFINE row == [status |-> "pending", attempts |-> 0,
                   maxAttempts |-> NormalizeMaxAttempts(MaxAttempts), runAfter |-> stamp[j]]
<1>1. rows \in [Job -> Row] /\ NormalizeMaxAttempts(MaxAttempts) \in 1..10
  BY NormalizeRange DEF Typed, TypeOK
<1>2. /\ rows'[j] = row /\ \A i \in Job : i # j => rows'[i] = rows[i]
      /\ task' = task /\ pc' = pc /\ snap' = snap /\ now' = now /\ request' = request
      /\ nextId' = nextId /\ overtaken' = overtaken
      /\ stamp' = [stamp EXCEPT ![j] = Never] /\ stamp \in [Job -> Nat \cup {Never}]
  BY <1>1 DEF StoreJob, runner, Typed, TypeOK
<1>3. rows[j].status = "absent" /\ j < nextId
  BY DEF StoreJob, SerialInv, RowsSane, Exists
<1>4. /\ OwnerSeesTruth' /\ ClaimStillGood' /\ DecisionSound' /\ OvertakenWait'
      /\ \A r \in Runners : pc'[r] = "write" => snap'[r] = rows'[task'[r].job]
  <2> HIDE DEF row
  <2>1. QED BY <1>1, <1>2, <1>3, SerialOther
<1>5. AttemptAccounting'
  BY <1>1, <1>2 DEF SerialInv, AttemptAccounting
<1>6. RowsSane'
  <2>1. nextId \in Nat
    BY DEF Typed, TypeOK
  <2>2. ASSUME NEW i \in Job, i # j
        PROVE  /\ i >= nextId => rows'[i].status = "absent"
               /\ stamp'[i] # Never => rows'[i].status = "absent" /\ i < nextId
               /\ rows'[i].status # "absent" => rows'[i].maxAttempts \in 1..10
               /\ rows'[i].status = "absent" => rows'[i] = AbsentRow
    BY <1>2, <2>2 DEF SerialInv, RowsSane, Exists
  <2>3. /\ ~(j >= nextId) /\ stamp'[j] = Never /\ rows'[j].status # "absent"
        /\ rows'[j].maxAttempts \in 1..10
    BY <1>1, <1>2, <1>3, <2>1 DEF Job
  <2>4. QED BY <1>2, <2>2, <2>3 DEF RowsSane, Exists
<1>7. RequestsCurrent'
  <2> SUFFICES ASSUME NEW a \in Admins, request[a].op # "none"
               PROVE  request[a].job # j /\ request[a].job \in Job
    BY <1>2 DEF RequestsCurrent, SerialInv, SnapshotsCurrent
  <2>1. QED BY <1>3 DEF SerialInv, SnapshotsCurrent, Typed, ControlOK
<1>8. QED BY <1>4, <1>5, <1>6, <1>7 DEF SerialInv, SnapshotsCurrent, RequestsCurrent

\* An admin request touches a Failed row, which no runner holds, and keeps
\* the serial invariant.
LEMMA SerialAdmin ==
  ASSUME OneAtATime, Typed, SerialInv, NEW a \in Admins, AdminStep(a)
  PROVE  SerialInv'
<1>0. \A b \in Admins : b = a
  BY DEF OneAtATime
<1>1. /\ nextId' = nextId /\ task' = task /\ pc' = pc /\ snap' = snap /\ now' = now
      /\ stamp' = stamp /\ overtaken' = overtaken
  BY DEF AdminStep, AdminRead, AdminReopen, AdminRetry, AdminPurge, AdminAbandon, queue, runner
<1>2. CASE AdminRead(a) \/ AdminReopen(a) \/ AdminAbandon(a)
  <2>1. rows' = rows
    BY <1>2 DEF AdminRead, AdminReopen, AdminAbandon, queue
  <2>2. RequestsCurrent'
    <3>1. CASE AdminRead(a)
      <4>1. PICK j \in Job, op \in {"retry", "purge"} :
              /\ rows[j].status = "failed"
              /\ request' = [request EXCEPT ![a] = [op |-> op, job |-> j, snap |-> rows[j]]]
        BY <3>1 DEF AdminRead
      <4>2. QED BY <1>0, <2>1, <4>1 DEF RequestsCurrent, Typed, TypeOK
    <3>2. CASE AdminAbandon(a)
      BY <1>0, <3>2 DEF AdminAbandon, RequestsCurrent, NoRequest, Typed, TypeOK
    <3>2a. CASE AdminReopen(a)
      <4>1. PICK m \in AdminMaxAttempts :
              request' = [request EXCEPT ![a].op = "update", ![a].snap = Reopened(@, m)]
        BY <3>2a DEF AdminReopen
      <4>2. /\ request[a] \in Request /\ request[a].snap \in Row /\ request[a].op = "retry"
            /\ request \in [Admins -> Request] /\ request[a].job \in Job
        BY <3>2a DEF AdminReopen, Typed, TypeOK, ControlOK, Request
      <4>3. request[a].snap = rows[request[a].job] /\ request[a].snap.status = "failed"
        BY <4>2 DEF SerialInv, SnapshotsCurrent
      <4>4. request[a].snap.maxAttempts \in 1..10
        BY <4>2, <4>3 DEF SerialInv, RowsSane, Exists
      <4>5. /\ Reopened(request[a].snap, m).attempts = 0
            /\ Reopened(request[a].snap, m).maxAttempts \in 1..10
        BY <4>2, <4>4, ReopenedType DEF Typed, TypeOK
      <4>6. /\ request'[a].op = "update" /\ request'[a].job = request[a].job
            /\ request'[a].snap = Reopened(request[a].snap, m)
        BY <4>1, <4>2 DEF Request
      <4>7. QED BY <1>0, <2>1, <4>3, <4>5, <4>6 DEF RequestsCurrent
    <3>3. QED BY <1>2, <3>1, <3>2, <3>2a
  <2>3. QED
    BY <1>1, <2>1, <2>2
       DEF SerialInv, OwnerSeesTruth, Holds, AttemptAccounting, ClaimStillGood, OvertakenWait,
           SnapshotsCurrent, DecisionSound, RowsSane, Exists, RequestsCurrent, ShouldRetry
<1>3. CASE AdminRetry(a) \/ AdminPurge(a)
  <2> DEFINE j == request[a].job
  <2>1. /\ request[a].op # "none" /\ request'[a] = NoRequest
    BY <1>3 DEF AdminRetry, AdminPurge, Typed, TypeOK
  <2>2. /\ j \in Job /\ rows \in [Job -> Row]
        /\ rows[j].status = "failed" /\ rows[j] \in Row
    BY <2>1 DEF SerialInv, SnapshotsCurrent, Typed, TypeOK, ControlOK
  <2>3. /\ Exists(j) /\ rows[j].maxAttempts \in 1..10 /\ ~(j >= nextId) /\ stamp[j] = Never
    BY <2>2 DEF SerialInv, RowsSane, Exists
  <2>4. /\ \A i \in Job : i # j => rows'[i] = rows[i]
        /\ \/ /\ rows'[j].status = "pending" /\ rows'[j].attempts = 0
              /\ rows'[j].maxAttempts \in 1..10
           \/ rows'[j] = AbsentRow
    <3>1. CASE AdminRetry(a)
      <4>1. /\ request[a].snap.status = "pending" /\ request[a].snap.attempts = 0
            /\ request[a].snap.maxAttempts \in 1..10
        BY <3>1 DEF AdminRetry, SerialInv, SnapshotsCurrent, Typed, ControlOK
      <4>2. rows' = [rows EXCEPT ![j] = request[a].snap]
        BY <2>2, <2>3, <3>1 DEF AdminRetry, UpdateRow
      <4>3. QED BY <2>2, <4>1, <4>2
    <3>2. CASE AdminPurge(a)
      BY <2>2, <3>2 DEF AdminPurge
    <3>3. QED BY <1>3, <3>1, <3>2
  <2> HIDE DEF j
  <2>5. /\ OwnerSeesTruth' /\ ClaimStillGood' /\ DecisionSound' /\ OvertakenWait'
        /\ \A r \in Runners : pc'[r] = "write" => snap'[r] = rows'[task'[r].job]
    BY <1>1, <2>2, <2>4, SerialOther
  <2>6. AttemptAccounting'
    BY <2>2, <2>4 DEF SerialInv, AttemptAccounting, AbsentRow
  <2>7. RowsSane'
    BY <1>1, <2>2, <2>3, <2>4 DEF SerialInv, RowsSane, Exists, AbsentRow
  <2>8. RequestsCurrent'
    BY <1>0, <2>1 DEF RequestsCurrent, NoRequest
  <2>9. QED BY <2>5, <2>6, <2>7, <2>8 DEF SerialInv, SnapshotsCurrent, RequestsCurrent
<1>4. QED BY <1>2, <1>3 DEF AdminStep

\* The serial invariant holds at first.
LEMMA SerialInit == Init => SerialInv
BY DEF Init, SerialInv, OwnerSeesTruth, Holds, AttemptAccounting, ClaimStillGood,
       OvertakenWait, SnapshotsCurrent, DecisionSound, RowsSane, Exists, NoTask, NoRequest,
       AbsentRow

\* The serial invariant is kept by every step.
LEMMA SerialNext ==
  ASSUME OneAtATime
  PROVE  Typed /\ Typed' /\ SerialInv /\ [Next]_vars => SerialInv'
<1> SUFFICES ASSUME Typed, Typed', SerialInv, [Next]_vars PROVE SerialInv'
  OBVIOUS
<1>1. CASE UNCHANGED vars
  BY <1>1 DEF vars, SerialInv, OwnerSeesTruth, Holds, AttemptAccounting, ClaimStillGood,
              OvertakenWait, SnapshotsCurrent, DecisionSound, RowsSane, Exists, ShouldRetry
<1>2. CASE Next
  BY <1>2, SerialTick, SerialEnqueue, SerialStore, SerialRunner, SerialAdmin DEF Next
<1>3. QED BY <1>1, <1>2

\* The types hold in every state.
LEMMA TypedAlways == Spec => []Typed
BY TypeCorrect, PTL DEF Typed

\* With one runner and one admin request the serial invariant holds in every
\* state.
LEMMA SerialInvariant == ASSUME OneAtATime PROVE Spec => []SerialInv
<1>1. Typed /\ Typed' /\ SerialInv /\ [Next]_vars => SerialInv'
  BY SerialNext
<1>2. QED BY <1>1, TypedAlways, SerialInit, PTL DEF Spec

\* One server and one admin request at a time: the copy of its job by which a
\* runner decides between retry and failure agrees with the table.
THEOREM OwnerSeesTruthHolds ==
  ASSUME OneAtATime
  PROVE  Spec => []OwnerSeesTruth
<1>1. Spec => []SerialInv
  BY SerialInvariant
<1>2. SerialInv => OwnerSeesTruth
  BY DEF SerialInv
<1>3. QED BY <1>1, <1>2, PTL

\* One server and one admin request at a time: what was read is still so when
\* it is written, the runner's copy of its job agrees with the table, and no
\* job is executed more often, or given up earlier, than it was granted.
THEOREM SerialQueueIsSound ==
  ASSUME OneAtATime
  PROVE  Spec => [](OwnerSeesTruth /\ AttemptAccounting)
<1>1. Spec => []SerialInv
  BY SerialInvariant
<1>2. SerialInv => OwnerSeesTruth /\ AttemptAccounting
  BY DEF SerialInv
<1>3. QED BY <1>1, <1>2, PTL

\* One server and one admin request at a time: the job a runner makes Running
\* is still pending and due, and no job scheduled before it has been passed over
\* by a claim already.
THEOREM ClaimsAreInOrder ==
  ASSUME OneAtATime
  PROVE  Spec => ClaimsInScheduleOrder
<1> DEFINE A == \A j \in Job :
             rows[j].status # "running" /\ rows'[j].status = "running" =>
               /\ rows[j].status = "pending"
               /\ rows[j].runAfter <= now
               /\ \A i \in overtaken : rows[j].runAfter <= rows[i].runAfter
<1>1. Typed /\ SerialInv /\ [Next]_vars => [A]_vars
  <2> SUFFICES ASSUME Typed, SerialInv, Next, NEW j \in Job,
                      rows[j].status # "running", rows'[j].status = "running"
               PROVE  /\ rows[j].status = "pending"
                      /\ rows[j].runAfter <= now
                      /\ \A i \in overtaken : rows[j].runAfter <= rows[i].runAfter
    OBVIOUS
  <2>1. ASSUME NEW r \in Runners, pc[r] = "write", UpdateRow(task[r].job, RowWritten(r))
        PROVE  j = task[r].job /\ task[r].op = "claim"
    <3>1. j = task[r].job
      BY <2>1 DEF UpdateRow, Typed, TypeOK
    <3>2. rows'[j] = RowWritten(r)
      BY <2>1, <3>1 DEF UpdateRow, Typed, TypeOK
    <3>3. QED BY <2>1, <3>1, <3>2, RowWrittenType DEF Typed
  <2>2. ASSUME NEW r \in Runners, WriteRow(r) \/ AnswerLost(r)
        PROVE  j = task[r].job /\ task[r].op = "claim"
    BY <2>1, <2>2 DEF WriteRow, AnswerLost
  <2>3. ASSUME rows' = rows PROVE FALSE
    BY <2>3
  <2>4. ~Tick
    BY <2>3 DEF Tick, queue
  <2>5. ~EnqueueJob /\ \A i \in Job : ~StoreJob(i)
    BY DEF EnqueueJob, StoreJob, Typed, TypeOK
  <2>6. ASSUME NEW a \in Admins, AdminStep(a) PROVE FALSE
    <3>1. CASE AdminRetry(a)
      BY <3>1 DEF AdminRetry, UpdateRow, Typed, TypeOK, ControlOK
    <3>2. CASE AdminPurge(a)
      BY <3>2 DEF AdminPurge, AbsentRow, Typed, TypeOK
    <3>3. CASE AdminRead(a) \/ AdminReopen(a) \/ AdminAbandon(a)
      BY <2>3, <3>3 DEF AdminRead, AdminReopen, AdminAbandon, queue
    <3>4. QED BY <2>6, <3>1, <3>2, <3>3 DEF AdminStep
  <2>7. \E r \in Runners : j = task[r].job /\ task[r].op = "claim"
    <3>1. ASSUME NEW r \in Runners, RunnerStep(r) \/ FaultStep(r) \/ Restart(r)
          PROVE  j = task[r].job /\ task[r].op = "claim"
      BY <2>2, <2>3, <3>1, RowsUntouched DEF RunnerStep, FaultStep
    <3>2. QED BY <2>4, <2>5, <2>6, <3>1 DEF Next
  <2>8. QED BY <2>7 DEF SerialInv, ClaimStillGood
<1>2. QED BY <1>1, TypedAlways, SerialInvariant, PTL DEF Spec, ClaimsInScheduleOrder

-----------------------------------------------------------------------------
(* The refinement of JobLifecycle.                                         *)

\* When one row moves, the abstract state moves in that job only.
LEMMA OneRowMoves ==
  ASSUME NEW j \in Job, \A i \in Job : i # j => rows'[i] = rows[i] /\ stamp'[i] = stamp[i],
         nextId' = nextId
  PROVE  /\ JobPhase' = [JobPhase EXCEPT ![j] = JobPhase'[j]]
         /\ JobAttempts' = [JobAttempts EXCEPT ![j] = rows'[j].attempts]
         /\ JobGranted' = [JobGranted EXCEPT ![j] = rows'[j].maxAttempts]
BY DEF JobPhase, JobAttempts, JobGranted, Exists

\* A step that leaves the table alone is a stutter of the job lifecycle.
LEMMA NoRowMoves ==
  ASSUME rows' = rows, nextId' = nextId, stamp' = stamp
  PROVE  UNCHANGED Lifecycle!lifecycleVars
BY DEF JobPhase, JobAttempts, JobGranted, Exists, Lifecycle!lifecycleVars

\* A runner's write is a step of the job it writes.
LEMMA WriteIsLifecycleStep ==
  ASSUME Typed, SerialInv, NEW r \in Runners, pc[r] = "write",
         UpdateRow(task[r].job, RowWritten(r)), nextId' = nextId, stamp' = stamp
  PROVE  Lifecycle!Next
<1> DEFINE j == task[r].job
<1> DEFINE row == RowWritten(r)
<1>1. j \in Job /\ Exists(j) /\ rows \in [Job -> Row]
  BY WriterKnows DEF Typed, TypeOK
<1>2. rows'[j] = row /\ \A i \in Job : i # j => rows'[i] = rows[i]
  BY <1>1 DEF UpdateRow
<1>3. /\ row \in Row
      /\ row.maxAttempts = rows[j].maxAttempts
      /\ \/ row.status = "running" /\ row.attempts = rows[j].attempts + 1
            /\ rows[j].status = "pending" /\ rows[j].attempts < rows[j].maxAttempts
         \/ row.status = "succeeded" /\ row.attempts = rows[j].attempts
            /\ rows[j].status = "running"
         \/ row.status = "pending" /\ row.attempts = rows[j].attempts
            /\ rows[j].status = "running" /\ rows[j].attempts < rows[j].maxAttempts
         \/ row.status = "failed" /\ row.attempts = rows[j].attempts
            /\ rows[j].status = "running" /\ rows[j].attempts = rows[j].maxAttempts
  BY RowWrittenIs
<1> HIDE DEF j, row
<1>4. /\ JobPhase[j] = rows[j].status /\ JobPhase'[j] = row.status
      /\ JobAttempts[j] = rows[j].attempts /\ JobGranted[j] = rows[j].maxAttempts
  BY <1>1, <1>2, <1>3 DEF JobPhase, JobAttempts, JobGranted, Exists
<1>5. /\ JobPhase' = [JobPhase EXCEPT ![j] = row.status]
      /\ JobAttempts' = [JobAttempts EXCEPT ![j] = row.attempts]
      /\ JobGranted' = [JobGranted EXCEPT ![j] = row.maxAttempts]
  BY <1>1, <1>2, <1>4, OneRowMoves
<1>6. JobGranted' = JobGranted
  BY <1>3, <1>4, <1>5 DEF JobGranted
<1>7. row.attempts = rows[j].attempts => JobAttempts' = JobAttempts
  BY <1>4, <1>5 DEF JobAttempts
<1>8. Lifecycle!Claim(j) \/ Lifecycle!Complete(j) \/ Lifecycle!Retry(j) \/ Lifecycle!Exhaust(j)
  BY <1>3, <1>4, <1>5, <1>6, <1>7
     DEF Lifecycle!Claim, Lifecycle!Complete, Lifecycle!Retry, Lifecycle!Exhaust, Lifecycle!Move
<1>9. QED BY <1>1, <1>8 DEF Lifecycle!Next

\* A call of enqueue_job that has taken its time and its id has changed
\* nothing yet for the lifecycle.
LEMMA EnqueueIsStutter ==
  ASSUME Typed, SerialInv, EnqueueJob
  PROVE  UNCHANGED Lifecycle!lifecycleVars
<1>1. /\ nextId \in Nat /\ now \in Nat /\ rows' = rows /\ nextId' = nextId + 1
      /\ stamp' = [stamp EXCEPT ![nextId] = now] /\ stamp \in [Job -> Nat \cup {Never}]
      /\ nextId \in Job
  BY DEF EnqueueJob, Typed, TypeOK, Job
<1>2. ASSUME NEW i \in Job
      PROVE  (~Exists(i) /\ i < nextId /\ stamp[i] = Never)
               <=> (~Exists(i) /\ i < nextId /\ stamp[i] = Never)'
  <2>1. CASE i = nextId
    BY <1>1, <2>1 DEF Never
  <2>2. CASE i # nextId
    BY <1>1, <2>2 DEF Exists, Job
  <2>3. QED BY <2>1, <2>2
<1>3. JobPhase' = JobPhase
  BY <1>1, <1>2 DEF JobPhase
<1>4. QED BY <1>1, <1>3 DEF JobAttempts, JobGranted, Lifecycle!lifecycleVars

\* The row that comes to the table is Enqueue of the lifecycle.
LEMMA StoreIsLifecycleStep ==
  ASSUME Typed, SerialInv, NEW j \in Job, StoreJob(j)
  PROVE  Lifecycle!Next
<1>1. NormalizeMaxAttempts(MaxAttempts) \in 1..10
  BY NormalizeRange
<1>2. /\ rows'[j].status = "pending" /\ rows'[j].attempts = 0
      /\ rows'[j].maxAttempts \in 1..10 /\ nextId' = nextId
      /\ \A i \in Job : i # j => rows'[i] = rows[i] /\ stamp'[i] = stamp[i]
  BY <1>1 DEF StoreJob, Typed, TypeOK
<1>3. rows[j].status = "absent" /\ stamp[j] # Never
  BY DEF StoreJob, SerialInv, RowsSane, Exists
<1>4. JobPhase[j] = "absent" /\ JobPhase'[j] = "pending"
  BY <1>2, <1>3 DEF JobPhase, Exists
<1>5. /\ JobPhase' = [JobPhase EXCEPT ![j] = "pending"]
      /\ JobAttempts' = [JobAttempts EXCEPT ![j] = 0]
      /\ JobGranted' = [JobGranted EXCEPT ![j] = rows'[j].maxAttempts]
  BY <1>2, <1>4, OneRowMoves
<1>6. Lifecycle!Enqueue(j)
  BY <1>2, <1>4, <1>5 DEF Lifecycle!Enqueue, Lifecycle!Grant, Lifecycle!Move
<1>7. QED BY <1>6 DEF Lifecycle!Next

\* An admin request is a retry or a purge of the lifecycle, or a stutter.
LEMMA AdminIsLifecycleStep ==
  ASSUME Typed, SerialInv, NEW a \in Admins, AdminStep(a)
  PROVE  Lifecycle!Next \/ UNCHANGED Lifecycle!lifecycleVars
<1>1. CASE AdminRead(a) \/ AdminReopen(a) \/ AdminAbandon(a)
  BY <1>1, NoRowMoves DEF AdminRead, AdminReopen, AdminAbandon, queue
<1>2. CASE AdminRetry(a) \/ AdminPurge(a)
  <2> DEFINE j == request[a].job
  <2>1. request[a].op # "none" /\ nextId' = nextId /\ stamp' = stamp
    BY <1>2 DEF AdminRetry, AdminPurge
  <2>2. /\ j \in Job /\ rows \in [Job -> Row]
        /\ rows[j].status = "failed" /\ rows[j] \in Row
    BY <2>1 DEF SerialInv, SnapshotsCurrent, Typed, TypeOK, ControlOK
  <2>3. Exists(j) /\ rows[j].maxAttempts \in 1..10 /\ j < nextId /\ stamp[j] = Never
    <3>1. Exists(j)
      BY <2>2 DEF Exists
    <3>2. rows[j].maxAttempts \in 1..10 /\ ~(j >= nextId) /\ stamp[j] = Never
      BY <2>2, <3>1 DEF SerialInv, RowsSane
    <3>3. j \in Int /\ nextId \in Int
      BY <2>2 DEF Typed, TypeOK, Job
    <3> HIDE DEF j
    <3>4. QED BY <3>1, <3>2, <3>3
  <2>4. JobPhase[j] = "failed"
    BY <2>2 DEF JobPhase, Exists
  <2>5. CASE AdminRetry(a)
    <3>1. /\ request[a].snap.status = "pending" /\ request[a].snap.attempts = 0
          /\ request[a].snap.maxAttempts \in 1..10
      BY <2>1, <2>5 DEF AdminRetry, SerialInv, SnapshotsCurrent, Typed, ControlOK
    <3>2. rows' = [rows EXCEPT ![j] = request[a].snap]
      BY <2>2, <2>3, <2>5 DEF AdminRetry, UpdateRow
    <3>4. /\ rows'[j].status = "pending" /\ rows'[j].attempts = 0
          /\ rows'[j].maxAttempts \in 1..10
          /\ \A i \in Job : i # j => rows'[i] = rows[i]
      BY <2>2, <3>1, <3>2
    <3> HIDE DEF j
    <3>5. JobPhase'[j] = "pending"
      BY <2>2, <3>4 DEF JobPhase, Exists
    <3>6. /\ JobPhase' = [JobPhase EXCEPT ![j] = "pending"]
          /\ JobAttempts' = [JobAttempts EXCEPT ![j] = 0]
          /\ JobGranted' = [JobGranted EXCEPT ![j] = rows'[j].maxAttempts]
      BY <2>1, <2>2, <3>4, <3>5, OneRowMoves
    <3>7. Lifecycle!Reopen(j)
      BY <2>4, <3>4, <3>6 DEF Lifecycle!Reopen, Lifecycle!Grant, Lifecycle!Move
    <3>8. QED BY <2>2, <3>7 DEF Lifecycle!Next
  <2>6. CASE AdminPurge(a)
    <3>1. rows'[j] = AbsentRow /\ \A i \in Job : i # j => rows'[i] = rows[i]
      BY <2>2, <2>6 DEF AdminPurge
    <3> HIDE DEF j
    <3>2. JobPhase'[j] = "purged"
      BY <2>1, <2>2, <2>3, <3>1 DEF JobPhase, Exists, AbsentRow
    <3>3. rows'[j].attempts = 0 /\ rows'[j].maxAttempts = 0
      BY <3>1 DEF AbsentRow
    <3>4. /\ JobPhase' = [JobPhase EXCEPT ![j] = "purged"]
          /\ JobAttempts' = [JobAttempts EXCEPT ![j] = 0]
          /\ JobGranted' = [JobGranted EXCEPT ![j] = 0]
      BY <2>1, <2>2, <3>1, <3>2, <3>3, OneRowMoves
    <3>5. Lifecycle!Purge(j)
      BY <2>4, <3>4 DEF Lifecycle!Purge, Lifecycle!Move
    <3>6. QED BY <2>2, <3>5 DEF Lifecycle!Next
  <2>7. QED BY <1>2, <2>5, <2>6
<1>3. QED BY <1>1, <1>2 DEF AdminStep

\* One server and one admin request at a time: the store's split operations
\* implement the atomic lifecycle of JobLifecycle, for every number of jobs,
\* every grant of attempts and every fault.
THEOREM QueueImplementsLifecycle ==
  ASSUME OneAtATime
  PROVE  Spec => ImplementsLifecycle
<1>1. Init => Lifecycle!Init
  BY DEF Init, Lifecycle!Init, JobPhase, JobAttempts, JobGranted, Exists, AbsentRow, Job
<1>2. Typed /\ SerialInv /\ [Next]_vars => [Lifecycle!Next]_(Lifecycle!lifecycleVars)
  <2> SUFFICES ASSUME Typed, SerialInv, [Next]_vars
               PROVE  Lifecycle!Next \/ UNCHANGED Lifecycle!lifecycleVars
    OBVIOUS
  <2>1. CASE UNCHANGED vars
    BY <2>1, NoRowMoves DEF vars
  <2>2. CASE Tick
    BY <2>2, NoRowMoves DEF Tick, queue
  <2>3. CASE EnqueueJob
    BY <2>3, EnqueueIsStutter
  <2>3a. ASSUME NEW j \in Job, StoreJob(j) PROVE Lifecycle!Next
    BY <2>3a, StoreIsLifecycleStep
  <2>4. ASSUME NEW r \in Runners, WriteRow(r) \/ AnswerLost(r) PROVE Lifecycle!Next
    BY <2>4, WriteIsLifecycleStep DEF WriteRow, AnswerLost
  <2>5. ASSUME NEW r \in Runners,
               Wake(r) \/ TakeTime(r) \/ SelectJob(r) \/ SelectNone(r) \/ ReadRow(r)
                 \/ ProcessOk(r) \/ ProcessErr(r) \/ StoreError(r) \/ Crash(r) \/ Restart(r)
        PROVE  UNCHANGED Lifecycle!lifecycleVars
    BY <2>5, RowsUntouched, NoRowMoves
  <2>6. ASSUME NEW a \in Admins, AdminStep(a)
        PROVE  Lifecycle!Next \/ UNCHANGED Lifecycle!lifecycleVars
    BY <2>6, AdminIsLifecycleStep
  <2>7. QED
    BY <2>1, <2>2, <2>3, <2>3a, <2>4, <2>5, <2>6 DEF Next, RunnerStep, FaultStep
<1>3. QED
  BY <1>1, <1>2, TypedAlways, SerialInvariant, PTL DEF Spec, ImplementsLifecycle, Lifecycle!Spec

-----------------------------------------------------------------------------
(* Part 3: the migrations.                                                 *)

HIDE JobQueueAssumption

InLoop(s) == state[s] \in {"migrating", "serving"}

\* A server in its loop has passed only recorded migrations, knows only recorded
\* ones, and has applied the statements of its migration before the next.
LoopInv ==
    \A s \in Servers :
        /\ known[s] \subseteq recorded
        /\ InLoop(s) => \A v \in 1..(version[s] - 1) : v \in recorded
        /\ state[s] = "migrating" /\ version[s] <= Last =>
              \A k \in 1..(statement[s] - 1) : <<version[s], k>> \in schema
        /\ state[s] = "serving" => version[s] = Last + 1

\* The two statements of the migration to owners come in their order, and after
\* the second no game is without an owner.
OwnerInv ==
    <<Ownership, UpdateOwner>> \in schema =>
        /\ <<Ownership, DefineOwner>> \in schema
        /\ \A g \in Games : owner[g] # "none"

MigrationInv == MigrationTypeOK /\ RecordedIsApplied /\ LoopInv /\ OwnerInv

-----------------------------------------------------------------------------

\* The inductive invariant holds in an empty database.
LEMMA InitMigrationInv == MigrationInit => MigrationInv
  BY MigrationsAssumption
  DEF MigrationInit, MigrationInv, MigrationTypeOK, RecordedIsApplied, LoopInv, OwnerInv, InLoop, Complete

\* Every state the code reaches has the types of the declarations.
LEMMA StepTypeOK == MigrationTypeOK /\ [MigrationNext]_migrationVars => MigrationTypeOK'
<1> SUFFICES ASSUME MigrationTypeOK, [MigrationNext]_migrationVars PROVE MigrationTypeOK'
  OBVIOUS
<1> USE MigrationsAssumption
<1>1. ASSUME NEW s \in Servers, Start(s) PROVE MigrationTypeOK'
  BY <1>1 DEF Start, MigrationTypeOK
<1>2. ASSUME NEW s \in Servers, applied_migrations(s) PROVE MigrationTypeOK'
  BY <1>2 DEF applied_migrations, FromOne, MigrationTypeOK
<1>3. ASSUME NEW s \in Servers, Skip(s) PROVE MigrationTypeOK'
  <2>1. version[s] \in 1..Last
    BY <1>3 DEF Skip, AtMigration, MigrationTypeOK
  <2>2. version' \in [Servers -> 1..Last + 1] /\ statement' \in [Servers -> Nat \ {0}]
    BY <1>3, <2>1 DEF Skip, NextVersion, MigrationTypeOK
  <2> QED
    BY <1>3, <2>2 DEF Skip, MigrationTypeOK
<1>4. ASSUME NEW s \in Servers, Apply(s) PROVE MigrationTypeOK'
  <2>1. version[s] \in 1..Last /\ statement[s] \in Nat \ {0}
    BY <1>4 DEF Apply, AtMigration, MigrationTypeOK
  <2>2. schema' \subseteq (1..Last) \X (Nat \ {0})
    BY <1>4, <2>1 DEF Apply, MigrationTypeOK
  <2>3. owner' \in [Games -> {"absent", "none", "nobody"} \cup Users]
    BY <1>4 DEF Apply, UpdateMissing, MigrationTypeOK
  <2>4. statement' \in [Servers -> Nat \ {0}]
    BY <1>4, <2>1 DEF Apply, MigrationTypeOK
  <2> QED
    BY <1>4, <2>2, <2>3, <2>4 DEF Apply, MigrationTypeOK
<1>5. ASSUME NEW s \in Servers, record_migration(s) PROVE MigrationTypeOK'
  <2>1. version[s] \in 1..Last
    BY <1>5 DEF record_migration, AtMigration, MigrationTypeOK
  <2>2. recorded' \subseteq 1..Last
    BY <1>5, <2>1 DEF record_migration, MigrationTypeOK
  <2>3. version' \in [Servers -> 1..Last + 1] /\ statement' \in [Servers -> Nat \ {0}]
    BY <1>5, <2>1 DEF record_migration, NextVersion, MigrationTypeOK
  <2> QED
    BY <1>5, <2>2, <2>3 DEF record_migration, MigrationTypeOK
<1>6. ASSUME NEW s \in Servers, Serve(s) PROVE MigrationTypeOK'
  BY <1>6 DEF Serve, MigrationTypeOK
<1>7. ASSUME NEW s \in Servers, Stop(s) PROVE MigrationTypeOK'
  <2>1. stops' \in 0..MaxStops
    BY <1>7 DEF Stop, MigrationTypeOK
  <2>2. state' \in [Servers -> {"stopped", "started", "migrating", "serving"}]
    BY <1>7 DEF Stop, MigrationTypeOK
  <2> QED
    BY <1>7, <2>1, <2>2 DEF Stop, MigrationTypeOK
<1>8. ASSUME NEW g \in Games, OldCreateGame(g) PROVE MigrationTypeOK'
  BY <1>8 DEF OldCreateGame, MigrationTypeOK
<1>9. ASSUME NEW s \in Servers, NEW g \in Games, NEW u \in Users, create_game(s, g, u)
      PROVE MigrationTypeOK'
  BY <1>9 DEF create_game, MigrationTypeOK
<1>10. CASE UNCHANGED migrationVars
  BY <1>10 DEF migrationVars, MigrationTypeOK
<1> QED
  BY <1>1, <1>2, <1>3, <1>4, <1>5, <1>6, <1>7, <1>8, <1>9, <1>10 DEF MigrationNext, Migrate

\* Statements are only added: what is complete stays so.
LEMMA SchemaGrows == [MigrationNext]_migrationVars => schema \subseteq schema' /\ recorded \subseteq recorded'
  BY DEF MigrationNext, migrationVars, Start, Migrate, applied_migrations, Skip, Apply, record_migration, Serve,
         Stop, create_game, OldCreateGame

\* Only a migration whose statements are all applied is recorded.
LEMMA StepRecorded == MigrationInv /\ [MigrationNext]_migrationVars => RecordedIsApplied'
<1> SUFFICES ASSUME MigrationInv, [MigrationNext]_migrationVars, NEW v \in recorded' PROVE Complete(v)'
  BY DEF RecordedIsApplied
<1>1. schema \subseteq schema'
  BY SchemaGrows
<1>2. CASE v \in recorded
  BY <1>1, <1>2 DEF MigrationInv, RecordedIsApplied, Complete
<1>3. CASE v \notin recorded
  <2>1. PICK s \in Servers : record_migration(s)
    BY <1>3 DEF MigrationNext, migrationVars, Start, Migrate, applied_migrations, Skip, Apply, Serve, Stop,
                create_game, OldCreateGame
  <2>2. v = version[s] /\ version[s] \in 1..Last /\ state[s] = "migrating"
    BY <1>3, <2>1 DEF record_migration, AtMigration, MigrationInv, MigrationTypeOK
  <2>3. \A k \in 1..(statement[s] - 1) : <<version[s], k>> \in schema
    BY <2>2 DEF MigrationInv, LoopInv
  <2>4. statement[s] > Statements[v] /\ Statements[v] \in Nat /\ statement[s] \in Nat
    BY <2>1, <2>2, MigrationsAssumption DEF record_migration, AllApplied, MigrationInv, MigrationTypeOK
  <2>5. \A k \in 1..Statements[v] : <<v, k>> \in schema
    BY <2>2, <2>3, <2>4
  <2> QED
    BY <1>1, <2>5 DEF Complete
<1> QED
  BY <1>2, <1>3

\* What the servers in their loops know stays true, also while others migrate.
LEMMA StepLoop == MigrationInv /\ [MigrationNext]_migrationVars => LoopInv'
<1> SUFFICES ASSUME MigrationInv, [MigrationNext]_migrationVars PROVE LoopInv'
  OBVIOUS
<1> USE MigrationsAssumption DEF MigrationInv, MigrationTypeOK, LoopInv, InLoop
<1>0. schema \subseteq schema' /\ recorded \subseteq recorded'
  BY SchemaGrows
<1>1. ASSUME NEW s \in Servers, Start(s) PROVE LoopInv'
  BY <1>1 DEF Start
<1>2. ASSUME NEW s \in Servers, applied_migrations(s) PROVE LoopInv'
  BY <1>2 DEF applied_migrations, FromOne
<1>3. ASSUME NEW s \in Servers, Skip(s) PROVE LoopInv'
  BY <1>3 DEF Skip, NextVersion, AtMigration
<1>4. ASSUME NEW s \in Servers, Apply(s) PROVE LoopInv'
  <2>1. ASSUME NEW t \in Servers, state[t] = "migrating", version[t] <= Last,
               NEW k \in 1..(statement'[t] - 1)
        PROVE <<version[t], k>> \in schema'
    BY <1>0, <1>4, <2>1 DEF Apply
  <2> QED
    BY <1>0, <1>4, <2>1 DEF Apply
<1>5. ASSUME NEW s \in Servers, record_migration(s) PROVE LoopInv'
  <2>1. /\ state' = state /\ known' = known /\ schema' = schema
        /\ version' = [version EXCEPT ![s] = @ + 1]
        /\ statement' = [statement EXCEPT ![s] = 1]
        /\ recorded' = recorded \cup {version[s]}
        /\ state[s] = "migrating" /\ version[s] \in 1..Last
    BY <1>5 DEF record_migration, NextVersion, AtMigration
  <2>2. ASSUME NEW t \in Servers, t # s PROVE version'[t] = version[t] /\ statement'[t] = statement[t]
    BY <2>1, <2>2
  <2>3. version'[s] = version[s] + 1 /\ statement'[s] = 1
    BY <2>1
  <2>4. ASSUME NEW t \in Servers PROVE known'[t] \subseteq recorded'
    BY <1>0, <2>1
  <2>5. ASSUME NEW t \in Servers, InLoop(t)', NEW v \in 1..(version'[t] - 1) PROVE v \in recorded'
    <3>1. CASE t = s
      <4>1. v = version[s] \/ v \in 1..(version[s] - 1)
        BY <2>1, <2>3, <2>5, <3>1
      <4> QED
        BY <2>1, <4>1
    <3>2. CASE t # s
      BY <1>0, <2>1, <2>2, <2>5, <3>2
    <3> QED
      BY <3>1, <3>2
  <2>6. ASSUME NEW t \in Servers, state'[t] = "migrating", version'[t] <= Last,
               NEW k \in 1..(statement'[t] - 1)
        PROVE <<version'[t], k>> \in schema'
    <3>1. t # s
      BY <2>3, <2>6
    <3> QED
      BY <2>1, <2>2, <2>6, <3>1
  <2>7. ASSUME NEW t \in Servers, state'[t] = "serving" PROVE version'[t] = Last + 1
    BY <2>1, <2>2, <2>7
  <2> QED
    BY <2>4, <2>5, <2>6, <2>7
<1>6. ASSUME NEW s \in Servers, Serve(s) PROVE LoopInv'
  BY <1>6 DEF Serve, LoopEnded
<1>7. ASSUME NEW s \in Servers, Stop(s) PROVE LoopInv'
  BY <1>7 DEF Stop
<1>8. ASSUME NEW g \in Games, OldCreateGame(g) PROVE LoopInv'
  BY <1>8 DEF OldCreateGame
<1>9. ASSUME NEW s \in Servers, NEW g \in Games, NEW u \in Users, create_game(s, g, u)
      PROVE LoopInv'
  BY <1>9 DEF create_game
<1>10. CASE UNCHANGED migrationVars
  BY <1>10 DEF migrationVars
<1> QED
  BY <1>1, <1>2, <1>3, <1>4, <1>5, <1>6, <1>7, <1>8, <1>9, <1>10 DEF MigrationNext, Migrate

\* No game without an owner is stored or left after the update.
LEMMA StepOwner == MigrationInv /\ [MigrationNext]_migrationVars => OwnerInv'
<1> SUFFICES ASSUME MigrationInv, [MigrationNext]_migrationVars PROVE OwnerInv'
  OBVIOUS
<1> USE MigrationsAssumption DEF MigrationInv, OwnerInv
<1>1. CASE \E s \in Servers : Apply(s)
  <2>1. PICK s \in Servers : Apply(s)
    BY <1>1
  <2>2. state[s] = "migrating" /\ version[s] \in 1..Last /\ statement[s] \in Nat \ {0}
    BY <2>1 DEF Apply, AtMigration, MigrationTypeOK
  <2>3. \A k \in 1..(statement[s] - 1) : <<version[s], k>> \in schema
    BY <2>2 DEF LoopInv
  <2>4. CASE version[s] = Ownership /\ statement[s] = UpdateOwner
    <3>1. <<Ownership, DefineOwner>> \in schema
      BY <2>3, <2>4
    <3>2. \A g \in Games : owner'[g] # "none"
      BY <2>1, <2>4 DEF Apply, UpdateMissing
    <3> QED
      BY <2>1, <3>1, <3>2 DEF Apply
  <2>5. CASE ~(version[s] = Ownership /\ statement[s] = UpdateOwner)
    <3>1. owner' = owner /\ schema' = schema \cup {<<version[s], statement[s]>>}
      BY <2>1, <2>5 DEF Apply
    <3>2. <<Ownership, UpdateOwner>> \in schema' => <<Ownership, UpdateOwner>> \in schema
      BY <2>5, <3>1
    <3> QED
      BY <3>1, <3>2
  <2> QED
    BY <2>4, <2>5
<1>2. ASSUME NEW g \in Games, OldCreateGame(g) PROVE OwnerInv'
  BY <1>2 DEF OldCreateGame, MigrationTypeOK
<1>3. ASSUME NEW s \in Servers, NEW g \in Games, NEW u \in Users, create_game(s, g, u)
      PROVE OwnerInv'
  BY <1>3 DEF create_game, MigrationTypeOK
<1>4. ASSUME NEW s \in Servers,
             Start(s) \/ applied_migrations(s) \/ Skip(s) \/ record_migration(s) \/ Serve(s) \/ Stop(s)
      PROVE OwnerInv'
  BY <1>4 DEF Start, applied_migrations, Skip, record_migration, Serve, Stop
<1>5. CASE UNCHANGED migrationVars
  BY <1>5 DEF migrationVars
<1> QED
  BY <1>1, <1>2, <1>3, <1>4, <1>5 DEF MigrationNext, Migrate

\* The inductive invariant holds in every state.
LEMMA MigrationInvariance == MigrationSpec => []MigrationInv
<1>1. MigrationInv /\ [MigrationNext]_migrationVars => MigrationInv'
  BY StepTypeOK, StepRecorded, StepLoop, StepOwner DEF MigrationInv
<1> QED
  BY InitMigrationInv, <1>1, PTL DEF MigrationSpec

-----------------------------------------------------------------------------

\* The types of the variables, for every instance.
THEOREM MigrationTypesHold == MigrationSpec => []MigrationTypeOK
<1>1. MigrationInv => MigrationTypeOK
  BY DEF MigrationInv
<1> QED
  BY MigrationInvariance, <1>1, PTL

\* Whatever stops in the middle of a migration, only complete ones are recorded.
THEOREM OnlyAppliedIsRecorded == MigrationSpec => []RecordedIsApplied
<1>1. MigrationInv => RecordedIsApplied
  BY DEF MigrationInv
<1> QED
  BY MigrationInvariance, <1>1, PTL

\* Every server that serves has the whole schema below it.
THEOREM ServersHaveSchema == MigrationSpec => []ServingHasSchema
<1>1. MigrationInv => ServingHasSchema
  <2> SUFFICES ASSUME MigrationInv, NEW s \in Servers, state[s] = "serving", NEW v \in 1..Last
               PROVE Complete(v) /\ v \in recorded
    BY DEF ServingHasSchema
  <2>1. v \in 1..(version[s] - 1)
    BY MigrationsAssumption DEF MigrationInv, LoopInv
  <2>2. v \in recorded
    BY <2>1 DEF MigrationInv, LoopInv, InLoop
  <2> QED
    BY <2>2 DEF MigrationInv, RecordedIsApplied
<1> QED
  BY MigrationInvariance, <1>1, PTL

\* After the migration to owners every game has one.
THEOREM GamesHaveOwners == MigrationSpec => []EveryGameHasOwner
<1>1. MigrationInv => EveryGameHasOwner
  <2> SUFFICES ASSUME MigrationInv, Ownership \in recorded, NEW g \in Games PROVE owner[g] # "none"
    BY DEF EveryGameHasOwner
  <2>1. <<Ownership, UpdateOwner>> \in schema
    BY MigrationsAssumption DEF MigrationInv, RecordedIsApplied, Complete
  <2> QED
    BY <2>1 DEF MigrationInv, OwnerInv
<1> QED
  BY MigrationInvariance, <1>1, PTL

\* No step of any server takes a game from its owner.
THEOREM OwnersKept == MigrationSpec => OwnersAreKept
<1>1. MigrationTypeOK /\ [MigrationNext]_migrationVars => [\A g \in Games : owner[g] \in Users => owner'[g] = owner[g]]_owner
  <2> SUFFICES ASSUME MigrationTypeOK, [MigrationNext]_migrationVars, NEW g \in Games, owner[g] \in Users
               PROVE owner'[g] = owner[g]
    OBVIOUS
  <2>1. ASSUME NEW s \in Servers, Apply(s) PROVE owner'[g] = owner[g]
    BY <2>1, MigrationsAssumption DEF Apply, UpdateMissing
  <2>2. ASSUME NEW h \in Games, OldCreateGame(h) PROVE owner'[g] = owner[g]
    BY <2>2, MigrationsAssumption DEF OldCreateGame, MigrationTypeOK
  <2>3. ASSUME NEW s \in Servers, NEW h \in Games, NEW u \in Users, create_game(s, h, u)
        PROVE owner'[g] = owner[g]
    BY <2>3, MigrationsAssumption DEF create_game, MigrationTypeOK
  <2> QED
    BY <2>1, <2>2, <2>3
    DEF MigrationNext, migrationVars, Migrate, Start, applied_migrations, Skip, record_migration, Serve, Stop
<1>2. MigrationSpec => []MigrationTypeOK
  BY MigrationTypesHold
<1> QED
  BY <1>1, <1>2, PTL DEF MigrationSpec, OwnersAreKept
=============================================================================
