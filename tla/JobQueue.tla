------------------------------ MODULE JobQueue ------------------------------
(***************************************************************************)
(* The background job queue: table background_job of the SurrealDB store   *)
(* (server/src/db/surreal/mod.rs), the job runner that claims, executes    *)
(* and settles jobs (server/src/jobs/runner.rs), and the admin requests    *)
(* that retry or purge failed jobs.                                        *)
(*                                                                         *)
(* Every store operation of the code that reads a row and later writes it  *)
(* back is two actions here, so that other processes may act in between,   *)
(* and a time the code takes before a call is taken in a step before it.   *)
(* A fault is a store call that returns an error, with or without its      *)
(* effect, or the end of a runner (a crash, or job_worker.abort()).  What  *)
(* a job does while it executes is left to its own module: it succeeds or  *)
(* it fails.                                                               *)
(***************************************************************************)
EXTENDS Integers

CONSTANTS
  Runners,            \* job runners sharing the store: one per server process
  Admins,             \* admin requests that may be in flight together
  MaxJobs,            \* bound: jobs ever enqueued
  MaxAttempts,        \* max_attempts of an enqueued job (3 in jobs/payload.rs)
  AdminMaxAttempts,   \* max_attempts an admin request may carry, 0 for none
  BatchLimit,         \* jobs a runner processes before it sleeps
  Horizon,            \* bound: the clock runs on its own up to this second
  MaxClock,           \* bound: the clock never runs beyond this second
  MaxFaults,          \* bound: faults
  MaxAdminRequests    \* bound: admin requests that find a failed job

ASSUME JobQueueAssumption ==
  /\ MaxJobs \in Nat
  /\ MaxAttempts \in Int
  /\ AdminMaxAttempts \subseteq Nat
  /\ BatchLimit \in Nat
  /\ Horizon \in Nat
  /\ MaxClock \in Nat
  /\ MaxFaults \in Nat
  /\ MaxAdminRequests \in Nat

VARIABLES
  rows,               \* table background_job
  stamp,              \* the time enqueue_job has taken for a row it has yet to write
  nextId,             \* ids are given in order of created_at
  now,                \* the clock, in seconds
  pc,                 \* where each runner is
  task,               \* the job each runner works on and what it will write
  snap,               \* the row update_job_state has read and will write back
  batch,              \* jobs each runner has processed since it last slept
  request,            \* the admin request of each admin
  faults,             \* faults so far
  adminRequests,      \* admin requests so far that found a failed job
  overtaken           \* history, in no guard: pending jobs that a claim has passed over
                      \* although they were scheduled before the claimed one

queue   == <<rows, stamp, nextId, overtaken>>
runner  == <<pc, task, snap, batch>>
bounds  == <<faults, adminRequests>>
vars    == <<rows, stamp, nextId, now, pc, task, snap, batch, request, faults, adminRequests,
             overtaken>>

Job == 1..MaxJobs

Status == {"pending", "running", "succeeded", "failed"}

Row == [status : Status \cup {"absent"}, attempts : Nat, maxAttempts : Nat, runAfter : Nat]

\* No such record in the table.
AbsentRow == [status |-> "absent", attempts |-> 0, maxAttempts |-> 0, runAfter |-> 0]

Exists(j) == rows[j].status # "absent"

\* No call of enqueue_job is between its time and its write.
Never == -1

\* "select" asks for a job due at runAfter; "claim", "complete", "retry" and
\* "fail" are the calls of update_job_state; "run" is the execution of a
\* claimed job between two of them.
Task == [op : {"none", "select", "claim", "run", "complete", "retry", "fail"},
         job : Job \cup {0}, attempts : Nat, maxAttempts : Nat, runAfter : Nat]

NoTask == [op |-> "none", job |-> 0, attempts |-> 0, maxAttempts |-> 0, runAfter |-> 0]

\* "update" is a retry whose row is ready to be written: snap is that row.
Request == [op : {"none", "retry", "purge", "update"}, job : Job \cup {0}, snap : Row]

NoRequest == [op |-> "none", job |-> 0, snap |-> AbsentRow]

Init ==
  /\ rows = [j \in Job |-> AbsentRow]
  /\ stamp = [j \in Job |-> Never]
  /\ nextId = 1
  /\ now = 0
  /\ pc = [r \in Runners |-> "poll"]
  /\ task = [r \in Runners |-> NoTask]
  /\ snap = [r \in Runners |-> AbsentRow]
  /\ batch = [r \in Runners |-> 0]
  /\ request = [a \in Admins |-> NoRequest]
  /\ faults = 0
  /\ adminRequests = 0
  /\ overtaken = {}

-----------------------------------------------------------------------------
(* The clock and the producers of jobs.                                    *)

\* Time passes freely up to the horizon, and after it only while some job
\* waits for its run_after: no other guard of the code looks at the clock.
Tick ==
  /\ now < MaxClock
  /\ now < Horizon \/ \E j \in Job : rows[j].status = "pending" /\ rows[j].runAfter > now
  /\ now' = now + 1
  /\ UNCHANGED <<queue, runner, request, bounds>>

NormalizeMaxAttempts(m) == IF m < 1 THEN 1 ELSE IF m > 10 THEN 10 ELSE m

\* enqueue_job takes the time, which is run_after and created_at, and the id;
EnqueueJob ==
  /\ nextId <= MaxJobs
  /\ stamp' = [stamp EXCEPT ![nextId] = now]
  /\ nextId' = nextId + 1
  /\ UNCHANGED <<rows, now, runner, request, bounds, overtaken>>

\* later its row is in the table, or never when the call fails or is dropped.
StoreJob(j) ==
  /\ stamp[j] # Never
  /\ rows' = [rows EXCEPT ![j] =
                [status |-> "pending", attempts |-> 0,
                 maxAttempts |-> NormalizeMaxAttempts(MaxAttempts), runAfter |-> stamp[j]]]
  /\ stamp' = [stamp EXCEPT ![j] = Never]
  /\ UNCHANGED <<nextId, now, runner, request, bounds, overtaken>>

-----------------------------------------------------------------------------
(* The runner: spawn's loop around process_all_pending_jobs.               *)

\* The batch is over, with an error or with nothing left to do: sleep(interval).
EndBatch(r) ==
  /\ pc' = [pc EXCEPT ![r] = "sleep"]
  /\ task' = [task EXCEPT ![r] = NoTask]
  /\ snap' = [snap EXCEPT ![r] = AbsentRow]
  /\ batch' = [batch EXCEPT ![r] = 0]

\* process_next_job returned a job: the while loop goes on below the limit.
JobProcessed(r) ==
  /\ pc' = [pc EXCEPT ![r] = IF batch[r] + 1 < BatchLimit THEN "poll" ELSE "sleep"]
  /\ task' = [task EXCEPT ![r] = NoTask]
  /\ snap' = [snap EXCEPT ![r] = AbsentRow]
  /\ batch' = [batch EXCEPT ![r] = IF batch[r] + 1 < BatchLimit THEN @ + 1 ELSE 0]

Wake(r) ==
  /\ pc[r] = "sleep"
  /\ pc' = [pc EXCEPT ![r] = "poll"]
  /\ UNCHANGED <<queue, now, task, snap, batch, request, bounds>>

\* Mutant of Due: backoff is not waited for.
DueAtOnce(time) == {j \in Job : rows[j].status = "pending"}

Due(time) == {j \in Job : rows[j].status = "pending" /\ rows[j].runAfter <= time}

\* Mutant of Precedes: ORDER BY created_at ASC
PrecedesByCreation(i, j) == i <= j

\* ORDER BY run_after ASC, created_at ASC
Precedes(i, j) ==
  \/ rows[i].runAfter < rows[j].runAfter
  \/ rows[i].runAfter = rows[j].runAfter /\ i <= j

\* claim_next_job takes the time it binds to its SELECT.
TakeTime(r) ==
  /\ pc[r] = "poll"
  /\ task' = [task EXCEPT ![r] = [NoTask EXCEPT !.op = "select", !.runAfter = now]]
  /\ pc' = [pc EXCEPT ![r] = "select"]
  /\ UNCHANGED <<queue, now, snap, batch, request, bounds>>

\* The SELECT of claim_next_job; what it asks of update_job_state is fixed here.
SelectJob(r) ==
  /\ pc[r] = "select"
  /\ \E j \in Due(task[r].runAfter) :
       /\ \A i \in Due(task[r].runAfter) : Precedes(j, i)
       /\ task' = [task EXCEPT ![r] = [op |-> "claim", job |-> j,
                                       attempts |-> rows[j].attempts + 1,
                                       maxAttempts |-> rows[j].maxAttempts, runAfter |-> 0]]
  /\ pc' = [pc EXCEPT ![r] = "read"]
  /\ UNCHANGED <<queue, now, snap, batch, request, bounds>>

SelectNone(r) ==
  /\ pc[r] = "select"
  /\ Due(task[r].runAfter) = {}
  /\ EndBatch(r)
  /\ UNCHANGED <<queue, now, request, bounds>>

\* update_job_state, first half: select the row, or fail with NotFound.
ReadRow(r) ==
  /\ pc[r] = "read"
  /\ IF Exists(task[r].job)
     THEN /\ snap' = [snap EXCEPT ![r] = rows[task[r].job]]
          /\ pc' = [pc EXCEPT ![r] = "write"]
          /\ UNCHANGED <<task, batch>>
     ELSE EndBatch(r)
  /\ UNCHANGED <<queue, now, request, bounds>>

\* Mutant of StatusWritten: the call's name instead of the status.
StatusIsCall(op) == op

StatusWritten(op) ==
  CASE op = "claim"    -> "running"
    [] op = "complete" -> "succeeded"
    [] op = "retry"    -> "pending"
    [] op = "fail"     -> "failed"

\* The row as it was read, with the fields the call carries replaced.
RowWritten(r) ==
  [snap[r] EXCEPT !.status = StatusWritten(task[r].op),
                  !.attempts = IF task[r].op = "claim" THEN task[r].attempts ELSE @,
                  !.runAfter = IF task[r].op = "retry" THEN task[r].runAfter ELSE @]

\* Mutant of UpdateRow: an upsert.
UpsertRow(j, row) == rows' = [rows EXCEPT ![j] = row]

\* UPDATE ... CONTENT replaces an existing record and creates none.
UpdateRow(j, row) == rows' = [rows EXCEPT ![j] = IF Exists(j) THEN row ELSE @]

\* The history of a write: a claim passes over every pending job scheduled
\* before the claimed one, which is itself passed over no longer.
PassOver(r) ==
  overtaken' =
    IF task[r].op = "claim"
    THEN (overtaken \ {task[r].job}) \cup
         {i \in Job : rows[i].status = "pending" /\ rows[i].runAfter < rows[task[r].job].runAfter}
    ELSE overtaken

\* update_job_state, second half, and what its caller does with the answer:
\* no row is an error; a claimed job is executed; a completed or rescheduled
\* job lets the batch go on; a permanently failed one returns its error.
WriteRow(r) ==
  /\ pc[r] = "write"
  /\ UpdateRow(task[r].job, RowWritten(r))
  /\ PassOver(r)
  /\ IF Exists(task[r].job) /\ task[r].op = "claim"
     THEN /\ task' = [task EXCEPT ![r] = [op |-> "run", job |-> task[r].job,
                                          attempts |-> RowWritten(r).attempts,
                                          maxAttempts |-> RowWritten(r).maxAttempts,
                                          runAfter |-> 0]]
          /\ pc' = [pc EXCEPT ![r] = "process"]
          /\ snap' = [snap EXCEPT ![r] = AbsentRow]
          /\ UNCHANGED batch
     ELSE IF Exists(task[r].job) /\ task[r].op \in {"complete", "retry"}
          THEN JobProcessed(r)
          ELSE EndBatch(r)
  /\ UNCHANGED <<stamp, nextId, now, request, bounds>>

\* 2^attempts seconds with the exponent clamped to 0..8, and at most 300.
RetryDelay(n) ==
  LET powers == <<1, 2, 4, 8, 16, 32, 64, 128, 256>>
  IN  powers[IF n < 0 THEN 1 ELSE IF n > 8 THEN 9 ELSE n + 1]

\* process_claimed_job returns Ok
ProcessOk(r) ==
  /\ pc[r] = "process"
  /\ task' = [task EXCEPT ![r].op = "complete"]
  /\ pc' = [pc EXCEPT ![r] = "read"]
  /\ UNCHANGED <<queue, now, snap, batch, request, bounds>>

\* Mutants of ShouldRetry: one execution too many; no limit at all.
ShouldRetryInclusive(t) == t.attempts <= t.maxAttempts

ShouldRetryAlways(t) == TRUE

ShouldRetry(t) == t.attempts < t.maxAttempts

\* Mutant of ProcessErr: a job out of attempts returns its error before fail_job.
ProcessErrUnrecorded(r) ==
  /\ pc[r] = "process"
  /\ IF ShouldRetry(task[r])
     THEN /\ task' = [task EXCEPT ![r].op = "retry",
                                  ![r].runAfter = now + RetryDelay(task[r].attempts)]
          /\ pc' = [pc EXCEPT ![r] = "read"]
          /\ UNCHANGED <<snap, batch>>
     ELSE EndBatch(r)
  /\ UNCHANGED <<queue, now, request, bounds>>

\* process_claimed_job returns Err: handle_failed_job decides from its own
\* copy of the job, and takes the time now.
ProcessErr(r) ==
  /\ pc[r] = "process"
  /\ task' = [task EXCEPT ![r] =
                IF ShouldRetry(task[r])
                THEN [task[r] EXCEPT !.op = "retry", !.runAfter = now + RetryDelay(task[r].attempts)]
                ELSE [task[r] EXCEPT !.op = "fail"]]
  /\ pc' = [pc EXCEPT ![r] = "read"]
  /\ UNCHANGED <<queue, now, snap, batch, request, bounds>>

-----------------------------------------------------------------------------
(* Faults.                                                                 *)

Fault == faults < MaxFaults /\ faults' = faults + 1

\* A store call of the runner returns an error and had no effect.
StoreError(r) ==
  /\ pc[r] \in {"select", "read", "write"}
  /\ Fault
  /\ EndBatch(r)
  /\ UNCHANGED <<queue, now, request, adminRequests>>

\* The update took effect and its answer was lost.
AnswerLost(r) ==
  /\ pc[r] = "write"
  /\ Fault
  /\ UpdateRow(task[r].job, RowWritten(r))
  /\ PassOver(r)
  /\ EndBatch(r)
  /\ UNCHANGED <<stamp, nextId, now, request, adminRequests>>

\* The process ends, or serve aborts the worker: all it held is gone.
Crash(r) ==
  /\ pc[r] # "down"
  /\ Fault
  /\ pc' = [pc EXCEPT ![r] = "down"]
  /\ task' = [task EXCEPT ![r] = NoTask]
  /\ snap' = [snap EXCEPT ![r] = AbsentRow]
  /\ batch' = [batch EXCEPT ![r] = 0]
  /\ UNCHANGED <<queue, now, request, adminRequests>>

\* serve spawns a new worker: its loop begins with a batch.
Restart(r) ==
  /\ pc[r] = "down"
  /\ pc' = [pc EXCEPT ![r] = "poll"]
  /\ UNCHANGED <<queue, now, task, snap, batch, request, bounds>>

-----------------------------------------------------------------------------
(* Admin requests.  One that finds no failed job is refused and changes    *)
(* nothing, so only the others are steps.                                  *)

\* Mutant of AdminRead: the status is not checked.
AdminReadUnchecked(a) ==
  /\ request[a].op = "none"
  /\ adminRequests < MaxAdminRequests
  /\ adminRequests' = adminRequests + 1
  /\ \E j \in Job, op \in {"retry", "purge"} :
       /\ Exists(j)
       /\ request' = [request EXCEPT ![a] = [op |-> op, job |-> j, snap |-> rows[j]]]
  /\ UNCHANGED <<queue, now, runner, faults>>

\* The select of retry_failed_job or purge_failed_job, and its status check.
AdminRead(a) ==
  /\ request[a].op = "none"
  /\ adminRequests < MaxAdminRequests
  /\ adminRequests' = adminRequests + 1
  /\ \E j \in Job, op \in {"retry", "purge"} :
       /\ rows[j].status = "failed"
       /\ request' = [request EXCEPT ![a] = [op |-> op, job |-> j, snap |-> rows[j]]]
  /\ UNCHANGED <<queue, now, runner, faults>>

\* Mutant of Reopened: attempts are not reset.
ReopenedUsedUp(row, m) ==
  [row EXCEPT !.status = "pending", !.runAfter = now,
              !.maxAttempts = IF m > 0 THEN NormalizeMaxAttempts(m) ELSE @]

\* A request without a positive max_attempts keeps the row's.
Reopened(row, m) ==
  [row EXCEPT !.status = "pending", !.attempts = 0, !.runAfter = now,
              !.maxAttempts = IF m > 0 THEN NormalizeMaxAttempts(m) ELSE @]

\* retry_failed_job has its answer: it takes the time and builds the row,
AdminReopen(a) ==
  /\ request[a].op = "retry"
  /\ \E m \in AdminMaxAttempts :
       request' = [request EXCEPT ![a].op = "update", ![a].snap = Reopened(@, m)]
  /\ UNCHANGED <<queue, now, runner, bounds>>

\* which its update writes later.
AdminRetry(a) ==
  /\ request[a].op = "update"
  /\ UpdateRow(request[a].job, request[a].snap)
  /\ request' = [request EXCEPT ![a] = NoRequest]
  /\ UNCHANGED <<stamp, nextId, now, runner, bounds, overtaken>>

AdminPurge(a) ==
  /\ request[a].op = "purge"
  /\ rows' = [rows EXCEPT ![request[a].job] = AbsentRow]
  /\ request' = [request EXCEPT ![a] = NoRequest]
  /\ UNCHANGED <<stamp, nextId, now, runner, bounds, overtaken>>

\* The request fails, or its client leaves, between the select and the write.
AdminAbandon(a) ==
  /\ request[a].op # "none"
  /\ request' = [request EXCEPT ![a] = NoRequest]
  /\ UNCHANGED <<queue, now, runner, bounds>>

-----------------------------------------------------------------------------
RunnerStep(r) ==
  \/ Wake(r) \/ TakeTime(r) \/ SelectJob(r) \/ SelectNone(r) \/ ReadRow(r) \/ WriteRow(r)
  \/ ProcessOk(r) \/ ProcessErr(r)

FaultStep(r) == StoreError(r) \/ AnswerLost(r) \/ Crash(r)

AdminStep(a) ==
  AdminRead(a) \/ AdminReopen(a) \/ AdminRetry(a) \/ AdminPurge(a) \/ AdminAbandon(a)

Next ==
  \/ Tick
  \/ EnqueueJob
  \/ \E j \in Job : StoreJob(j)
  \/ \E r \in Runners : RunnerStep(r) \/ FaultStep(r) \/ Restart(r)
  \/ \E a \in Admins : AdminStep(a)

Spec == Init /\ [][Next]_vars

\* Store calls and LLM requests return (they time out at the latest), timers
\* fire and a stopped server is started again.  Nothing makes an admin act,
\* a turn end or a job's execution come out one way.
Fairness ==
  /\ WF_vars(Tick)
  /\ \A r \in Runners : WF_vars(RunnerStep(r)) /\ WF_vars(Restart(r))

FairSpec == Spec /\ Fairness
-----------------------------------------------------------------------------
(* Correctness.                                                            *)

TypeOK ==
  /\ rows \in [Job -> Row]
  /\ stamp \in [Job -> Nat \cup {Never}]
  /\ nextId \in 1..(MaxJobs + 1)
  /\ now \in Nat
  /\ pc \in [Runners -> {"sleep", "poll", "select", "read", "write", "process", "down"}]
  /\ task \in [Runners -> Task]
  /\ snap \in [Runners -> Row]
  /\ batch \in [Runners -> Nat]
  /\ request \in [Admins -> Request]
  /\ faults \in Nat
  /\ adminRequests \in Nat
  /\ overtaken \subseteq Job

Holds(r, j) ==
  /\ task[r].job = j
  /\ task[r].op \in {"run", "complete", "retry", "fail"}

\* Whatever the number of runners and admins and however their reads and
\* writes interleave, a row says Running only while some runner holds the
\* job, unless a fault has happened: without one no job is stranded.
RunningHasOwner ==
  faults = 0 => \A j \in Job : rows[j].status = "running" => \E r \in Runners : Holds(r, j)

\* A deleted or not yet created row never comes to be through the write of a
\* process that read it earlier: only a call of enqueue_job creates a row, and
\* only the one of its id.
DeletedStaysDeleted ==
  [][\A j \in Job : ~Exists(j) /\ Exists(j)' => stamp[j] # Never]_vars

\* With one runner and one admin request at a time: while the runner holds a
\* job, the table agrees with the runner's copy of it, so that the decision
\* to retry or to fail, taken from the copy, is right for the row.
OwnerSeesTruth ==
  \A r \in Runners, j \in Job :
    Holds(r, j) => /\ rows[j].status = "running"
                   /\ rows[j].attempts = task[r].attempts
                   /\ rows[j].maxAttempts = task[r].maxAttempts

\* With one runner and one admin request at a time: a runnable job has
\* attempts left, a job never starts more executions than it was granted,
\* and it is given up only when all of them were used.
AttemptAccounting ==
  \A j \in Job :
    /\ rows[j].status = "pending" => rows[j].attempts < rows[j].maxAttempts
    /\ rows[j].status \in {"running", "succeeded"} => rows[j].attempts \in 1..rows[j].maxAttempts
    /\ rows[j].status = "failed" => rows[j].attempts = rows[j].maxAttempts

\* With one runner and one admin request at a time: the write that makes a
\* job Running, made after the select that chose it, still finds it pending
\* and past its backoff; and it passes over no job scheduled before it that a
\* claim has passed over already.  That a claim may pass over a job once is
\* how the code is: a row whose time was taken earlier can come to the table
\* between the select and the write of a claim.
ClaimsInScheduleOrder ==
  [][\A j \in Job :
       rows[j].status # "running" /\ rows'[j].status = "running" =>
         /\ rows[j].status = "pending"
         /\ rows[j].runAfter <= now
         /\ \A i \in overtaken : rows[j].runAfter <= rows[i].runAfter]_vars

\* The refinement mapping to JobLifecycle, which forgets the clock and tells
\* a deleted row from one not yet created.
JobPhase ==
  [j \in Job |-> IF ~Exists(j) /\ j < nextId /\ stamp[j] = Never THEN "purged"
                 ELSE rows[j].status]

JobAttempts == [j \in Job |-> rows[j].attempts]

JobGranted == [j \in Job |-> rows[j].maxAttempts]

Lifecycle ==
  INSTANCE JobLifecycle WITH phase <- JobPhase, attempts <- JobAttempts, granted <- JobGranted

\* The store with its split operations implements the atomic job lifecycle
\* when there is one runner and one admin request at a time.
ImplementsLifecycle == Lifecycle!Spec

(***************************************************************************)
(* The inductive invariants behind these properties: where a runner is     *)
(* decides what it is doing, for any number of runners and admins ...      *)
(***************************************************************************)
ControlOK ==
  /\ \A r \in Runners :
       /\ pc[r] \in {"read", "write"} => task[r].op \in {"claim", "complete", "retry", "fail"}
       /\ pc[r] = "process" => task[r].op = "run"
       /\ pc[r] = "select" => task[r].op = "select" /\ task[r].runAfter <= now
       /\ pc[r] \in {"sleep", "poll", "down"} => task[r].op = "none"
       /\ task[r].op \notin {"none", "select"} => task[r].job \in Job
  /\ \A a \in Admins :
       /\ request[a].op # "none" => request[a].job \in Job
       /\ request[a].op = "update" => request[a].snap.status = "pending"

(* ... and, with one runner and one admin request at a time, whatever was  *)
(* read is still so when it is used.                                       *)
ClaimStillGood ==
  \A r \in Runners :
    task[r].op = "claim" =>
      LET j == task[r].job
      IN  /\ rows[j].status = "pending"
          /\ rows[j].attempts + 1 = task[r].attempts
          /\ rows[j].runAfter <= now
          /\ \A i \in overtaken : rows[j].runAfter <= rows[i].runAfter

OvertakenWait == \A i \in overtaken : rows[i].status = "pending"

SnapshotsCurrent ==
  /\ \A r \in Runners : pc[r] = "write" => snap[r] = rows[task[r].job]
  /\ \A a \in Admins :
       /\ request[a].op # "none" => rows[request[a].job].status = "failed"
       /\ request[a].op \in {"retry", "purge"} => request[a].snap = rows[request[a].job]
       /\ request[a].op = "update" => /\ request[a].snap.attempts = 0
                                      /\ request[a].snap.maxAttempts \in 1..10

DecisionSound ==
  \A r \in Runners :
    /\ task[r].op = "retry" => ShouldRetry(task[r])
    /\ task[r].op = "fail" => ~ShouldRetry(task[r])

RowsSane ==
  \A j \in Job :
    /\ j >= nextId => ~Exists(j)
    /\ stamp[j] # Never => ~Exists(j) /\ j < nextId
    /\ Exists(j) => rows[j].maxAttempts \in 1..10
    /\ ~Exists(j) => rows[j] = AbsentRow

SerialInv ==
  /\ OwnerSeesTruth
  /\ AttemptAccounting
  /\ ClaimStillGood
  /\ OvertakenWait
  /\ SnapshotsCurrent
  /\ DecisionSound
  /\ RowsSane

Settled(j) == rows[j].status \in {"succeeded", "failed", "absent"}

Orphaned(j) == rows[j].status = "running" /\ \A r \in Runners : ~Holds(r, j)

\* README.md line 12 calls the jobs durable: a job that is in the table is
\* executed until it has succeeded or used up its attempts.
DurableJobs == \A j \in Job : Exists(j) ~> Settled(j)

\* What is left of that when faults happen: a job is settled in the end, or
\* a fault has stranded it as Running with no runner that works on it.
SettledOrOrphaned == \A j \in Job : Exists(j) ~> Settled(j) \/ Orphaned(j)
=============================================================================
