-------------------------------- MODULE Metrics --------------------------------
(***************************************************************************)
(* Counters of the server (server/src/observability.rs) and those who      *)
(* count: handlers (api/grpc/mod.rs observe_request), the tasks of streams *)
(* and the job runner (jobs/runner.rs), while the metrics service reads.   *)
(* Counters are atomic and relaxed: an increment is never lost, but a load *)
(* may return any value since what happened before the scrape began.       *)
(***************************************************************************)
EXTENDS Naturals, Sequences, FiniteSets, SequencesExt

CONSTANTS
    Requests, Jobs,     \* each counted once
    Bounds,             \* GRPC_LATENCY_BUCKET_MS, increasing
    Elapsed,            \* durations of a request in milliseconds
    MaxDeltas,          \* bound: deltas counted
    MaxScrapes          \* bound: snapshots taken

ASSUME MetricsAssumption ==
    /\ IsFiniteSet(Requests) /\ IsFiniteSet(Jobs)
    /\ Bounds \in Seq(Nat) /\ \A i, k \in 1..Len(Bounds) : i < k => Bounds[i] < Bounds[k]
    /\ Elapsed \subseteq Nat /\ MaxDeltas \in Nat /\ MaxScrapes \in Nat

Names == <<"grpc_requests", "grpc_failures", "streamed_messages", "jobs_processed",
           "jobs_succeeded", "jobs_retried", "jobs_failed", "health_checks",
           "grpc_latency_count", "grpc_latency_sum_ms">>
Name  == Range(Names)
Index == 1..Len(Bounds) + 1     \* of the buckets; the last has no bound

VARIABLES
    counter,    \* the counters
    bucket,     \* grpc_latency_buckets
    request,    \* of each request: "new", "open", "count", "sum", "bucket", "closed"
    elapsed,    \* how long each took
    task,       \* the stream of a request: "none", "open", "closed" (or never to be opened)
    job,        \* of each job: "pending", "claimed", "settled", or "lost" when the call that
                \* settles it fails
    scrape,     \* the snapshot being taken: what is loaded so far
    floor,      \* what happened before it began: the counters then
    last,       \* the last snapshot that was answered
    quiet,      \* history: nobody has counted since the scrape began
    scrapes     \* snapshots so far

people == <<request, elapsed, task, job>>
reader == <<scrape, floor, last, scrapes>>
vars   == <<counter, bucket, people, reader, quiet>>

Zero == [names |-> [n \in Name |-> 0], buckets |-> [i \in Index |-> 0]]
NotScraping == <<>>

Init ==
    /\ counter = Zero.names /\ bucket = Zero.buckets
    /\ request = [r \in Requests |-> "new"] /\ elapsed = [r \in Requests |-> 0]
    /\ task = [r \in Requests |-> "none"] /\ job = [j \in Jobs |-> "pending"]
    /\ scrape = NotScraping /\ floor = Zero /\ last = Zero /\ quiet = TRUE /\ scrapes = 0

Add(n, k) == counter' = [counter EXCEPT ![n] = @ + k]
Counts(n) == Add(n, 1) /\ quiet' = FALSE

-----------------------------------------------------------------------------
(* Requests.                                                               *)

\* record_grpc_request, and the guard that lives as long as the handler.
observe_request(r) ==
    /\ request[r] = "new" /\ request' = [request EXCEPT ![r] = "open"]
    /\ Counts("grpc_requests")
    /\ UNCHANGED <<bucket, elapsed, task, job, reader>>

\* The handler of a health check counts once more, and opens no stream.
record_health_check(r) ==
    /\ request[r] = "open" /\ task[r] = "none" /\ task' = [task EXCEPT ![r] = "closed"]
    /\ Counts("health_checks")
    /\ UNCHANGED <<bucket, request, elapsed, job, reader>>

\* send_message and export_game_stream answer at once and go on in a task.
SpawnStream(r) ==
    /\ request[r] = "open" /\ task[r] = "none" /\ task' = [task EXCEPT ![r] = "open"]
    /\ UNCHANGED <<counter, bucket, request, elapsed, job, reader, quiet>>

\* Once for each delta that was handed on.
record_streamed_message(r) ==
    /\ task[r] = "open" /\ counter["streamed_messages"] < MaxDeltas
    /\ Counts("streamed_messages")
    /\ UNCHANGED <<bucket, people, reader>>

\* The reply is complete, or its client has left: nothing more is counted.
EndStream(r) ==
    /\ task[r] = "open" /\ task' = [task EXCEPT ![r] = "closed"]
    /\ UNCHANGED <<counter, bucket, request, elapsed, job, reader, quiet>>

\* The task ends with an error, whatever it has streamed before.
record_grpc_failure(r) ==
    /\ task[r] = "open" /\ task' = [task EXCEPT ![r] = "closed"] /\ Counts("grpc_failures")
    /\ UNCHANGED <<bucket, request, elapsed, job, reader>>

\* Mutant: a request whose client has left is not timed.
DropAnswered(r) == \E next \in {"count", "closed"} : request' = [request EXCEPT ![r] = next]
DropAlways(r)   == request' = [request EXCEPT ![r] = "count"]

\* The guard is dropped when the handler returns, fails, or is dropped itself.
Drop(r) ==
    /\ request[r] = "open" /\ DropAlways(r)
    /\ \E ms \in Elapsed : elapsed' = [elapsed EXCEPT ![r] = ms]
    /\ UNCHANGED <<counter, bucket, task, job, reader, quiet>>

\* Mutant: a boundary belongs to the next bucket.
Below(ms) == {i \in 1..Len(Bounds) : ms < Bounds[i]}
Fits(ms)  == {i \in 1..Len(Bounds) : ms <= Bounds[i]}

BucketOf(ms) ==
    IF Fits(ms) = {} THEN Len(Bounds) + 1 ELSE CHOOSE i \in Fits(ms) : \A k \in Fits(ms) : i <= k

\* record_grpc_latency, in its three additions.
LatencyCount(r) ==
    /\ request[r] = "count" /\ request' = [request EXCEPT ![r] = "sum"]
    /\ Counts("grpc_latency_count")
    /\ UNCHANGED <<bucket, elapsed, task, job, reader>>

LatencySum(r) ==
    /\ request[r] = "sum" /\ request' = [request EXCEPT ![r] = "bucket"]
    /\ Add("grpc_latency_sum_ms", elapsed[r]) /\ quiet' = FALSE
    /\ UNCHANGED <<bucket, elapsed, task, job, reader>>

LatencyBucket(r) ==
    /\ request[r] = "bucket" /\ request' = [request EXCEPT ![r] = "closed"]
    /\ bucket' = [bucket EXCEPT ![BucketOf(elapsed[r])] = @ + 1] /\ quiet' = FALSE
    /\ UNCHANGED <<counter, elapsed, task, job, reader>>

-----------------------------------------------------------------------------
(* Jobs.                                                                   *)

record_job_processed(j) ==
    /\ job[j] = "pending" /\ job' = [job EXCEPT ![j] = "claimed"]
    /\ Counts("jobs_processed")
    /\ UNCHANGED <<bucket, request, elapsed, task, reader>>

\* The job has succeeded, is retried or has failed: counted after the call.
record_job_settled(j, n) ==
    /\ job[j] = "claimed" /\ job' = [job EXCEPT ![j] = "settled"]
    /\ Counts(n)
    /\ UNCHANGED <<bucket, request, elapsed, task, reader>>

\* The call fails, and process_next_job ends with its error.
SettleFails(j) ==
    /\ job[j] = "claimed" /\ job' = [job EXCEPT ![j] = "lost"]
    /\ UNCHANGED <<counter, bucket, request, elapsed, task, reader, quiet>>

-----------------------------------------------------------------------------
(* The metrics service.                                                    *)

\* A request is half timed.
HalfTimed == \E r \in Requests : request[r] \in {"sum", "bucket"}

\* Its own request is one of the others: counted before it loads, timed after.
BeginScrape ==
    /\ scrape = NotScraping /\ scrapes < MaxScrapes /\ scrapes' = scrapes + 1
    /\ scrape' = <<0>>
    /\ floor' = [names |-> counter, buckets |-> bucket]
    /\ quiet' = ~HalfTimed
    /\ UNCHANGED <<counter, bucket, people, last>>

\* Mutant: what was loaded is taken from the counter.
Swapped(n) == {counter[n] - last.names[n]}
Loadable(n) == floor.names[n]..counter[n]

\* snapshot: one load after the other; <<0>> marks that none is done.
Load ==
    /\ scrape # NotScraping /\ Len(scrape) <= Len(Names)
    /\ \E v \in Loadable(Names[Len(scrape)]) : scrape' = Append(scrape, v)
    /\ UNCHANGED <<counter, bucket, people, floor, last, quiet, scrapes>>

\* grpc_latency_buckets_snapshot: each bucket is loaded and added to those below.
\* Mutant: each bucket for itself.
Alone(total, v) == v
Cumulated(total, v) == total + v

LoadBucket ==
    /\ Len(scrape) > Len(Names) /\ Len(scrape) <= Len(Names) + Len(Bounds) + 1
    /\ LET i == Len(scrape) - Len(Names)
           total == IF i = 1 THEN 0 ELSE scrape[Len(scrape)]
       IN  \E v \in floor.buckets[i]..bucket[i] : scrape' = Append(scrape, Cumulated(total, v))
    /\ UNCHANGED <<counter, bucket, people, floor, last, quiet, scrapes>>

Whole == Len(scrape) = Len(Names) + Len(Bounds) + 2

Snapshot ==
    [names   |-> [n \in Name |-> scrape[1 + CHOOSE i \in 1..Len(Names) : Names[i] = n]],
     buckets |-> [i \in Index |-> scrape[1 + Len(Names) + i]]]

\* get_metrics, or export_metrics, answers.
EndScrape ==
    /\ Whole /\ last' = Snapshot /\ scrape' = NotScraping
    /\ UNCHANGED <<counter, bucket, people, floor, quiet, scrapes>>

\* Everything is counted and read.
Rest ==
    /\ \A r \in Requests : request[r] = "closed" /\ task[r] # "open"
    /\ \A j \in Jobs : job[j] \in {"settled", "lost"}
    /\ scrape = NotScraping /\ scrapes = MaxScrapes
    /\ UNCHANGED vars

Next ==
    \/ \E r \in Requests :
          \/ observe_request(r) \/ record_health_check(r) \/ Drop(r)
          \/ LatencyCount(r) \/ LatencySum(r) \/ LatencyBucket(r)
          \/ SpawnStream(r) \/ record_streamed_message(r)
          \/ EndStream(r) \/ record_grpc_failure(r)
    \/ \E j \in Jobs :
          \/ record_job_processed(j) \/ SettleFails(j)
          \/ \E n \in {"jobs_succeeded", "jobs_retried", "jobs_failed"} : record_job_settled(j, n)
    \/ BeginScrape \/ Load \/ LoadBucket \/ EndScrape
    \/ Rest

Spec == Init /\ [][Next]_vars

-----------------------------------------------------------------------------
(* Properties.                                                             *)

\* What a snapshot holds.
Counted == [names: [Name -> Nat], buckets: [Index -> Nat]]

TypeOK ==
    /\ counter \in [Name -> Nat] /\ bucket \in [Index -> Nat]
    /\ request \in [Requests -> {"new", "open", "count", "sum", "bucket", "closed"}]
    /\ elapsed \in [Requests -> Elapsed \cup {0}]
    /\ task \in [Requests -> {"none", "open", "closed"}]
    /\ job \in [Jobs -> {"pending", "claimed", "settled", "lost"}]
    /\ scrape \in Seq(Nat) /\ Len(scrape) <= Len(Names) + Len(Bounds) + 2
    /\ floor \in Counted /\ last \in Counted
    /\ quiet \in BOOLEAN /\ scrapes \in 0..MaxScrapes

InRequest(S) == {r \in Requests : request[r] \in S}
InJob(S)     == {j \in Jobs : job[j] \in S}

\* Every request that was counted is timed once its handler is gone, however it
\* ended, and every job that was counted ends in one other counter, unless the
\* store failed to settle it.
CountersAddUp ==
    /\ counter["grpc_requests"] =
          counter["grpc_latency_count"] + Cardinality(InRequest({"open", "count"}))
    /\ counter["jobs_processed"] =
          counter["jobs_succeeded"] + counter["jobs_retried"] + counter["jobs_failed"]
          + Cardinality(InJob({"claimed", "lost"}))

\* What lies between two boundaries, and what lies under one; the last bucket has none above.
Between(ms, i) == (i > 1 => ms > Bounds[i - 1]) /\ (i <= Len(Bounds) => ms <= Bounds[i])
Under(ms, i)   == i <= Len(Bounds) => ms <= Bounds[i]

\* The histogram is that of the requests: each that was timed is in the one
\* bucket between whose boundaries it lies, a boundary belonging to the lower.
HistogramIsRight ==
    \A i \in Index :
        bucket[i] = Cardinality({r \in InRequest({"closed"}) : Between(elapsed[r], i)})

\* What a client scrapes never falls from one snapshot to the next, neither a
\* counter nor a bucket.
ScrapesNeverFall ==
    [][ /\ \A n \in Name : last'.names[n] >= last.names[n]
        /\ \A i \in Index : last'.buckets[i] >= last.buckets[i] ]_last

\* A snapshot taken while nobody counts agrees with itself and with the counters,
\* as tests/backend_integration.rs asks of it, and holds for each boundary as many
\* requests as took no longer; one taken among requests need not.
QuietScrapeAddsUp ==
    Whole /\ quiet =>
        /\ Snapshot.names = counter
        /\ Snapshot.buckets[Len(Bounds) + 1] = Snapshot.names["grpc_latency_count"]
        /\ \A i \in Index : Snapshot.buckets[i] =
              Cardinality({r \in InRequest({"closed"}) : Under(elapsed[r], i)})

\* What is counted and what is read of it while nobody counts.
CountsAreTrue == TypeOK /\ CountersAddUp /\ HistogramIsRight /\ QuietScrapeAddsUp
=============================================================================
