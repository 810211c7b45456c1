----------------------------- MODULE MetricsProofs -----------------------------
(***************************************************************************)
(* Proofs about Metrics, for any requests, jobs, durations and boundaries. *)
(* What is loaded lies between the counter when the scrape began and the   *)
(* counter now; from that follow both that no scrape falls below the one   *)
(* before and that a scrape among nobody is exact.  Buckets are summed as  *)
(* they are loaded, so the invariants relate each sum to the one below.    *)
(***************************************************************************)
EXTENDS Metrics, FiniteSetTheorems, WellFoundedInduction, TLAPS

Base == Len(Names)

\* The sum under bucket i in a snapshot, and in the one being taken.
Below1(s, i)  == IF i = 1 THEN 0 ELSE s[i - 1]
Summed(i)     == IF i = 1 THEN 0 ELSE scrape[Base + i]

Closed        == InRequest({"closed"})
InBucket(i)   == {r \in Closed : Between(elapsed[r], i)}
UpTo(i)       == {r \in Closed : Under(elapsed[r], i)}

\* What was answered has been counted.
LastInv ==
    /\ \A n \in Name : last.names[n] <= counter[n]
    /\ \A i \in Index : last.buckets[i] <= Below1(last.buckets, i) + bucket[i]

\* A scrape that has begun: what it starts from, what it has loaded, what it was before.
ScrapeInv ==
    scrape # NotScraping =>
        /\ \A n \in Name : last.names[n] <= floor.names[n] /\ floor.names[n] <= counter[n]
        /\ \A i \in Index : /\ last.buckets[i] <= Below1(last.buckets, i) + floor.buckets[i]
                            /\ floor.buckets[i] <= bucket[i]
        /\ \A k \in 1..Base : k < Len(scrape) =>
              floor.names[Names[k]] <= scrape[1 + k] /\ scrape[1 + k] <= counter[Names[k]]
        /\ \A i \in Index : Base + i < Len(scrape) =>
              /\ last.buckets[i] <= scrape[1 + Base + i]
              /\ scrape[1 + Base + i] <= Summed(i) + bucket[i]

\* While nobody counts nothing moves, and the sums are those of the requests.
QuietInv ==
    quiet /\ scrape # NotScraping =>
        /\ floor.names = counter /\ floor.buckets = bucket
        /\ ~HalfTimed
        /\ \A i \in Index : Base + i < Len(scrape) => scrape[1 + Base + i] = Cardinality(UpTo(i))

\* Every request that is counted is counted again when it is timed.
TimedInv ==
    counter["grpc_latency_count"] = Cardinality(InRequest({"sum", "bucket", "closed"}))

IInv == /\ TypeOK /\ LastInv /\ ScrapeInv /\ QuietInv /\ TimedInv
        /\ CountersAddUp /\ HistogramIsRight

-----------------------------------------------------------------------------
(* Names, buckets and boundaries.                                          *)

\* A set of numbers has a least one: of the intervals up to its members, one is within all.
LEMMA Least ==
    ASSUME NEW S, S \subseteq Nat, S # {}
    PROVE  \E x \in S : \A y \in S : x <= y
<1> DEFINE T == {1..k : k \in S}
<1>1. IsWellFoundedOn(StrictSubsetOrdering(Nat), FiniteSubsetsOf(Nat))
  BY FS_StrictSubsetOrderingWellFounded
<1>2. T \subseteq FiniteSubsetsOf(Nat) /\ T # {}
  <2>1. \A k \in Nat : IsFiniteSet(1..k)
    BY FS_Interval
  <2>2. \A k \in Nat : 1..k \in FiniteSubsetsOf(Nat)
    BY <2>1 DEF FiniteSubsetsOf
  <2> QED
    BY <2>2
<1>3. PICK x \in T : \A y \in T : ~ (<<y, x>> \in StrictSubsetOrdering(Nat))
  BY <1>1, <1>2, WFMin
<1>4. PICK k \in S : x = 1..k
  OBVIOUS
<1>5. ASSUME NEW j \in S, j < k PROVE FALSE
  <2>1. j \in Nat /\ k \in Nat
    OBVIOUS
  <2>2. 1..j \subseteq 1..k /\ k \in 1..k /\ k \notin 1..j
    BY <1>5, <2>1
  <2>3. <<1..j, 1..k>> \in StrictSubsetOrdering(Nat)
    BY <2>1, <2>2 DEF StrictSubsetOrdering
  <2> QED
    BY <1>3, <1>4, <2>3
<1>6. \A j \in S : j \in Nat /\ k \in Nat
  OBVIOUS
<1> QED
  BY <1>5, <1>6

\* A counter's place among the names is its own.
LEMMA NameFacts ==
    /\ Base = 10 /\ \A k \in 1..Base : Names[k] \in Name
    /\ \A n \in Name : \E k \in 1..Base : Names[k] = n
    /\ \A k, l \in 1..Base : Names[k] = Names[l] => k = l
    /\ "grpc_requests" \in Name /\ "grpc_latency_count" \in Name /\ "jobs_processed" \in Name
    /\ "jobs_succeeded" \in Name /\ "jobs_retried" \in Name /\ "jobs_failed" \in Name
    /\ "grpc_failures" \in Name /\ "streamed_messages" \in Name /\ "health_checks" \in Name
    /\ "grpc_latency_sum_ms" \in Name
<1>1. Base = 10 /\ DOMAIN Names = 1..10
  BY DEF Base, Names
<1>2. Name = {Names[k] : k \in 1..10}
  BY <1>1 DEF Name, Range
<1>3. \A k, l \in 1..10 : Names[k] = Names[l] => k = l
  BY DEF Names
<1>4. /\ Names[1] = "grpc_requests" /\ Names[2] = "grpc_failures" /\ Names[3] = "streamed_messages"
      /\ Names[4] = "jobs_processed" /\ Names[5] = "jobs_succeeded" /\ Names[6] = "jobs_retried"
      /\ Names[7] = "jobs_failed" /\ Names[8] = "health_checks"
      /\ Names[9] = "grpc_latency_count" /\ Names[10] = "grpc_latency_sum_ms"
  BY DEF Names
<1>5. \A k \in 1..10 : Names[k] \in Name
  BY <1>2
<1> QED
  BY <1>1, <1>2, <1>3, <1>4, <1>5

\* The names of the counters, one by one.
LEMMA EachName ==
    /\ "grpc_requests" \in Name /\ "grpc_failures" \in Name /\ "streamed_messages" \in Name
    /\ "jobs_processed" \in Name /\ "jobs_succeeded" \in Name /\ "jobs_retried" \in Name
    /\ "jobs_failed" \in Name /\ "health_checks" \in Name /\ "grpc_latency_count" \in Name
    /\ "grpc_latency_sum_ms" \in Name
  BY NameFacts

\* There is a bucket more than there are boundaries.
LEMMA IndexFacts ==
    /\ Len(Bounds) \in Nat /\ Index = 1..(Len(Bounds) + 1) /\ DOMAIN Bounds = 1..Len(Bounds)
    /\ \A i \in 1..Len(Bounds) : Bounds[i] \in Nat /\ i \in Index
    /\ \A i \in Index : i \in Nat /\ i >= 1 /\ (i # 1 => i - 1 \in Index /\ i - 1 \in 1..Len(Bounds))
  BY MetricsAssumption DEF Index

\* A duration is between the boundaries of one bucket, the one it is counted in, and it is
\* under a boundary just when it is under the one below or between the two.
LEMMA BucketFacts ==
    ASSUME NEW ms \in Nat
    PROVE  /\ BucketOf(ms) \in Index
           /\ \A i \in Index : Between(ms, i) <=> i = BucketOf(ms)
           /\ \A i \in Index \ {1} : /\ Under(ms, i) <=> Under(ms, i - 1) \/ Between(ms, i)
                                     /\ ~(Under(ms, i - 1) /\ Between(ms, i))
           /\ Under(ms, 1) <=> Between(ms, 1)
<1>1. /\ Len(Bounds) \in Nat /\ \A i \in 1..Len(Bounds) : Bounds[i] \in Nat
      /\ \A i, k \in 1..Len(Bounds) : i < k => Bounds[i] < Bounds[k]
  BY IndexFacts, MetricsAssumption
<1> DEFINE b    == BucketOf(ms)
           Goal == b \in Index /\ \A i \in Index : Between(ms, i) <=> i = b
<1>2. ASSUME Fits(ms) = {} PROVE Goal
  <2>1. b = Len(Bounds) + 1 /\ \A i \in 1..Len(Bounds) : ms > Bounds[i]
    BY <1>1, <1>2 DEF BucketOf, Fits
  <2>2. b \in Index
    BY <1>1, <2>1, IndexFacts
  <2>3. \A i \in Index : Between(ms, i) <=> i = b
    BY <1>1, <2>1, IndexFacts DEF Between
  <2> QED
    BY <2>2, <2>3
<1>3. ASSUME Fits(ms) # {} PROVE Goal
  <2>1. Fits(ms) \subseteq Nat
    BY <1>1 DEF Fits
  <2>2. \E i \in Fits(ms) : \A k \in Fits(ms) : i <= k
    BY <1>3, <2>1, Least
  <2>3. b \in Fits(ms) /\ \A k \in Fits(ms) : b <= k
    BY <1>3, <2>2 DEF BucketOf
  <2>4. b \in 1..Len(Bounds) /\ ms <= Bounds[b]
    BY <2>3 DEF Fits
  <2>5. \A i \in 1..Len(Bounds) : i < b => ms > Bounds[i]
    BY <1>1, <2>3 DEF Fits
  <2> HIDE DEF b
  <2>6. ASSUME NEW i \in Index, i < b PROVE ~Between(ms, i)
    BY <1>1, <2>4, <2>5, <2>6, IndexFacts DEF Between
  <2>7. ASSUME NEW i \in Index, i > b PROVE ~Between(ms, i)
    <3>1. i - 1 \in 1..Len(Bounds) /\ i > 1 /\ (i - 1 = b \/ b < i - 1)
      BY <1>1, <2>4, <2>7, IndexFacts
    <3>2. Bounds[b] <= Bounds[i - 1] /\ Bounds[b] \in Nat /\ Bounds[i - 1] \in Nat
      BY <1>1, <2>4, <3>1
    <3> QED
      BY <2>4, <3>1, <3>2 DEF Between
  <2>8. Between(ms, b)
    <3>1. b > 1 => b - 1 \in 1..Len(Bounds) /\ b - 1 < b
      BY <1>1, <2>4
    <3> QED
      BY <1>1, <2>4, <2>5, <3>1 DEF Between
  <2>9. b \in Index
    BY <2>4, IndexFacts
  <2>10. \A i \in Index : Between(ms, i) <=> i = b
    BY <2>4, <2>6, <2>7, <2>8, IndexFacts
  <2> QED
    BY <2>9, <2>10 DEF b
<1>4. ASSUME NEW i \in Index \ {1}
      PROVE  /\ Under(ms, i) <=> Under(ms, i - 1) \/ Between(ms, i)
             /\ ~(Under(ms, i - 1) /\ Between(ms, i))
  <2>1. i - 1 \in 1..Len(Bounds) /\ i > 1 /\ Bounds[i - 1] \in Nat
    BY <1>1, IndexFacts
  <2>2. i <= Len(Bounds) => Bounds[i - 1] < Bounds[i] /\ Bounds[i] \in Nat
    BY <1>1, <2>1, IndexFacts
  <2> QED
    BY <1>1, <2>1, <2>2 DEF Under, Between
<1>5. Under(ms, 1) <=> Between(ms, 1)
  BY DEF Under, Between
<1> QED
  BY <1>2, <1>3, <1>4, <1>5

-----------------------------------------------------------------------------
(* Those who count.                                                        *)

PeopleStep ==
    \/ \E r \in Requests :
          \/ observe_request(r) \/ record_health_check(r) \/ Drop(r)
          \/ LatencyCount(r) \/ LatencySum(r) \/ LatencyBucket(r)
          \/ SpawnStream(r) \/ record_streamed_message(r) \/ EndStream(r) \/ record_grpc_failure(r)
    \/ \E j \in Jobs :
          \/ record_job_processed(j) \/ SettleFails(j)
          \/ \E n \in {"jobs_succeeded", "jobs_retried", "jobs_failed"} : record_job_settled(j, n)

\* Two subsets of a finite set that differ in one member at most: as many, one more or one less.
LEMMA CountMoves ==
    ASSUME NEW D, IsFiniteSet(D), NEW A \in SUBSET D, NEW B \in SUBSET D, NEW x \in D,
           \A d \in D \ {x} : d \in A <=> d \in B
    PROVE  /\ Cardinality(A) \in Nat /\ Cardinality(B) \in Nat
           /\ x \notin A /\ x \in B => Cardinality(B) = Cardinality(A) + 1
           /\ x \in A /\ x \notin B => Cardinality(A) = Cardinality(B) + 1
           /\ (x \in A <=> x \in B) => B = A
<1>1. IsFiniteSet(A) /\ IsFiniteSet(B)
  BY FS_Subset
<1>2. Cardinality(A) \in Nat /\ Cardinality(B) \in Nat
  BY <1>1, FS_CardinalityType
<1>3. ASSUME x \notin A, x \in B PROVE Cardinality(B) = Cardinality(A) + 1
  <2>1. B = A \cup {x}
    BY <1>3
  <2> QED
    BY <1>1, <1>3, <2>1, FS_AddElement
<1>4. ASSUME x \in A, x \notin B PROVE Cardinality(A) = Cardinality(B) + 1
  <2>1. A = B \cup {x}
    BY <1>4
  <2> QED
    BY <1>1, <1>4, <2>1, FS_AddElement
<1>5. ASSUME x \in A <=> x \in B PROVE B = A
  BY <1>5
<1> QED
  BY <1>2, <1>3, <1>4, <1>5

\* An addition adds to one counter and leaves the others.
LEMMA AddFacts ==
    ASSUME TypeOK, NEW n \in Name, NEW k \in Nat, Add(n, k)
    PROVE  /\ counter' \in [Name -> Nat] /\ counter'[n] = counter[n] + k
           /\ \A m \in Name \ {n} : counter'[m] = counter[m]
           /\ \A m \in Name : counter[m] \in Nat /\ counter'[m] \in Nat /\ counter[m] <= counter'[m]
<1>1. counter \in [Name -> Nat] /\ counter' = [counter EXCEPT ![n] = counter[n] + k]
  BY DEF TypeOK, Add
<1>2. counter[n] \in Nat /\ counter[n] + k \in Nat /\ counter[n] <= counter[n] + k
  BY <1>1
<1>3. counter' \in [Name -> Nat] /\ counter'[n] = counter[n] + k
      /\ \A m \in Name \ {n} : counter'[m] = counter[m]
  BY <1>1, <1>2
<1>4. ASSUME NEW m \in Name PROVE counter[m] \in Nat /\ counter'[m] \in Nat /\ counter[m] <= counter'[m]
  BY <1>1, <1>2, <1>3
<1> QED
  BY <1>3, <1>4

\* To count is to add one, and nobody is quiet then.
LEMMA CountsFacts ==
    ASSUME TypeOK, NEW n \in Name, Counts(n)
    PROVE  /\ counter' \in [Name -> Nat] /\ counter'[n] = counter[n] + 1
           /\ \A m \in Name \ {n} : counter'[m] = counter[m]
           /\ \A m \in Name : counter[m] \in Nat /\ counter'[m] \in Nat /\ counter[m] <= counter'[m]
           /\ quiet' = FALSE
<1>1. Add(n, 1) /\ quiet' = FALSE
  BY DEF Counts
<1> QED
  BY <1>1, AddFacts

\* How long a request took is a number of milliseconds.
LEMMA ElapsedIsNat ==
    ASSUME TypeOK PROVE \A r \in Requests : elapsed[r] \in Nat
<1>1. elapsed \in [Requests -> Elapsed \cup {0}]
  BY DEF TypeOK
<1>2. Elapsed \cup {0} \subseteq Nat
  BY MetricsAssumption
<1> QED
  BY <1>1, <1>2

\* A bucket counts one request more and the others none.
LEMMA BucketGrows ==
    ASSUME TypeOK, NEW r \in Requests, LatencyBucket(r)
    PROVE  /\ elapsed[r] \in Nat /\ BucketOf(elapsed[r]) \in Index
           /\ bucket' \in [Index -> Nat]
           /\ bucket'[BucketOf(elapsed[r])] = bucket[BucketOf(elapsed[r])] + 1
           /\ \A i \in Index \ {BucketOf(elapsed[r])} : bucket'[i] = bucket[i]
           /\ \A i \in Index : bucket[i] \in Nat /\ bucket'[i] \in Nat /\ bucket[i] <= bucket'[i]
<1>1. elapsed[r] \in Nat
  BY ElapsedIsNat
<1> DEFINE b == BucketOf(elapsed[r])
<1>2. b \in Index
  BY <1>1, BucketFacts
<1>3. bucket \in [Index -> Nat] /\ bucket' = [bucket EXCEPT ![b] = bucket[b] + 1]
  BY DEF TypeOK, LatencyBucket
<1> HIDE DEF b
<1>4. bucket[b] \in Nat /\ bucket[b] + 1 \in Nat /\ bucket[b] <= bucket[b] + 1
  BY <1>2, <1>3
<1>5. bucket' \in [Index -> Nat] /\ bucket'[b] = bucket[b] + 1
      /\ \A i \in Index \ {b} : bucket'[i] = bucket[i]
  BY <1>2, <1>3, <1>4
<1>6. ASSUME NEW i \in Index PROVE bucket[i] \in Nat /\ bucket'[i] \in Nat /\ bucket[i] <= bucket'[i]
  BY <1>2, <1>3, <1>4, <1>5
<1> QED
  BY <1>1, <1>2, <1>5, <1>6 DEF b

\* Nothing that is counted is ever taken back.
Grows ==
    /\ counter' \in [Name -> Nat] /\ bucket' \in [Index -> Nat] /\ quiet' \in BOOLEAN
    /\ \A n \in Name : counter[n] \in Nat /\ counter'[n] \in Nat /\ counter[n] <= counter'[n]
    /\ \A i \in Index : bucket[i] \in Nat /\ bucket'[i] \in Nat /\ bucket[i] <= bucket'[i]

\* Where nothing is counted nothing grows.
LEMMA StillGrows ==
    ASSUME TypeOK, UNCHANGED <<counter, bucket>>, quiet' \in BOOLEAN
    PROVE  Grows
<1>1. counter \in [Name -> Nat] /\ bucket \in [Index -> Nat] /\ counter' = counter /\ bucket' = bucket
  BY DEF TypeOK
<1>2. ASSUME NEW n \in Name PROVE counter[n] \in Nat /\ counter[n] <= counter[n]
  BY <1>1
<1>3. ASSUME NEW i \in Index PROVE bucket[i] \in Nat /\ bucket[i] <= bucket[i]
  BY <1>1
<1> QED
  BY <1>1, <1>2, <1>3 DEF Grows

\* Where one counter is added to and no bucket, both grow.
LEMMA CounterGrows ==
    ASSUME TypeOK, bucket' = bucket, quiet' \in BOOLEAN, counter' \in [Name -> Nat],
           \A m \in Name : counter[m] \in Nat /\ counter'[m] \in Nat /\ counter[m] <= counter'[m]
    PROVE  Grows
<1>1. bucket \in [Index -> Nat]
  BY DEF TypeOK
<1>2. ASSUME NEW i \in Index PROVE bucket[i] \in Nat /\ bucket[i] <= bucket[i]
  BY <1>1
<1> QED
  BY <1>1, <1>2 DEF Grows

\* Who counts leaves the scrape alone, and only adds.
LEMMA PeopleGrow ==
    ASSUME TypeOK, PeopleStep
    PROVE  UNCHANGED reader /\ Grows
<1>1. ASSUME NEW r \in Requests, observe_request(r) PROVE UNCHANGED reader /\ Grows
  BY <1>1, NameFacts, CountsFacts, CounterGrows DEF observe_request
<1>2. ASSUME NEW r \in Requests, record_health_check(r) PROVE UNCHANGED reader /\ Grows
  BY <1>2, NameFacts, CountsFacts, CounterGrows DEF record_health_check
<1>3. ASSUME NEW r \in Requests, Drop(r) PROVE UNCHANGED reader /\ Grows
  BY <1>3, StillGrows DEF Drop, TypeOK
<1>4. ASSUME NEW r \in Requests, LatencyCount(r) PROVE UNCHANGED reader /\ Grows
  BY <1>4, NameFacts, CountsFacts, CounterGrows DEF LatencyCount
<1>5. ASSUME NEW r \in Requests, LatencySum(r) PROVE UNCHANGED reader /\ Grows
  <2>1. elapsed[r] \in Nat
    BY ElapsedIsNat
  <2> QED
    BY <1>5, <2>1, NameFacts, AddFacts, CounterGrows DEF LatencySum
<1>6. ASSUME NEW r \in Requests, LatencyBucket(r) PROVE UNCHANGED reader /\ Grows
  <2>1. counter \in [Name -> Nat] /\ counter' = counter /\ quiet' = FALSE /\ UNCHANGED reader
    BY <1>6 DEF LatencyBucket, TypeOK
  <2>2. ASSUME NEW n \in Name PROVE counter[n] \in Nat /\ counter[n] <= counter[n]
    BY <2>1
  <2> QED
    BY <1>6, <2>1, <2>2, BucketGrows DEF Grows
<1>7. ASSUME NEW r \in Requests, SpawnStream(r) \/ EndStream(r) PROVE UNCHANGED reader /\ Grows
  BY <1>7, StillGrows DEF SpawnStream, EndStream, TypeOK
<1>8. ASSUME NEW r \in Requests, record_streamed_message(r) PROVE UNCHANGED reader /\ Grows
  BY <1>8, NameFacts, CountsFacts, CounterGrows DEF record_streamed_message
<1>9. ASSUME NEW r \in Requests, record_grpc_failure(r) PROVE UNCHANGED reader /\ Grows
  BY <1>9, NameFacts, CountsFacts, CounterGrows DEF record_grpc_failure
<1>10. ASSUME NEW j \in Jobs, record_job_processed(j) PROVE UNCHANGED reader /\ Grows
  BY <1>10, NameFacts, CountsFacts, CounterGrows DEF record_job_processed
<1>11. ASSUME NEW j \in Jobs, SettleFails(j) PROVE UNCHANGED reader /\ Grows
  BY <1>11, StillGrows DEF SettleFails, TypeOK
<1>12. ASSUME NEW j \in Jobs, NEW n \in {"jobs_succeeded", "jobs_retried", "jobs_failed"},
              record_job_settled(j, n)
       PROVE  UNCHANGED reader /\ Grows
  <2>1. n \in Name
    BY NameFacts
  <2> QED
    BY <1>12, <2>1, CountsFacts, CounterGrows DEF record_job_settled
<1> QED
  BY <1>1, <1>2, <1>3, <1>4, <1>5, <1>6, <1>7, <1>8, <1>9, <1>10, <1>11, <1>12 DEF PeopleStep

\* The two sums of CountersAddUp.
RequestsAddUp ==
    counter["grpc_requests"] =
        counter["grpc_latency_count"] + Cardinality(InRequest({"open", "count"}))
JobsAddUp ==
    counter["jobs_processed"] =
        counter["jobs_succeeded"] + counter["jobs_retried"] + counter["jobs_failed"]
        + Cardinality(InJob({"claimed", "lost"}))

\* A request moves: how many are in a state after it.
LEMMA RequestMoves ==
    ASSUME TypeOK, NEW r \in Requests, NEW b, request' = [request EXCEPT ![r] = b], NEW S
    PROVE  /\ Cardinality(InRequest(S)) \in Nat /\ Cardinality(InRequest(S)') \in Nat
           /\ request[r] \notin S /\ b \in S =>
                 Cardinality(InRequest(S)') = Cardinality(InRequest(S)) + 1
           /\ request[r] \in S /\ b \notin S =>
                 Cardinality(InRequest(S)) = Cardinality(InRequest(S)') + 1
           /\ (request[r] \in S <=> b \in S) => InRequest(S)' = InRequest(S)
<1> DEFINE A == InRequest(S)
           B == InRequest(S)'
<1>1. IsFiniteSet(Requests) /\ \A d \in Requests : request'[d] = IF d = r THEN b ELSE request[d]
  BY MetricsAssumption DEF TypeOK
<1>2. A \in SUBSET Requests /\ B \in SUBSET Requests
      /\ \A d \in Requests : (d \in A <=> request[d] \in S) /\ (d \in B <=> request'[d] \in S)
  BY DEF InRequest
<1> HIDE DEF A, B
<1>3. /\ \A d \in Requests \ {r} : d \in A <=> d \in B
      /\ r \in A <=> request[r] \in S
      /\ r \in B <=> b \in S
  BY <1>1, <1>2
<1>4. /\ Cardinality(A) \in Nat /\ Cardinality(B) \in Nat
      /\ r \notin A /\ r \in B => Cardinality(B) = Cardinality(A) + 1
      /\ r \in A /\ r \notin B => Cardinality(A) = Cardinality(B) + 1
      /\ (r \in A <=> r \in B) => B = A
  BY <1>1, <1>2, <1>3, CountMoves
<1> QED
  BY <1>3, <1>4 DEF A, B

\* A job moves: how many are in a state after it.
LEMMA JobMoves ==
    ASSUME TypeOK, NEW j \in Jobs, NEW b, job' = [job EXCEPT ![j] = b], NEW S
    PROVE  /\ Cardinality(InJob(S)) \in Nat /\ Cardinality(InJob(S)') \in Nat
           /\ job[j] \notin S /\ b \in S =>
                 Cardinality(InJob(S)') = Cardinality(InJob(S)) + 1
           /\ job[j] \in S /\ b \notin S =>
                 Cardinality(InJob(S)) = Cardinality(InJob(S)') + 1
           /\ (job[j] \in S <=> b \in S) => InJob(S)' = InJob(S)
<1> DEFINE A == InJob(S)
           B == InJob(S)'
<1>1. IsFiniteSet(Jobs) /\ \A d \in Jobs : job'[d] = IF d = j THEN b ELSE job[d]
  BY MetricsAssumption DEF TypeOK
<1>2. A \in SUBSET Jobs /\ B \in SUBSET Jobs
      /\ \A d \in Jobs : (d \in A <=> job[d] \in S) /\ (d \in B <=> job'[d] \in S)
  BY DEF InJob
<1> HIDE DEF A, B
<1>3. /\ \A d \in Jobs \ {j} : d \in A <=> d \in B
      /\ j \in A <=> job[j] \in S
      /\ j \in B <=> b \in S
  BY <1>1, <1>2
<1>4. /\ Cardinality(A) \in Nat /\ Cardinality(B) \in Nat
      /\ j \notin A /\ j \in B => Cardinality(B) = Cardinality(A) + 1
      /\ j \in A /\ j \notin B => Cardinality(A) = Cardinality(B) + 1
      /\ (j \in A <=> j \in B) => B = A
  BY <1>1, <1>2, <1>3, CountMoves
<1> QED
  BY <1>3, <1>4 DEF A, B

\* Each request counted at its start is counted when it is timed: one more and one less.
LEMMA PeopleTime ==
    ASSUME TypeOK, TimedInv, RequestsAddUp, PeopleStep
    PROVE  TimedInv' /\ RequestsAddUp'
<1> DEFINE untimed == Cardinality(InRequest({"open", "count"}))
           timed   == Cardinality(InRequest({"sum", "bucket", "closed"}))
           Same    == /\ counter'["grpc_requests"] = counter["grpc_requests"]
                      /\ counter'["grpc_latency_count"] = counter["grpc_latency_count"]
<1>1. ASSUME Same, untimed' = untimed, timed' = timed PROVE TimedInv' /\ RequestsAddUp'
  BY <1>1 DEF TimedInv, RequestsAddUp
<1>2. ASSUME request' = request PROVE untimed' = untimed /\ timed' = timed
  BY <1>2 DEF InRequest
<1>3. ASSUME UNCHANGED counter PROVE Same
  BY <1>3
<1>4. ASSUME NEW n \in Name \ {"grpc_requests", "grpc_latency_count"}, Counts(n) PROVE Same
  BY <1>4, EachName, CountsFacts
<1> HIDE DEF Same
<1>5. ASSUME NEW r \in Requests, observe_request(r) PROVE TimedInv' /\ RequestsAddUp'
  <2>1. request[r] = "new" /\ request' = [request EXCEPT ![r] = "open"] /\ Counts("grpc_requests")
    BY <1>5 DEF observe_request
  <2>2. untimed' = untimed + 1 /\ untimed \in Nat /\ timed' = timed
    <3>1. /\ request[r] \notin {"open", "count"} /\ "open" \in {"open", "count"}
          /\ request[r] \notin {"sum", "bucket", "closed"} /\ "open" \notin {"sum", "bucket", "closed"}
      BY <2>1
    <3>2. Cardinality(InRequest({"open", "count"})') = Cardinality(InRequest({"open", "count"})) + 1 /\ Cardinality(InRequest({"open", "count"})) \in Nat
      BY <2>1, <3>1, RequestMoves
    <3>3. InRequest({"sum", "bucket", "closed"})' = InRequest({"sum", "bucket", "closed"})
      BY <2>1, <3>1, RequestMoves
    <3> QED
      BY <3>2, <3>3
  <2>3. counter'["grpc_requests"] = counter["grpc_requests"] + 1
        /\ counter'["grpc_latency_count"] = counter["grpc_latency_count"]
        /\ counter["grpc_latency_count"] \in Nat
    BY <2>1, EachName, CountsFacts
  <2> HIDE DEF untimed, timed
  <2>4. TimedInv'
    BY <2>2, <2>3 DEF TimedInv, timed
  <2>5. counter["grpc_requests"] = counter["grpc_latency_count"] + untimed
    BY DEF RequestsAddUp, untimed
  <2>6. counter'["grpc_requests"] = counter'["grpc_latency_count"] + untimed'
    BY <2>2, <2>3, <2>5
  <2>7. RequestsAddUp'
    BY <2>6 DEF RequestsAddUp, untimed
  <2> QED
    BY <2>4, <2>7
<1>6. ASSUME NEW r \in Requests, LatencyCount(r) PROVE TimedInv' /\ RequestsAddUp'
  <2>1. request[r] = "count" /\ request' = [request EXCEPT ![r] = "sum"]
        /\ Counts("grpc_latency_count")
    BY <1>6 DEF LatencyCount
  <2>2. untimed = untimed' + 1 /\ timed' = timed + 1
    <3>1. /\ request[r] \in {"open", "count"} /\ "sum" \notin {"open", "count"}
          /\ request[r] \notin {"sum", "bucket", "closed"} /\ "sum" \in {"sum", "bucket", "closed"}
      BY <2>1
    <3>2. Cardinality(InRequest({"open", "count"})) = Cardinality(InRequest({"open", "count"})') + 1
      BY <2>1, <3>1, RequestMoves
    <3>3. Cardinality(InRequest({"sum", "bucket", "closed"})') = Cardinality(InRequest({"sum", "bucket", "closed"})) + 1
      BY <2>1, <3>1, RequestMoves
    <3> QED
      BY <3>2, <3>3
  <2>3. counter'["grpc_latency_count"] = counter["grpc_latency_count"] + 1
        /\ counter'["grpc_requests"] = counter["grpc_requests"]
        /\ counter["grpc_latency_count"] \in Nat
    BY <2>1, EachName, CountsFacts
  <2>4. untimed' \in Nat
    <3>1. InRequest({"open", "count"})' \subseteq Requests
      BY DEF InRequest
    <3> QED
      BY <3>1, MetricsAssumption, FS_Subset, FS_CardinalityType
  <2> HIDE DEF untimed, timed
  <2>5. TimedInv'
    BY <2>2, <2>3 DEF TimedInv, timed
  <2>6. counter["grpc_requests"] = counter["grpc_latency_count"] + untimed
    BY DEF RequestsAddUp, untimed
  <2>7. counter'["grpc_requests"] = counter'["grpc_latency_count"] + untimed'
    BY <2>2, <2>3, <2>4, <2>6
  <2>8. RequestsAddUp'
    BY <2>7 DEF RequestsAddUp, untimed
  <2> QED
    BY <2>5, <2>8
<1>7. ASSUME NEW r \in Requests, Drop(r) PROVE untimed' = untimed /\ timed' = timed /\ Same
  <2>1. request[r] = "open" /\ request' = [request EXCEPT ![r] = "count"] /\ UNCHANGED counter
    BY <1>7 DEF Drop, DropAlways
  <2> QED
    <3>1. /\ request[r] \in {"open", "count"} /\ "count" \in {"open", "count"}
          /\ request[r] \notin {"sum", "bucket", "closed"} /\ "count" \notin {"sum", "bucket", "closed"}
      BY <2>1
    <3>2. InRequest({"open", "count"})' = InRequest({"open", "count"})
      BY <2>1, <3>1, RequestMoves
    <3>3. InRequest({"sum", "bucket", "closed"})' = InRequest({"sum", "bucket", "closed"})
      BY <2>1, <3>1, RequestMoves
    <3> QED
      BY <1>3, <2>1, <3>2, <3>3
<1>8. ASSUME NEW r \in Requests, LatencySum(r) PROVE untimed' = untimed /\ timed' = timed /\ Same
  <2>1. request[r] = "sum" /\ request' = [request EXCEPT ![r] = "bucket"]
        /\ Add("grpc_latency_sum_ms", elapsed[r])
    BY <1>8 DEF LatencySum
  <2>2. Same
    BY <2>1, EachName, ElapsedIsNat, AddFacts DEF Same
  <2> QED
    <3>1. /\ request[r] \notin {"open", "count"} /\ "bucket" \notin {"open", "count"}
          /\ request[r] \in {"sum", "bucket", "closed"} /\ "bucket" \in {"sum", "bucket", "closed"}
      BY <2>1
    <3>2. InRequest({"open", "count"})' = InRequest({"open", "count"})
      BY <2>1, <3>1, RequestMoves
    <3>3. InRequest({"sum", "bucket", "closed"})' = InRequest({"sum", "bucket", "closed"})
      BY <2>1, <3>1, RequestMoves
    <3> QED
      BY <2>2, <3>2, <3>3
<1>9. ASSUME NEW r \in Requests, LatencyBucket(r) PROVE untimed' = untimed /\ timed' = timed /\ Same
  <2>1. request[r] = "bucket" /\ request' = [request EXCEPT ![r] = "closed"] /\ UNCHANGED counter
    BY <1>9 DEF LatencyBucket
  <2> QED
    <3>1. /\ request[r] \notin {"open", "count"} /\ "closed" \notin {"open", "count"}
          /\ request[r] \in {"sum", "bucket", "closed"} /\ "closed" \in {"sum", "bucket", "closed"}
      BY <2>1
    <3>2. InRequest({"open", "count"})' = InRequest({"open", "count"})
      BY <2>1, <3>1, RequestMoves
    <3>3. InRequest({"sum", "bucket", "closed"})' = InRequest({"sum", "bucket", "closed"})
      BY <2>1, <3>1, RequestMoves
    <3> QED
      BY <1>3, <2>1, <3>2, <3>3
<1>10. ASSUME NEW r \in Requests, \/ record_health_check(r) \/ SpawnStream(r)
                                  \/ record_streamed_message(r) \/ EndStream(r) \/ record_grpc_failure(r)
       PROVE  untimed' = untimed /\ timed' = timed /\ Same
  <2>1. request' = request
    BY <1>10 DEF record_health_check, SpawnStream, record_streamed_message, EndStream, record_grpc_failure, people
  <2>2. \/ UNCHANGED counter \/ Counts("health_checks")
        \/ Counts("streamed_messages") \/ Counts("grpc_failures")
    BY <1>10 DEF record_health_check, SpawnStream, record_streamed_message, EndStream, record_grpc_failure
  <2>3. Same
    BY <1>3, <1>4, <2>2, EachName
  <2> QED
    BY <1>2, <2>1, <2>3
<1>11. ASSUME NEW j \in Jobs, record_job_processed(j) \/ SettleFails(j)
       PROVE  untimed' = untimed /\ timed' = timed /\ Same
  <2>1. request' = request /\ (UNCHANGED counter \/ Counts("jobs_processed"))
    BY <1>11 DEF record_job_processed, SettleFails
  <2> QED
    BY <1>2, <1>3, <1>4, <2>1, EachName
<1>12. ASSUME NEW j \in Jobs, NEW n \in {"jobs_succeeded", "jobs_retried", "jobs_failed"},
              record_job_settled(j, n)
       PROVE  untimed' = untimed /\ timed' = timed /\ Same
  <2>1. request' = request /\ Counts(n)
    BY <1>12 DEF record_job_settled
  <2>2. n \in Name \ {"grpc_requests", "grpc_latency_count"}
    BY EachName
  <2> QED
    BY <1>2, <1>4, <2>1, <2>2
<1> HIDE DEF untimed, timed
<1> QED
  BY <1>1, <1>5, <1>6, <1>7, <1>8, <1>9, <1>10, <1>11, <1>12 DEF PeopleStep

\* Each job that is counted is claimed or lost until it is counted again.
LEMMA PeopleSettle ==
    ASSUME TypeOK, JobsAddUp, PeopleStep
    PROVE  JobsAddUp'
<1> DEFINE out  == Cardinality(InJob({"claimed", "lost"}))
           Same == \A n \in {"jobs_processed", "jobs_succeeded", "jobs_retried", "jobs_failed"} :
                      counter'[n] = counter[n]
<1>1. ASSUME Same, out' = out PROVE JobsAddUp'
  BY <1>1 DEF JobsAddUp
<1>2. ASSUME job' = job PROVE out' = out
  BY <1>2 DEF InJob
<1>3. ASSUME UNCHANGED counter PROVE Same
  BY <1>3
<1>4. ASSUME NEW n \in Name \ {"jobs_processed", "jobs_succeeded", "jobs_retried", "jobs_failed"},
             NEW k \in Nat, Add(n, k)
      PROVE  Same
  BY <1>4, EachName, AddFacts
<1>5. out \in Nat /\ out' \in Nat
  <2>1. InJob({"claimed", "lost"}) \subseteq Jobs /\ InJob({"claimed", "lost"})' \subseteq Jobs
    BY DEF InJob
  <2> QED
    BY <2>1, MetricsAssumption, FS_Subset, FS_CardinalityType
<1>6. counter["jobs_processed"] = counter["jobs_succeeded"] + counter["jobs_retried"]
                                  + counter["jobs_failed"] + out
      /\ counter["jobs_succeeded"] \in Nat /\ counter["jobs_retried"] \in Nat
      /\ counter["jobs_failed"] \in Nat
  BY EachName DEF JobsAddUp, TypeOK
<1> HIDE DEF Same
<1>7. ASSUME NEW r \in Requests,
             \/ observe_request(r) \/ record_health_check(r) \/ Drop(r)
             \/ LatencyCount(r) \/ LatencySum(r) \/ LatencyBucket(r)
             \/ SpawnStream(r) \/ record_streamed_message(r) \/ EndStream(r) \/ record_grpc_failure(r)
      PROVE  JobsAddUp'
  <2>1. job' = job
    BY <1>7 DEF observe_request, record_health_check, Drop, LatencyCount, LatencySum, LatencyBucket,
                SpawnStream, record_streamed_message, EndStream, record_grpc_failure, people
  <2>2. \/ UNCHANGED counter
        \/ \E n \in {"grpc_requests", "health_checks", "grpc_latency_count",
                     "streamed_messages", "grpc_failures"} : Counts(n)
        \/ Add("grpc_latency_sum_ms", elapsed[r])
    BY <1>7 DEF observe_request, record_health_check, Drop, LatencyCount, LatencySum, LatencyBucket,
                SpawnStream, record_streamed_message, EndStream, record_grpc_failure
  <2>3. ASSUME NEW n \in {"grpc_requests", "health_checks", "grpc_latency_count",
                          "streamed_messages", "grpc_failures"}, Counts(n)
        PROVE  Same
    BY <1>4, <2>3, EachName DEF Counts
  <2>4. ASSUME Add("grpc_latency_sum_ms", elapsed[r]) PROVE Same
    BY <1>4, <2>4, EachName, ElapsedIsNat
  <2>5. Same
    BY <1>3, <2>2, <2>3, <2>4
  <2> HIDE DEF out
  <2> QED
    BY <1>1, <1>2, <2>1, <2>5
<1>8. ASSUME NEW j \in Jobs, record_job_processed(j) PROVE JobsAddUp'
  <2>1. job[j] = "pending" /\ job' = [job EXCEPT ![j] = "claimed"] /\ Counts("jobs_processed")
    BY <1>8 DEF record_job_processed
  <2>2. out' = out + 1
    BY <2>1, JobMoves
  <2>3. /\ counter'["jobs_processed"] = counter["jobs_processed"] + 1
        /\ counter'["jobs_succeeded"] = counter["jobs_succeeded"]
        /\ counter'["jobs_retried"] = counter["jobs_retried"]
        /\ counter'["jobs_failed"] = counter["jobs_failed"]
    BY <2>1, EachName, CountsFacts
  <2> HIDE DEF out
  <2>4. counter'["jobs_processed"] = counter'["jobs_succeeded"] + counter'["jobs_retried"]
                                     + counter'["jobs_failed"] + out'
    BY <1>5, <1>6, <2>2, <2>3
  <2> QED
    BY <2>4 DEF JobsAddUp, out
<1>9. ASSUME NEW j \in Jobs, SettleFails(j) PROVE JobsAddUp'
  <2>1. job[j] = "claimed" /\ job' = [job EXCEPT ![j] = "lost"] /\ UNCHANGED counter
    BY <1>9 DEF SettleFails
  <2>2. out' = out
    BY <2>1, JobMoves
  <2> HIDE DEF out
  <2> QED
    BY <1>1, <1>3, <2>1, <2>2
<1>10. ASSUME NEW j \in Jobs, NEW n \in {"jobs_succeeded", "jobs_retried", "jobs_failed"},
              record_job_settled(j, n)
       PROVE  JobsAddUp'
  <2>1. job[j] = "claimed" /\ job' = [job EXCEPT ![j] = "settled"] /\ Counts(n)
    BY <1>10 DEF record_job_settled
  <2>2. out = out' + 1
    BY <2>1, JobMoves
  <2>3. /\ counter'[n] = counter[n] + 1
        /\ \A m \in {"jobs_processed", "jobs_succeeded", "jobs_retried", "jobs_failed"} \ {n} :
              counter'[m] = counter[m]
    BY <2>1, EachName, CountsFacts
  <2> HIDE DEF out
  <2>4. counter'["jobs_processed"] = counter'["jobs_succeeded"] + counter'["jobs_retried"]
                                     + counter'["jobs_failed"] + out'
    <3>1. counter'["jobs_processed"] = counter["jobs_processed"]
      BY <2>3
    <3>2. CASE n = "jobs_succeeded"
      <4>1. /\ counter'["jobs_succeeded"] = counter["jobs_succeeded"] + 1
            /\ counter'["jobs_retried"] = counter["jobs_retried"]
            /\ counter'["jobs_failed"] = counter["jobs_failed"]
        BY <2>3, <3>2
      <4> QED
        BY <1>5, <1>6, <2>2, <3>1, <4>1
    <3>3. CASE n = "jobs_retried"
      <4>1. /\ counter'["jobs_succeeded"] = counter["jobs_succeeded"]
            /\ counter'["jobs_retried"] = counter["jobs_retried"] + 1
            /\ counter'["jobs_failed"] = counter["jobs_failed"]
        BY <2>3, <3>3
      <4> QED
        BY <1>5, <1>6, <2>2, <3>1, <4>1
    <3>4. CASE n = "jobs_failed"
      <4>1. /\ counter'["jobs_succeeded"] = counter["jobs_succeeded"]
            /\ counter'["jobs_retried"] = counter["jobs_retried"]
            /\ counter'["jobs_failed"] = counter["jobs_failed"] + 1
        BY <2>3, <3>4
      <4> QED
        BY <1>5, <1>6, <2>2, <3>1, <4>1
    <3> QED
      BY <3>2, <3>3, <3>4
  <2> QED
    BY <2>4 DEF JobsAddUp, out
<1> QED
  BY <1>7, <1>8, <1>9, <1>10 DEF PeopleStep

\* The requests that are timed are the same, and took as long.
KeepsClosed == Closed' = Closed /\ \A r \in Closed : elapsed'[r] = elapsed[r]

\* Then as many are between two boundaries, and under one, as before.
LEMMA ClosedKept ==
    ASSUME KeepsClosed, NEW i \in Index
    PROVE  InBucket(i)' = InBucket(i) /\ UpTo(i)' = UpTo(i)
<1>1. Closed' = Closed /\ \A r \in Closed : elapsed'[r] = elapsed[r]
  BY DEF KeepsClosed
<1>2. InBucket(i)' = {r \in Closed' : Between(elapsed'[r], i)}
      /\ UpTo(i)' = {r \in Closed' : Under(elapsed'[r], i)}
  BY DEF InBucket, UpTo, Between, Under
<1>3. {r \in Closed : Between(elapsed'[r], i)} = {r \in Closed : Between(elapsed[r], i)}
      /\ {r \in Closed : Under(elapsed'[r], i)} = {r \in Closed : Under(elapsed[r], i)}
  BY <1>1
<1> QED
  BY <1>1, <1>2, <1>3 DEF InBucket, UpTo

\* Where requests and durations stay, so do those that are timed.
LEMMA StillClosed ==
    ASSUME UNCHANGED <<request, elapsed>>
    PROVE  KeepsClosed /\ HalfTimed' = HalfTimed
  BY DEF KeepsClosed, Closed, InRequest, HalfTimed

\* A handler that ends is not timed yet: a duration changes, but of no request that is timed.
LEMMA DropKeeps ==
    ASSUME TypeOK, NEW r \in Requests, Drop(r)
    PROVE  KeepsClosed /\ HalfTimed' = HalfTimed
<1>1. request[r] = "open" /\ request' = [request EXCEPT ![r] = "count"]
      /\ \E ms \in Elapsed : elapsed' = [elapsed EXCEPT ![r] = ms]
  BY DEF Drop, DropAlways
<1>2. /\ \A q \in Requests : request'[q] = IF q = r THEN "count" ELSE request[q]
      /\ \A q \in Requests \ {r} : elapsed'[q] = elapsed[q]
  BY <1>1 DEF TypeOK
<1>3. Closed' = Closed /\ r \notin Closed /\ Closed \subseteq Requests
  BY <1>1, <1>2 DEF Closed, InRequest
<1>4. HalfTimed' = HalfTimed
  BY <1>1, <1>2 DEF HalfTimed
<1> QED
  BY <1>2, <1>3, <1>4 DEF KeepsClosed

\* A request is timed in the bucket it falls into, and otherwise no bucket changes.
LEMMA PeopleClosed ==
    ASSUME TypeOK, PeopleStep
    PROVE  \/ KeepsClosed /\ bucket' = bucket
           \/ \E r \in Requests : LatencyBucket(r)
<1>1. ASSUME NEW r \in Requests, \/ observe_request(r) \/ LatencyCount(r) \/ LatencySum(r)
      PROVE  KeepsClosed /\ bucket' = bucket
  <2>1. PICK b \in {"open", "sum", "bucket"} : request' = [request EXCEPT ![r] = b]
    BY <1>1 DEF observe_request, LatencyCount, LatencySum
  <2>2. request[r] # "closed" /\ elapsed' = elapsed /\ bucket' = bucket
    BY <1>1 DEF observe_request, LatencyCount, LatencySum
  <2>3. \A q \in Requests : request'[q] = IF q = r THEN b ELSE request[q]
    BY <2>1 DEF TypeOK
  <2>4. Closed' = Closed
    BY <2>1, <2>2, <2>3 DEF Closed, InRequest
  <2> QED
    BY <2>2, <2>4 DEF KeepsClosed
<1>2. ASSUME NEW r \in Requests, Drop(r) PROVE KeepsClosed /\ bucket' = bucket
  BY <1>2, DropKeeps DEF Drop
<1>3. ASSUME NEW r \in Requests, \/ record_health_check(r) \/ SpawnStream(r)
                                 \/ record_streamed_message(r) \/ EndStream(r) \/ record_grpc_failure(r)
      PROVE  KeepsClosed /\ bucket' = bucket
  <2>1. UNCHANGED <<request, elapsed>> /\ bucket' = bucket
    BY <1>3 DEF record_health_check, SpawnStream, record_streamed_message, EndStream, record_grpc_failure, people
  <2> QED
    BY <2>1, StillClosed
<1>4. ASSUME NEW j \in Jobs,
             \/ record_job_processed(j) \/ SettleFails(j)
             \/ \E n \in {"jobs_succeeded", "jobs_retried", "jobs_failed"} : record_job_settled(j, n)
      PROVE  KeepsClosed /\ bucket' = bucket
  <2>1. UNCHANGED <<request, elapsed>> /\ bucket' = bucket
    BY <1>4 DEF record_job_processed, SettleFails, record_job_settled
  <2> QED
    BY <2>1, StillClosed
<1> QED
  BY <1>1, <1>2, <1>3, <1>4 DEF PeopleStep

\* Each step that counts is heard by a scrape; the others move nothing it adds up.
LEMMA PeopleQuiet ==
    ASSUME TypeOK, PeopleStep, quiet'
    PROVE  quiet /\ UNCHANGED <<counter, bucket>> /\ KeepsClosed /\ HalfTimed' = HalfTimed
<1>1. \/ \E r \in Requests : Drop(r) \/ SpawnStream(r) \/ EndStream(r)
      \/ \E j \in Jobs : SettleFails(j)
  BY DEF PeopleStep, Counts, observe_request, record_health_check, LatencyCount, LatencySum,
         LatencyBucket, record_streamed_message, record_grpc_failure, record_job_processed,
         record_job_settled
<1>2. ASSUME NEW r \in Requests, Drop(r)
      PROVE  quiet /\ UNCHANGED <<counter, bucket>> /\ KeepsClosed /\ HalfTimed' = HalfTimed
  BY <1>2, DropKeeps DEF Drop
<1>3. ASSUME \/ \E r \in Requests : SpawnStream(r) \/ EndStream(r)
             \/ \E j \in Jobs : SettleFails(j)
      PROVE  quiet /\ UNCHANGED <<counter, bucket>> /\ KeepsClosed /\ HalfTimed' = HalfTimed
  BY <1>3, StillClosed DEF SpawnStream, EndStream, SettleFails
<1> QED
  BY <1>1, <1>2, <1>3

\* The histogram stays that of the requests: the one that is timed is put between its boundaries.
LEMMA PeopleFill ==
    ASSUME TypeOK, HistogramIsRight, PeopleStep
    PROVE  HistogramIsRight'
<1>1. \A i \in Index : bucket[i] = Cardinality(InBucket(i))
  BY DEF HistogramIsRight, InBucket, Closed
<1>2. ASSUME \A i \in Index : bucket'[i] = Cardinality(InBucket(i)') PROVE HistogramIsRight'
  BY <1>2 DEF HistogramIsRight, InBucket, Closed
<1>3. ASSUME KeepsClosed, bucket' = bucket, NEW i \in Index
      PROVE  bucket'[i] = Cardinality(InBucket(i)')
  BY <1>1, <1>3, ClosedKept
<1>4. ASSUME NEW r \in Requests, LatencyBucket(r), NEW i \in Index
      PROVE  bucket'[i] = Cardinality(InBucket(i)')
  <2>1. request[r] = "bucket" /\ request' = [request EXCEPT ![r] = "closed"] /\ elapsed' = elapsed
    BY <1>4 DEF LatencyBucket
  <2>2. \A q \in Requests : request'[q] = IF q = r THEN "closed" ELSE request[q]
    BY <2>1 DEF TypeOK
  <2>3. Closed' = Closed \cup {r} /\ r \notin Closed
    BY <2>1, <2>2 DEF Closed, InRequest
  <2>4. Between(elapsed[r], i) <=> i = BucketOf(elapsed[r])
    BY <1>4, ElapsedIsNat, BucketFacts
  <2>5. InBucket(i)' = {q \in Closed \cup {r} : Between(elapsed[q], i)}
    BY <2>1, <2>3 DEF InBucket, Between
  <2>6. IsFiniteSet(InBucket(i)) /\ r \notin InBucket(i)
    <3>1. InBucket(i) \subseteq Requests
      BY DEF InBucket, Closed, InRequest
    <3> QED
      BY <2>3, <3>1, MetricsAssumption, FS_Subset DEF InBucket
  <2>7. CASE i = BucketOf(elapsed[r])
    <3>1. InBucket(i)' = InBucket(i) \cup {r}
      BY <2>4, <2>5, <2>7 DEF InBucket
    <3>2. Cardinality(InBucket(i) \cup {r}) = Cardinality(InBucket(i)) + 1
      BY <2>6, FS_AddElement
    <3>3. bucket'[i] = bucket[i] + 1
      BY <1>4, <2>7, BucketGrows
    <3> QED
      BY <1>1, <3>1, <3>2, <3>3
  <2>8. CASE i # BucketOf(elapsed[r])
    <3>1. InBucket(i)' = InBucket(i)
      BY <2>4, <2>5, <2>8 DEF InBucket
    <3>2. bucket'[i] = bucket[i]
      BY <1>4, <2>8, BucketGrows
    <3> QED
      BY <1>1, <3>1, <3>2
  <2> QED
    BY <2>7, <2>8
<1>5. CASE KeepsClosed /\ bucket' = bucket
  BY <1>2, <1>3, <1>5
<1>6. ASSUME NEW r \in Requests, LatencyBucket(r) PROVE HistogramIsRight'
  BY <1>2, <1>4, <1>6
<1> QED
  BY <1>5, <1>6, PeopleClosed

\* Those who count keep what they are in one of their states.
LEMMA PeopleTypes ==
    ASSUME TypeOK, PeopleStep
    PROVE  TypeOK'
<1> DEFINE People == /\ request' \in [Requests -> {"new", "open", "count", "sum", "bucket", "closed"}]
                     /\ elapsed' \in [Requests -> Elapsed \cup {0}]
                     /\ task' \in [Requests -> {"none", "open", "closed"}]
                     /\ job' \in [Jobs -> {"pending", "claimed", "settled", "lost"}]
<1>1. /\ request \in [Requests -> {"new", "open", "count", "sum", "bucket", "closed"}]
      /\ elapsed \in [Requests -> Elapsed \cup {0}]
      /\ task \in [Requests -> {"none", "open", "closed"}]
      /\ job \in [Jobs -> {"pending", "claimed", "settled", "lost"}]
  BY DEF TypeOK
<1>2. ASSUME NEW r \in Requests, \/ observe_request(r) \/ LatencyCount(r)
                                 \/ LatencySum(r) \/ LatencyBucket(r)
      PROVE  People
  BY <1>1, <1>2 DEF observe_request, LatencyCount, LatencySum, LatencyBucket
<1>3. ASSUME NEW r \in Requests, Drop(r) PROVE People
  BY <1>1, <1>3 DEF Drop, DropAlways
<1>4. ASSUME NEW r \in Requests, \/ record_health_check(r) \/ SpawnStream(r)
                                 \/ record_streamed_message(r) \/ EndStream(r) \/ record_grpc_failure(r)
      PROVE  People
  BY <1>1, <1>4 DEF record_health_check, SpawnStream, record_streamed_message, EndStream, record_grpc_failure, people
<1>5. ASSUME NEW j \in Jobs,
             \/ record_job_processed(j) \/ SettleFails(j)
             \/ \E n \in {"jobs_succeeded", "jobs_retried", "jobs_failed"} : record_job_settled(j, n)
      PROVE  People
  BY <1>1, <1>5 DEF record_job_processed, SettleFails, record_job_settled
<1>6. People
  BY <1>2, <1>3, <1>4, <1>5 DEF PeopleStep
<1>7. UNCHANGED <<scrape, floor, last, scrapes>> /\ Grows
  BY PeopleGrow DEF reader
<1>8. /\ scrape \in Seq(Nat) /\ Len(scrape) <= Len(Names) + Len(Bounds) + 2
      /\ floor \in Counted /\ last \in Counted /\ scrapes \in 0..MaxScrapes
  BY DEF TypeOK
<1> QED
  BY <1>6, <1>7, <1>8 DEF TypeOK, Grows

-----------------------------------------------------------------------------
(* The scrape.                                                             *)

\* What is counted, kept and loaded is a number.
LEMMA NumberFacts ==
    ASSUME TypeOK
    PROVE  /\ \A n \in Name : counter[n] \in Nat /\ floor.names[n] \in Nat /\ last.names[n] \in Nat
           /\ \A i \in Index : bucket[i] \in Nat /\ floor.buckets[i] \in Nat /\ last.buckets[i] \in Nat
           /\ Len(scrape) \in Nat /\ scrape \in Seq(Nat)
           /\ \A k \in 1..Len(scrape) : scrape[k] \in Nat
           /\ (scrape # NotScraping <=> Len(scrape) >= 1)
<1>1. /\ counter \in [Name -> Nat] /\ floor.names \in [Name -> Nat] /\ last.names \in [Name -> Nat]
      /\ bucket \in [Index -> Nat] /\ floor.buckets \in [Index -> Nat]
      /\ last.buckets \in [Index -> Nat] /\ scrape \in Seq(Nat)
  BY DEF TypeOK, Counted
<1>2. Len(scrape) \in Nat /\ \A k \in 1..Len(scrape) : scrape[k] \in Nat
  BY <1>1
<1>3. scrape # NotScraping <=> Len(scrape) >= 1
  BY <1>1 DEF NotScraping
<1>4. \A n \in Name : counter[n] \in Nat /\ floor.names[n] \in Nat /\ last.names[n] \in Nat
  BY <1>1
<1>5. \A i \in Index : bucket[i] \in Nat /\ floor.buckets[i] \in Nat /\ last.buckets[i] \in Nat
  BY <1>1
<1> QED
  BY <1>1, <1>2, <1>3, <1>4, <1>5

\* One more value is loaded: those before it stay.
Loaded(v) ==
    /\ scrape' = Append(scrape, v) /\ v \in Nat
    /\ Len(scrape') = Len(scrape) + 1 /\ scrape' \in Seq(Nat)
    /\ scrape'[Len(scrape) + 1] = v
    /\ \A k \in 1..Len(scrape) : scrape'[k] = scrape[k]
    /\ UNCHANGED <<counter, bucket, people, floor, last, quiet, scrapes>>

\* A counter is loaded: it holds at least what it held when the scrape began.
LEMMA LoadFacts ==
    ASSUME TypeOK, Load
    PROVE  /\ Len(scrape) \in 1..Base
           /\ \E v \in Nat : /\ Loaded(v)
                             /\ floor.names[Names[Len(scrape)]] <= v
                             /\ v <= counter[Names[Len(scrape)]]
<1>1. scrape # NotScraping /\ Len(scrape) <= Base
      /\ UNCHANGED <<counter, bucket, people, floor, last, quiet, scrapes>>
  BY DEF Load, Base
<1>2. Len(scrape) \in 1..Base /\ Base = 10 /\ scrape \in Seq(Nat)
  <2>1. Len(scrape) \in Nat /\ Len(scrape) >= 1 /\ scrape \in Seq(Nat)
    BY <1>1, NumberFacts
  <2>2. Base = 10 /\ Len(scrape) <= Base
    BY <1>1, NameFacts
  <2>3. ASSUME NEW k \in Nat, k >= 1, NEW b \in Nat, k <= b PROVE k \in 1..b
    BY <2>3
  <2>4. Len(scrape) \in 1..Base
    BY <2>1, <2>2, <2>3
  <2> QED
    BY <2>1, <2>2, <2>4
<1> DEFINE n == Names[Len(scrape)]
<1>3. n \in Name
  BY <1>2, NameFacts
<1>4. floor.names[n] \in Nat /\ counter[n] \in Nat
  BY <1>3, NumberFacts
<1>5. PICK v \in floor.names[n]..counter[n] : scrape' = Append(scrape, v)
  BY DEF Load, Loadable
<1> HIDE DEF n
<1>6. v \in Nat /\ floor.names[n] <= v /\ v <= counter[n]
  BY <1>4, <1>5
<1>7. Loaded(v)
  BY <1>1, <1>2, <1>5, <1>6 DEF Loaded
<1> QED
  BY <1>2, <1>6, <1>7 DEF n

\* A bucket is loaded, and added to the sum of those below.
LEMMA LoadBucketFacts ==
    ASSUME TypeOK, LoadBucket
    PROVE  \E i \in Index : \E v \in Nat :
              /\ Len(scrape) = Base + i /\ Loaded(Summed(i) + v) /\ Summed(i) \in Nat
              /\ floor.buckets[i] <= v /\ v <= bucket[i]
<1>1. Len(scrape) > Base /\ Len(scrape) <= Base + Len(Bounds) + 1
      /\ UNCHANGED <<counter, bucket, people, floor, last, quiet, scrapes>>
  BY DEF LoadBucket, Base
<1>2. Base = 10 /\ Len(Bounds) \in Nat /\ Len(scrape) \in Nat /\ scrape \in Seq(Nat)
  BY NumberFacts, NameFacts, IndexFacts
<1> DEFINE i == Len(scrape) - Base
<1>3. i \in 1..(Len(Bounds) + 1) /\ Len(scrape) = Base + i
  BY <1>1, <1>2
<1>4. i \in Index
  BY <1>3, IndexFacts
<1>5. PICK v \in floor.buckets[i]..bucket[i] :
          scrape' = Append(scrape, (IF i = 1 THEN 0 ELSE scrape[Len(scrape)]) + v)
  BY DEF LoadBucket, Cumulated, Base
<1>6. Summed(i) = IF i = 1 THEN 0 ELSE scrape[Len(scrape)]
  BY <1>3 DEF Summed
<1>7. Summed(i) \in Nat
  <2>1. scrape[Len(scrape)] \in Nat
    BY <1>1, <1>2, NumberFacts
  <2> QED
    BY <1>6, <2>1
<1>8. floor.buckets[i] \in Nat /\ bucket[i] \in Nat
  BY <1>4, NumberFacts
<1> HIDE DEF i
<1>9. v \in Nat /\ floor.buckets[i] <= v /\ v <= bucket[i]
  BY <1>5, <1>8
<1>10. Loaded(Summed(i) + v)
  <2> DEFINE w == Summed(i) + v
  <2>1. w \in Nat /\ scrape' = Append(scrape, w)
    BY <1>5, <1>6, <1>7, <1>9
  <2> HIDE DEF w
  <2>2. Loaded(w)
    BY <1>1, <1>2, <2>1 DEF Loaded
  <2> QED
    BY <2>2 DEF w
<1> QED
  BY <1>3, <1>4, <1>7, <1>9, <1>10

\* The place of a counter in a snapshot, and what it is given as.
LEMMA SnapshotFacts ==
    /\ \A k \in 1..Base : Snapshot.names[Names[k]] = scrape[1 + k]
    /\ \A i \in Index : Snapshot.buckets[i] = scrape[1 + Base + i]
    /\ DOMAIN Snapshot.names = Name
<1>1. \A k \in 1..Base : Names[k] \in Name /\ (CHOOSE l \in 1..Base : Names[l] = Names[k]) = k
  BY NameFacts
<1>2. \A n \in Name : Snapshot.names[n] = scrape[1 + CHOOSE l \in 1..Base : Names[l] = n]
  BY DEF Snapshot, Base
<1>3. \A k \in 1..Base : Snapshot.names[Names[k]] = scrape[1 + k]
  BY <1>1, <1>2
<1> QED
  BY <1>3 DEF Snapshot, Base

\* A whole snapshot is one of numbers.
LEMMA SnapshotTypes ==
    ASSUME TypeOK, Whole
    PROVE  Snapshot \in Counted
<1>1. Len(scrape) = Base + Len(Bounds) + 2 /\ Base = 10 /\ Len(Bounds) \in Nat
  BY NameFacts, IndexFacts DEF Whole, Base
<1>2. ASSUME NEW n \in Name PROVE Snapshot.names[n] \in Nat
  <2>1. PICK k \in 1..Base : Names[k] = n
    BY NameFacts
  <2>2. 1 + k \in 1..Len(scrape)
    BY <1>1
  <2>3. scrape[1 + k] \in Nat
    BY <2>2, NumberFacts
  <2> QED
    BY <2>1, <2>3, SnapshotFacts
<1>3. ASSUME NEW i \in Index PROVE Snapshot.buckets[i] \in Nat
  <2>1. i \in 1..(Len(Bounds) + 1)
    BY IndexFacts
  <2>2. 1 + Base + i \in 1..Len(scrape)
    BY <1>1, <2>1
  <2>3. scrape[1 + Base + i] \in Nat
    BY <2>2, NumberFacts
  <2> QED
    BY <2>3, SnapshotFacts
<1>4. Snapshot.names = [n \in Name |-> Snapshot.names[n]]
      /\ Snapshot.buckets = [i \in Index |-> Snapshot.buckets[i]]
      /\ Snapshot = [names |-> Snapshot.names, buckets |-> Snapshot.buckets]
  BY DEF Snapshot
<1> QED
  BY <1>2, <1>3, <1>4 DEF Counted

\* Each step of the reader leaves a snapshot of numbers.
LEMMA ReaderTypes ==
    ASSUME TypeOK, BeginScrape \/ Load \/ LoadBucket \/ EndScrape
    PROVE  TypeOK'
<1>1. /\ counter \in [Name -> Nat] /\ bucket \in [Index -> Nat]
      /\ request \in [Requests -> {"new", "open", "count", "sum", "bucket", "closed"}]
      /\ elapsed \in [Requests -> Elapsed \cup {0}]
      /\ task \in [Requests -> {"none", "open", "closed"}]
      /\ job \in [Jobs -> {"pending", "claimed", "settled", "lost"}]
      /\ scrape \in Seq(Nat) /\ Len(scrape) <= Base + Len(Bounds) + 2
      /\ floor \in Counted /\ last \in Counted
      /\ quiet \in BOOLEAN /\ scrapes \in 0..MaxScrapes
  BY DEF TypeOK, Base
<1>2. /\ UNCHANGED <<counter, bucket, request, elapsed, task, job>>
      /\ scrape' \in Seq(Nat) /\ Len(scrape') <= Base + Len(Bounds) + 2
      /\ floor' \in Counted /\ last' \in Counted
      /\ quiet' \in BOOLEAN /\ scrapes' \in 0..MaxScrapes
  <2>1. Base = 10 /\ Len(Bounds) \in Nat /\ MaxScrapes \in Nat
    BY NameFacts, IndexFacts, MetricsAssumption
  <2>2. CASE BeginScrape
    <3>1. /\ scrapes < MaxScrapes /\ scrapes' = scrapes + 1 /\ scrape' = <<0>>
          /\ floor' = [names |-> counter, buckets |-> bucket] /\ quiet' = ~HalfTimed
          /\ UNCHANGED <<counter, bucket, people, last>>
      BY <2>2 DEF BeginScrape
    <3>2. floor' \in Counted
      BY <1>1, <3>1 DEF Counted
    <3>3. scrapes' \in 0..MaxScrapes
      BY <1>1, <2>1, <3>1
    <3>4. <<0>> \in Seq(Nat) /\ Len(<<0>>) = 1
      OBVIOUS
    <3> QED
      BY <1>1, <2>1, <3>1, <3>2, <3>3, <3>4 DEF people, HalfTimed
  <2>3. CASE Load
    <3>1. Len(scrape) \in 1..Base /\ \E v \in Nat : Loaded(v)
      BY <2>3, LoadFacts
    <3>2. Len(scrape') = Len(scrape) + 1 /\ scrape' \in Seq(Nat)
          /\ UNCHANGED <<counter, bucket, people, floor, last, quiet, scrapes>>
      BY <3>1 DEF Loaded
    <3>3. Len(scrape') <= Base + Len(Bounds) + 2
      <4>1. Len(scrape) \in Nat /\ Len(scrape) <= Base /\ Len(scrape') = Len(scrape) + 1
        <5>1. ASSUME NEW b \in Nat, NEW k \in 1..b PROVE k \in Nat /\ k <= b
          OBVIOUS
        <5> QED
          BY <2>1, <3>1, <3>2, <5>1
      <4> QED
        BY <2>1, <4>1
    <3> QED
      BY <1>1, <3>2, <3>3 DEF people
  <2>4. CASE LoadBucket
    <3>1. PICK i \in Index, v \in Nat : Len(scrape) = Base + i /\ Loaded(Summed(i) + v)
      BY <2>4, LoadBucketFacts
    <3>2. Len(scrape') = Len(scrape) + 1 /\ scrape' \in Seq(Nat)
          /\ UNCHANGED <<counter, bucket, people, floor, last, quiet, scrapes>>
      BY <3>1 DEF Loaded
    <3>3. i \in 1..(Len(Bounds) + 1)
      BY IndexFacts
    <3>4. Len(scrape') <= Base + Len(Bounds) + 2
      BY <2>1, <3>1, <3>2, <3>3
    <3> QED
      BY <1>1, <3>2, <3>4 DEF people
  <2>5. CASE EndScrape
    <3>1. Whole /\ last' = Snapshot /\ scrape' = <<>>
          /\ UNCHANGED <<counter, bucket, people, floor, quiet, scrapes>>
      BY <2>5 DEF EndScrape, NotScraping
    <3>2. last' \in Counted
      BY <3>1, SnapshotTypes
    <3>3. <<>> \in Seq(Nat) /\ Len(<<>>) = 0
      OBVIOUS
    <3> QED
      BY <1>1, <2>1, <3>1, <3>2, <3>3 DEF people
  <2> QED
    BY <2>2, <2>3, <2>4, <2>5
<1> QED
  BY <1>1, <1>2 DEF TypeOK, Base

\* What was answered stays below what has been counted while people count.
LEMMA PeopleKeepLast ==
    ASSUME TypeOK, LastInv, Grows, UNCHANGED last
    PROVE  LastInv'
<1>1. ASSUME NEW n \in Name PROVE last.names[n] <= counter'[n]
  <2>1. last.names[n] \in Nat /\ counter[n] \in Nat /\ counter'[n] \in Nat
        /\ last.names[n] <= counter[n] /\ counter[n] <= counter'[n]
    BY NumberFacts DEF Grows, LastInv
  <2> QED
    BY <2>1
<1>2. ASSUME NEW i \in Index PROVE last.buckets[i] <= Below1(last.buckets, i) + bucket'[i]
  <2>1. last.buckets[i] \in Nat /\ bucket[i] \in Nat /\ bucket'[i] \in Nat
        /\ last.buckets[i] <= Below1(last.buckets, i) + bucket[i] /\ bucket[i] <= bucket'[i]
    BY NumberFacts DEF Grows, LastInv
  <2>2. Below1(last.buckets, i) \in Nat
    BY NumberFacts, IndexFacts DEF Below1
  <2> QED
    BY <2>1, <2>2
<1> QED
  BY <1>1, <1>2 DEF LastInv, Below1

\* The sum below a bucket that is loaded is a number.
LEMMA SummedIsNat ==
    ASSUME TypeOK, NEW i \in Index, Base + i <= Len(scrape)
    PROVE  Summed(i) \in Nat /\ (Base + i < Len(scrape) => scrape[1 + Base + i] \in Nat)
<1>1. Base = 10 /\ i \in Nat /\ i >= 1 /\ Len(scrape) \in Nat
  BY NameFacts, IndexFacts, NumberFacts
<1>2. Base + i \in 1..Len(scrape) /\ (Base + i < Len(scrape) => 1 + Base + i \in 1..Len(scrape))
  BY <1>1
<1> QED
  BY <1>2, NumberFacts DEF Summed

\* What is loaded stays between what was counted when the scrape began and what is counted.
LEMMA PeopleKeepScrape ==
    ASSUME TypeOK, ScrapeInv, Grows, UNCHANGED <<scrape, floor, last>>
    PROVE  ScrapeInv'
<1> SUFFICES ASSUME scrape # NotScraping PROVE ScrapeInv'
  BY DEF ScrapeInv, NotScraping
<1>1. ASSUME NEW n \in Name
      PROVE  last.names[n] <= floor.names[n] /\ floor.names[n] <= counter'[n]
  <2>1. floor.names[n] \in Nat /\ counter[n] \in Nat /\ counter'[n] \in Nat
        /\ last.names[n] <= floor.names[n]
        /\ floor.names[n] <= counter[n] /\ counter[n] <= counter'[n]
    BY NumberFacts DEF Grows, ScrapeInv
  <2> QED
    BY <2>1
<1>2. ASSUME NEW i \in Index
      PROVE  /\ last.buckets[i] <= Below1(last.buckets, i) + floor.buckets[i]
             /\ floor.buckets[i] <= bucket'[i]
  <2>1. floor.buckets[i] \in Nat /\ bucket[i] \in Nat /\ bucket'[i] \in Nat
        /\ last.buckets[i] <= Below1(last.buckets, i) + floor.buckets[i]
        /\ floor.buckets[i] <= bucket[i] /\ bucket[i] <= bucket'[i]
    BY NumberFacts DEF Grows, ScrapeInv
  <2> QED
    BY <2>1
<1>3. ASSUME NEW k \in 1..Base, k < Len(scrape)
      PROVE  floor.names[Names[k]] <= scrape[1 + k] /\ scrape[1 + k] <= counter'[Names[k]]
  <2>1. floor.names[Names[k]] <= scrape[1 + k] /\ scrape[1 + k] <= counter[Names[k]]
    BY <1>3 DEF ScrapeInv
  <2>2. Names[k] \in Name
    BY NameFacts
  <2>3. counter[Names[k]] \in Nat /\ counter'[Names[k]] \in Nat
        /\ counter[Names[k]] <= counter'[Names[k]]
    BY <2>2 DEF Grows
  <2>4. scrape[1 + k] \in Nat
    <3>1. 1 + k \in 1..Len(scrape)
      BY <1>3, NameFacts, NumberFacts
    <3> QED
      BY <3>1, NumberFacts
  <2> QED
    BY <2>1, <2>3, <2>4
<1>4. ASSUME NEW i \in Index, Base + i < Len(scrape)
      PROVE  /\ last.buckets[i] <= scrape[1 + Base + i]
             /\ scrape[1 + Base + i] <= Summed(i) + bucket'[i]
  <2>1. last.buckets[i] <= scrape[1 + Base + i] /\ scrape[1 + Base + i] <= Summed(i) + bucket[i]
    BY <1>4 DEF ScrapeInv
  <2>2. bucket[i] \in Nat /\ bucket'[i] \in Nat /\ bucket[i] <= bucket'[i]
    BY DEF Grows
  <2>3. Base + i \in Nat /\ Len(scrape) \in Nat
    BY NameFacts, IndexFacts, NumberFacts
  <2>4. Base + i <= Len(scrape)
    BY <1>4, <2>3
  <2>5. Summed(i) \in Nat /\ scrape[1 + Base + i] \in Nat
    BY <1>4, <2>4, SummedIsNat
  <2> QED
    BY <2>1, <2>2, <2>5
<1> QED
  BY <1>1, <1>2, <1>3, <1>4 DEF ScrapeInv, Summed, Below1, NotScraping

\* A scrape among nobody goes on: nothing it adds up has moved.
LEMMA PeopleKeepQuiet ==
    ASSUME TypeOK, QuietInv, PeopleStep
    PROVE  QuietInv'
<1>1. UNCHANGED <<scrape, floor, last>>
  BY PeopleGrow DEF reader
<1> SUFFICES ASSUME quiet', scrape' # NotScraping PROVE QuietInv'
  BY DEF QuietInv, NotScraping
<1>2. quiet /\ UNCHANGED <<counter, bucket>> /\ KeepsClosed /\ HalfTimed' = HalfTimed
  BY PeopleQuiet
<1>3. /\ floor.names = counter /\ floor.buckets = bucket /\ ~HalfTimed
      /\ \A i \in Index : Base + i < Len(scrape) => scrape[1 + Base + i] = Cardinality(UpTo(i))
  BY <1>1, <1>2 DEF QuietInv, NotScraping
<1>4. \A i \in Index : UpTo(i)' = UpTo(i)
  BY <1>2, ClosedKept
<1> QED
  BY <1>1, <1>2, <1>3, <1>4 DEF QuietInv

\* As many are under a boundary as under the one below and between the two; under the last
\* one, which there is not, are all.
LEMMA UpToFacts ==
    ASSUME TypeOK
    PROVE  /\ UpTo(1) = InBucket(1)
           /\ \A i \in Index \ {1} :
                 Cardinality(UpTo(i)) = Cardinality(UpTo(i - 1)) + Cardinality(InBucket(i))
           /\ UpTo(Len(Bounds) + 1) = Closed
<1>1. Closed \subseteq Requests
  BY DEF Closed, InRequest
<1>2. \A r \in Closed : elapsed[r] \in Nat
  BY <1>1, ElapsedIsNat
<1>3. UpTo(1) = InBucket(1)
  <2>1. \A r \in Closed : Under(elapsed[r], 1) <=> Between(elapsed[r], 1)
    BY <1>2, BucketFacts
  <2> QED
    BY <2>1 DEF UpTo, InBucket
<1>4. ASSUME NEW i \in Index \ {1}
      PROVE  Cardinality(UpTo(i)) = Cardinality(UpTo(i - 1)) + Cardinality(InBucket(i))
  <2> DEFINE A == UpTo(i - 1)
             B == InBucket(i)
  <2>1. \A r \in Closed : /\ Under(elapsed[r], i) <=> Under(elapsed[r], i - 1) \/ Between(elapsed[r], i)
                          /\ ~(Under(elapsed[r], i - 1) /\ Between(elapsed[r], i))
    BY <1>2, BucketFacts
  <2>2. UpTo(i) = A \cup B /\ A \cap B = {}
    BY <2>1 DEF UpTo, InBucket
  <2>3. A \subseteq Requests /\ B \subseteq Requests
    BY <1>1 DEF UpTo, InBucket
  <2> HIDE DEF A, B
  <2>4. IsFiniteSet(A) /\ IsFiniteSet(B)
    BY <2>3, MetricsAssumption, FS_Subset
  <2>5. Cardinality(A \cup B) = Cardinality(A) + Cardinality(B) - Cardinality(A \cap B)
    BY <2>4, FS_Union
  <2>6. Cardinality(A \cap B) = 0
    BY <2>2, FS_EmptySet
  <2>7. Cardinality(A) \in Nat /\ Cardinality(B) \in Nat
    BY <2>4, FS_CardinalityType
  <2>8. Cardinality(UpTo(i)) = Cardinality(A) + Cardinality(B)
    BY <2>2, <2>5, <2>6, <2>7
  <2> QED
    BY <2>8 DEF A, B
<1>5. UpTo(Len(Bounds) + 1) = Closed
  <2>1. \A r \in Closed : Under(elapsed[r], Len(Bounds) + 1)
    BY IndexFacts DEF Under
  <2> QED
    BY <2>1 DEF UpTo
<1> QED
  BY <1>3, <1>4, <1>5

\* Where neither counters nor those who count move, what is counted is as true as before.
LEMMA StillCounted ==
    ASSUME TimedInv, RequestsAddUp, JobsAddUp, HistogramIsRight,
           UNCHANGED <<counter, bucket, people>>
    PROVE  TimedInv' /\ RequestsAddUp' /\ JobsAddUp' /\ HistogramIsRight'
  BY DEF TimedInv, RequestsAddUp, JobsAddUp, HistogramIsRight, InRequest, InJob, people, Between

\* A scrape begins with what is counted then.
LEMMA BeginKeeps ==
    ASSUME TypeOK, LastInv, BeginScrape
    PROVE  LastInv' /\ ScrapeInv' /\ QuietInv'
<1>1. /\ scrape' = <<0>> /\ floor' = [names |-> counter, buckets |-> bucket] /\ quiet' = ~HalfTimed
      /\ UNCHANGED <<counter, bucket, people, last>>
  BY DEF BeginScrape
<1>2. floor'.names = counter /\ floor'.buckets = bucket /\ Len(scrape') = 1
  BY <1>1
<1>3. LastInv'
  BY <1>1 DEF LastInv, Below1
<1>4. \A k \in 1..Base : ~(k < Len(scrape'))
  BY <1>2, NameFacts
<1>5. \A i \in Index : ~(Base + i < Len(scrape'))
  BY <1>2, NameFacts, IndexFacts
<1>6. HalfTimed' = HalfTimed
  BY <1>1 DEF HalfTimed, people
<1>7. QuietInv'
  BY <1>1, <1>2, <1>5, <1>6 DEF QuietInv
<1>8. \A n \in Name : last.names[n] <= counter[n] /\ counter[n] <= counter[n]
  BY NumberFacts DEF LastInv
<1>9. \A i \in Index : /\ last.buckets[i] <= Below1(last.buckets, i) + bucket[i]
                       /\ bucket[i] <= bucket[i]
  BY NumberFacts DEF LastInv
<1>10. ScrapeInv'
  BY <1>1, <1>2, <1>4, <1>5, <1>8, <1>9 DEF ScrapeInv, Below1
<1> QED
  BY <1>3, <1>7, <1>10

\* A counter that is loaded lies between what it was and what it is.
LEMMA LoadKeeps ==
    ASSUME TypeOK, LastInv, ScrapeInv, QuietInv, Load
    PROVE  LastInv' /\ ScrapeInv' /\ QuietInv'
<1>1. PICK v \in Nat : /\ Loaded(v)
                       /\ floor.names[Names[Len(scrape)]] <= v
                       /\ v <= counter[Names[Len(scrape)]]
  BY LoadFacts
<1>2. /\ scrape # NotScraping /\ Len(scrape) \in 1..Base /\ Base = 10
  BY LoadFacts, NameFacts DEF Load
<1>3. /\ Len(scrape') = Len(scrape) + 1 /\ scrape'[Len(scrape) + 1] = v
      /\ \A k \in 1..Len(scrape) : scrape'[k] = scrape[k]
      /\ UNCHANGED <<counter, bucket, people, floor, last, quiet, scrapes>>
  BY <1>1 DEF Loaded
<1>4. LastInv'
  BY <1>3 DEF LastInv, Below1
<1>5. Len(scrape) \in Nat /\ Len(scrape) <= 10
  <2>1. ASSUME NEW k \in 1..10 PROVE k \in Nat /\ k <= 10
    OBVIOUS
  <2>2. Len(scrape) \in 1..10
    BY <1>2
  <2> QED
    BY <2>1, <2>2
<1>6. \A i \in Index : ~(Base + i < Len(scrape'))
  <2> QED
    BY <1>2, <1>3, <1>5, IndexFacts
<1>7. ASSUME NEW k \in 1..Base, k < Len(scrape')
      PROVE  floor.names[Names[k]] <= scrape'[1 + k] /\ scrape'[1 + k] <= counter[Names[k]]
  <2>1. k \in Nat /\ k >= 1
    BY <1>2
  <2>2. CASE k = Len(scrape)
    <3>1. 1 + k = Len(scrape) + 1
      BY <2>1, <2>2
    <3> QED
      BY <1>1, <1>3, <2>2, <3>1
  <2>3. CASE k # Len(scrape)
    <3>1. k < Len(scrape) /\ 1 + k \in 1..Len(scrape)
      BY <1>3, <1>5, <1>7, <2>1, <2>3
    <3>2. floor.names[Names[k]] <= scrape[1 + k] /\ scrape[1 + k] <= counter[Names[k]]
      BY <1>2, <3>1 DEF ScrapeInv
    <3> QED
      BY <1>3, <3>1, <3>2
  <2> QED
    BY <2>2, <2>3
<1>8. /\ \A n \in Name : last.names[n] <= floor.names[n] /\ floor.names[n] <= counter[n]
      /\ \A i \in Index : /\ last.buckets[i] <= Below1(last.buckets, i) + floor.buckets[i]
                          /\ floor.buckets[i] <= bucket[i]
  BY <1>2 DEF ScrapeInv
<1>9. ScrapeInv'
  BY <1>3, <1>6, <1>7, <1>8 DEF ScrapeInv, Below1
<1>10. HalfTimed' = HalfTimed
  BY <1>3 DEF HalfTimed, people
<1>11. QuietInv'
  BY <1>2, <1>3, <1>6, <1>10 DEF QuietInv
<1> QED
  BY <1>4, <1>9, <1>11

\* A bucket that is loaded is added to the sum below: the new sum is no less than the last
\* one that was answered, and, among nobody, that of the requests.
LEMMA LoadBucketKeeps ==
    ASSUME TypeOK, LastInv, ScrapeInv, QuietInv, HistogramIsRight, LoadBucket
    PROVE  LastInv' /\ ScrapeInv' /\ QuietInv'
<1>1. PICK b \in Index, v \in Nat :
          /\ Len(scrape) = Base + b /\ Loaded(Summed(b) + v) /\ Summed(b) \in Nat
          /\ floor.buckets[b] <= v /\ v <= bucket[b]
  BY LoadBucketFacts
<1>2. /\ Len(scrape') = Len(scrape) + 1 /\ scrape'[Len(scrape) + 1] = Summed(b) + v
      /\ \A k \in 1..Len(scrape) : scrape'[k] = scrape[k]
      /\ UNCHANGED <<counter, bucket, people, floor, last, quiet, scrapes>>
  BY <1>1 DEF Loaded
<1>3. Base = 10 /\ b \in Nat /\ b >= 1 /\ Len(scrape) = 10 + b
  BY <1>1, NameFacts, IndexFacts
<1>4. scrape # NotScraping
  BY <1>3, NumberFacts
<1>5. LastInv'
  BY <1>2 DEF LastInv, Below1
<1>6. /\ \A n \in Name : last.names[n] <= floor.names[n] /\ floor.names[n] <= counter[n]
      /\ \A i \in Index : /\ last.buckets[i] <= Below1(last.buckets, i) + floor.buckets[i]
                          /\ floor.buckets[i] <= bucket[i]
  BY <1>4 DEF ScrapeInv
<1>7. ASSUME NEW k \in 1..Base, k < Len(scrape')
      PROVE  floor.names[Names[k]] <= scrape'[1 + k] /\ scrape'[1 + k] <= counter[Names[k]]
  <2>1. k \in 1..10
    BY <1>3
  <2>2. k < Len(scrape) /\ 1 + k \in 1..Len(scrape)
    BY <1>3, <2>1
  <2>3. floor.names[Names[k]] <= scrape[1 + k] /\ scrape[1 + k] <= counter[Names[k]]
    BY <1>4, <2>2 DEF ScrapeInv
  <2> QED
    BY <1>2, <2>2, <2>3
<1>8. \A i \in Index : i \in Nat /\ i >= 1
  BY IndexFacts
<1>9. ASSUME NEW i \in Index, Base + i < Len(scrape') PROVE i = b \/ Base + i < Len(scrape)
  BY <1>2, <1>3, <1>8, <1>9
<1>10. ASSUME NEW i \in Index, Base + i <= Len(scrape)
       PROVE  Summed(i)' = Summed(i) /\ (Base + i < Len(scrape) => scrape'[1 + Base + i] = scrape[1 + Base + i])
  <2>1. i \in Nat /\ i >= 1
    BY <1>8
  <2>2. Base + i \in 1..Len(scrape) /\ (Base + i < Len(scrape) => 1 + Base + i \in 1..Len(scrape))
    BY <1>3, <1>10, <2>1
  <2> QED
    BY <1>2, <2>2 DEF Summed
<1>11. ASSUME NEW i \in Index, Base + i < Len(scrape) PROVE Base + i <= Len(scrape)
  BY <1>3, <1>8, <1>11
<1>12. scrape'[1 + Base + b] = Summed(b) + v /\ Summed(b)' = Summed(b)
  <2>1. 1 + Base + b = Len(scrape) + 1 /\ Base + b <= Len(scrape)
    BY <1>3
  <2> QED
    BY <1>2, <1>10, <2>1
<1>13. ScrapeInv'
  <2>1. ASSUME NEW i \in Index, Base + i < Len(scrape')
        PROVE  /\ last.buckets[i] <= scrape'[1 + Base + i]
               /\ scrape'[1 + Base + i] <= Summed(i)' + bucket[i]
    <3>1. CASE Base + i < Len(scrape)
      <4>1. last.buckets[i] <= scrape[1 + Base + i] /\ scrape[1 + Base + i] <= Summed(i) + bucket[i]
        BY <1>4, <3>1 DEF ScrapeInv
      <4> QED
        BY <1>10, <1>11, <3>1, <4>1
    <3>2. CASE i = b
      <4>1. last.buckets[b] <= Below1(last.buckets, b) + floor.buckets[b]
        BY <1>6
      <4>2. Below1(last.buckets, b) \in Nat /\ Below1(last.buckets, b) <= Summed(b)
        <5>1. CASE b = 1
          BY <1>1, <5>1 DEF Below1
        <5>2. CASE b # 1
          <6>1. b - 1 \in Index
            BY <5>2, IndexFacts
          <6>2. Base + (b - 1) < Len(scrape) /\ 1 + Base + (b - 1) = Base + b
            BY <1>3
          <6>3. last.buckets[b - 1] <= scrape[Base + b] /\ last.buckets[b - 1] \in Nat
            BY <1>4, <6>1, <6>2, NumberFacts DEF ScrapeInv
          <6> QED
            BY <5>2, <6>3 DEF Below1, Summed
        <5> QED
          BY <5>1, <5>2
      <4>3. last.buckets[b] \in Nat /\ floor.buckets[b] \in Nat /\ bucket[b] \in Nat
        BY NumberFacts
      <4>4. /\ last.buckets[b] <= Summed(b) + v
            /\ Summed(b) + v <= Summed(b) + bucket[b]
        BY <1>1, <4>1, <4>2, <4>3
      <4> QED
        BY <1>12, <3>2, <4>4
    <3> QED
      BY <1>9, <2>1, <3>1, <3>2
  <2> QED
    BY <1>2, <1>6, <1>7, <2>1 DEF ScrapeInv, Below1
<1>14. QuietInv'
  <2> SUFFICES ASSUME quiet PROVE QuietInv'
    BY <1>2 DEF QuietInv
  <2>1. /\ floor.names = counter /\ floor.buckets = bucket /\ ~HalfTimed
        /\ \A i \in Index : Base + i < Len(scrape) => scrape[1 + Base + i] = Cardinality(UpTo(i))
    BY <1>4 DEF QuietInv
  <2>2. HalfTimed' = HalfTimed /\ KeepsClosed
    BY <1>2 DEF HalfTimed, people, KeepsClosed, Closed, InRequest
  <2>3. v = Cardinality(InBucket(b))
    <3>1. bucket[b] \in Nat /\ bucket[b] <= v /\ v <= bucket[b]
      BY <1>1, <2>1, NumberFacts
    <3>2. bucket[b] = Cardinality(InBucket(b))
      BY DEF HistogramIsRight, InBucket, Closed
    <3> QED
      BY <3>1, <3>2
  <2>4. Summed(b) + v = Cardinality(UpTo(b))
    <3>1. CASE b = 1
      BY <1>1, <2>3, <3>1, UpToFacts DEF Summed
    <3>2. CASE b # 1
      <4>1. b - 1 \in Index
        BY <3>2, IndexFacts
      <4>2. Base + (b - 1) < Len(scrape) /\ 1 + Base + (b - 1) = Base + b
        BY <1>3
      <4>3. Summed(b) = Cardinality(UpTo(b - 1))
        BY <2>1, <3>2, <4>1, <4>2 DEF Summed
      <4> QED
        BY <2>3, <3>2, <4>3, UpToFacts
    <3> QED
      BY <3>1, <3>2
  <2>5. ASSUME NEW i \in Index, Base + i < Len(scrape')
        PROVE  scrape'[1 + Base + i] = Cardinality(UpTo(i)')
    <3>1. UpTo(i)' = UpTo(i)
      BY <2>2, ClosedKept
    <3>2. CASE Base + i < Len(scrape)
      BY <1>10, <1>11, <2>1, <3>1, <3>2
    <3>3. CASE i = b
      BY <1>12, <2>4, <3>1, <3>3
    <3> QED
      BY <1>9, <2>5, <3>2, <3>3
  <2> QED
    BY <1>2, <2>1, <2>2, <2>5 DEF QuietInv
<1> QED
  BY <1>5, <1>13, <1>14

\* What is answered lies, counter by counter and sum by sum, between the last answer and the
\* counters.
LEMMA SnapshotBounds ==
    ASSUME TypeOK, ScrapeInv, Whole
    PROVE  /\ \A n \in Name : last.names[n] <= Snapshot.names[n] /\ Snapshot.names[n] <= counter[n]
           /\ \A i \in Index : /\ last.buckets[i] <= Snapshot.buckets[i]
                               /\ Snapshot.buckets[i] <= Below1(Snapshot.buckets, i) + bucket[i]
<1>1. Len(scrape) = Base + Len(Bounds) + 2 /\ Base = 10 /\ Len(Bounds) \in Nat
  BY NameFacts, IndexFacts DEF Whole, Base
<1>2. scrape # NotScraping
  BY <1>1, NumberFacts
<1>3. ASSUME NEW n \in Name
      PROVE  last.names[n] <= Snapshot.names[n] /\ Snapshot.names[n] <= counter[n]
  <2>1. PICK k \in 1..Base : Names[k] = n
    BY NameFacts
  <2>2. k < Len(scrape) /\ 1 + k \in 1..Len(scrape)
    BY <1>1
  <2>3. floor.names[n] <= scrape[1 + k] /\ scrape[1 + k] <= counter[n] /\ last.names[n] <= floor.names[n]
    BY <1>2, <2>1, <2>2 DEF ScrapeInv
  <2>4. floor.names[n] \in Nat /\ scrape[1 + k] \in Nat /\ last.names[n] \in Nat
    BY <2>2, NumberFacts
  <2>5. last.names[n] <= scrape[1 + k]
    BY <2>3, <2>4
  <2>6. Snapshot.names[n] = scrape[1 + k]
    BY <2>1, SnapshotFacts
  <2> QED
    BY <2>3, <2>5, <2>6
<1>4. ASSUME NEW i \in Index
      PROVE  /\ last.buckets[i] <= Snapshot.buckets[i]
             /\ Snapshot.buckets[i] <= Below1(Snapshot.buckets, i) + bucket[i]
  <2>1. i \in 1..(Len(Bounds) + 1)
    BY IndexFacts
  <2>2. Base + i < Len(scrape)
    BY <1>1, <2>1
  <2>3. last.buckets[i] <= scrape[1 + Base + i] /\ scrape[1 + Base + i] <= Summed(i) + bucket[i]
    BY <1>2, <2>2 DEF ScrapeInv
  <2>4. Summed(i) = Below1(Snapshot.buckets, i)
    <3>1. CASE i = 1
      BY <3>1 DEF Summed, Below1
    <3>2. CASE i # 1
      <4>1. i - 1 \in Index /\ 1 + Base + (i - 1) = Base + i
        BY <1>1, <2>1, <3>2, IndexFacts
      <4> QED
        BY <3>2, <4>1, SnapshotFacts DEF Summed, Below1
    <3> QED
      BY <3>1, <3>2
  <2> QED
    BY <2>3, <2>4, SnapshotFacts
<1> QED
  BY <1>3, <1>4

\* The snapshot that is answered is the last one from then on.
LEMMA EndKeeps ==
    ASSUME TypeOK, ScrapeInv, EndScrape
    PROVE  LastInv' /\ ScrapeInv' /\ QuietInv'
<1>1. /\ Whole /\ last' = Snapshot /\ scrape' = NotScraping
      /\ UNCHANGED <<counter, bucket, people, floor, quiet, scrapes>>
  BY DEF EndScrape
<1>2. /\ \A n \in Name : Snapshot.names[n] <= counter[n]
      /\ \A i \in Index : Snapshot.buckets[i] <= Below1(Snapshot.buckets, i) + bucket[i]
  BY <1>1, SnapshotBounds
<1>3. LastInv'
  BY <1>1, <1>2 DEF LastInv, Below1
<1> QED
  BY <1>1, <1>3 DEF ScrapeInv, QuietInv

\* Two sums make up CountersAddUp.
LEMMA AddUpParts == CountersAddUp <=> RequestsAddUp /\ JobsAddUp
  BY DEF CountersAddUp, RequestsAddUp, JobsAddUp

-----------------------------------------------------------------------------
(* The specification.                                                      *)

\* Nothing is counted, timed or scraped at first.
LEMMA InitIInv == Init => IInv
<1> SUFFICES ASSUME Init PROVE IInv
  OBVIOUS
<1>1. /\ counter = [n \in Name |-> 0] /\ bucket = [i \in Index |-> 0]
      /\ request = [r \in Requests |-> "new"] /\ elapsed = [r \in Requests |-> 0]
      /\ task = [r \in Requests |-> "none"] /\ job = [j \in Jobs |-> "pending"]
      /\ scrape = <<>> /\ floor = Zero /\ last = Zero /\ quiet = TRUE /\ scrapes = 0
  BY DEF Init, Zero, NotScraping
<1>2. Zero \in Counted /\ Zero.names = counter /\ Zero.buckets = bucket
  BY <1>1 DEF Zero, Counted
<1>3. TypeOK
  <2>1. <<>> \in Seq(Nat) /\ Len(<<>>) = 0 /\ Len(Names) = 10 /\ Len(Bounds) \in Nat
        /\ MaxScrapes \in Nat
    BY NameFacts, IndexFacts, MetricsAssumption DEF Base
  <2>2. 0 \in 0..MaxScrapes /\ 0 <= Len(Names) + Len(Bounds) + 2
    BY <2>1
  <2> QED
    BY <1>1, <1>2, <2>1, <2>2 DEF TypeOK
<1>4. LastInv
  <2>1. \A n \in Name : last.names[n] = 0 /\ counter[n] = 0
    BY <1>1, <1>2
  <2>2. \A i \in Index : last.buckets[i] = 0 /\ bucket[i] = 0
    BY <1>1, <1>2
  <2>3. \A i \in Index : Below1(last.buckets, i) = 0
    BY <2>2, IndexFacts DEF Below1
  <2> QED
    BY <2>1, <2>2, <2>3 DEF LastInv
<1>5. ScrapeInv /\ QuietInv
  BY <1>1 DEF ScrapeInv, QuietInv, NotScraping
<1>6. /\ InRequest({"sum", "bucket", "closed"}) = {} /\ InRequest({"open", "count"}) = {}
      /\ InJob({"claimed", "lost"}) = {} /\ InRequest({"closed"}) = {}
  BY <1>1 DEF InRequest, InJob
<1>7. Cardinality({}) = 0
  BY FS_EmptySet
<1>8. \A n \in Name : counter[n] = 0
  BY <1>1
<1>9. TimedInv /\ CountersAddUp
  BY <1>6, <1>7, <1>8, EachName DEF TimedInv, CountersAddUp
<1>10. HistogramIsRight
  <2>1. \A i \in Index : {r \in InRequest({"closed"}) : Between(elapsed[r], i)} = {}
    BY <1>6
  <2> QED
    BY <1>1, <1>7, <2>1 DEF HistogramIsRight
<1> QED
  BY <1>3, <1>4, <1>5, <1>9, <1>10 DEF IInv

\* A step counts, reads, or does nothing.
LEMMA StepCases ==
    [Next]_vars => \/ PeopleStep \/ BeginScrape \/ Load \/ LoadBucket \/ EndScrape
                   \/ UNCHANGED vars
  BY DEF Next, PeopleStep, Rest

\* Each step keeps the inductive invariant.
LEMMA NextIInv == IInv /\ [Next]_vars => IInv'
<1> SUFFICES ASSUME IInv, [Next]_vars PROVE IInv'
  OBVIOUS
<1>1. /\ TypeOK /\ LastInv /\ ScrapeInv /\ QuietInv /\ TimedInv
      /\ RequestsAddUp /\ JobsAddUp /\ HistogramIsRight
  BY AddUpParts DEF IInv
<1>2. ASSUME /\ TypeOK' /\ LastInv' /\ ScrapeInv' /\ QuietInv' /\ TimedInv'
             /\ RequestsAddUp' /\ JobsAddUp' /\ HistogramIsRight'
      PROVE  IInv'
  BY <1>2 DEF IInv, CountersAddUp, RequestsAddUp, JobsAddUp
<1>3. CASE PeopleStep
  <2>1. UNCHANGED reader /\ Grows /\ TypeOK'
    BY <1>1, <1>3, PeopleGrow, PeopleTypes
  <2>2. LastInv' /\ ScrapeInv'
    BY <1>1, <2>1, PeopleKeepLast, PeopleKeepScrape DEF reader
  <2>3. QuietInv' /\ TimedInv' /\ RequestsAddUp' /\ JobsAddUp' /\ HistogramIsRight'
    BY <1>1, <1>3, PeopleKeepQuiet, PeopleTime, PeopleSettle, PeopleFill
  <2> QED
    BY <1>2, <2>1, <2>2, <2>3
<1>4. CASE BeginScrape \/ Load \/ LoadBucket \/ EndScrape
  <2>1. TypeOK'
    BY <1>1, <1>4, ReaderTypes
  <2>2. UNCHANGED <<counter, bucket, people>>
    BY <1>4 DEF BeginScrape, Load, LoadBucket, EndScrape
  <2>3. TimedInv' /\ RequestsAddUp' /\ JobsAddUp' /\ HistogramIsRight'
    BY <1>1, <2>2, StillCounted
  <2>4. LastInv' /\ ScrapeInv' /\ QuietInv'
    BY <1>1, <1>4, BeginKeeps, LoadKeeps, LoadBucketKeeps, EndKeeps
  <2> QED
    BY <1>2, <2>1, <2>3, <2>4
<1>5. CASE UNCHANGED vars
  <2>1. /\ counter' = counter /\ bucket' = bucket /\ request' = request /\ elapsed' = elapsed
        /\ task' = task /\ job' = job /\ scrape' = scrape /\ floor' = floor /\ last' = last
        /\ quiet' = quiet /\ scrapes' = scrapes
    BY <1>5 DEF vars, people, reader
  <2>2. TypeOK'
    BY <1>1, <2>1 DEF TypeOK
  <2>3. TimedInv' /\ RequestsAddUp' /\ JobsAddUp' /\ HistogramIsRight'
    BY <1>1, <2>1, StillCounted DEF people
  <2>4. LastInv' /\ ScrapeInv'
    BY <1>1, <2>1 DEF LastInv, ScrapeInv, Below1, Summed
  <2>5. QuietInv'
    BY <1>1, <2>1 DEF QuietInv, HalfTimed, UpTo, Closed, InRequest, Under
  <2> QED
    BY <1>2, <2>2, <2>3, <2>4, <2>5
<1> QED
  BY <1>3, <1>4, <1>5, StepCases

\* The invariant holds of every state that is reached.
THEOREM Inductive == Spec => []IInv
<1> QED
  BY InitIInv, NextIInv, PTL DEF Spec

\* A scrape among nobody is of the counters, and its last sum is of all that were timed.
LEMMA QuietIsExact == IInv => QuietScrapeAddsUp
<1> SUFFICES ASSUME IInv, Whole, quiet
             PROVE  /\ Snapshot.names = counter
                    /\ Snapshot.buckets[Len(Bounds) + 1] = Snapshot.names["grpc_latency_count"]
                    /\ \A i \in Index : Snapshot.buckets[i] =
                          Cardinality({r \in InRequest({"closed"}) : Under(elapsed[r], i)})
  BY DEF QuietScrapeAddsUp
<1>1. TypeOK /\ ScrapeInv /\ QuietInv /\ TimedInv
  BY DEF IInv
<1>2. Len(scrape) = Base + Len(Bounds) + 2 /\ Base = 10 /\ Len(Bounds) \in Nat
  BY NameFacts, IndexFacts DEF Whole, Base
<1>3. scrape # NotScraping
  BY <1>1, <1>2, NumberFacts
<1>4. /\ floor.names = counter /\ ~HalfTimed
      /\ \A i \in Index : Base + i < Len(scrape) => scrape[1 + Base + i] = Cardinality(UpTo(i))
  BY <1>1, <1>3 DEF QuietInv
<1>5. ASSUME NEW n \in Name PROVE Snapshot.names[n] = counter[n]
  <2>1. PICK k \in 1..Base : Names[k] = n
    BY NameFacts
  <2>2. k < Len(scrape) /\ 1 + k \in 1..Len(scrape)
    BY <1>2
  <2>3. counter[n] <= scrape[1 + k] /\ scrape[1 + k] <= counter[n]
    BY <1>1, <1>3, <1>4, <2>1, <2>2 DEF ScrapeInv
  <2>4. counter[n] \in Nat /\ scrape[1 + k] \in Nat
    BY <1>1, <2>2, NumberFacts
  <2>5. scrape[1 + k] = counter[n]
    BY <2>3, <2>4
  <2> QED
    BY <2>1, <2>5, SnapshotFacts
<1>6. Snapshot.names = counter
  <2>1. counter = [n \in Name |-> counter[n]] /\ Snapshot.names = [n \in Name |-> Snapshot.names[n]]
    BY <1>1 DEF TypeOK, Snapshot
  <2> QED
    BY <1>5, <2>1
<1>7. ASSUME NEW i \in Index PROVE Snapshot.buckets[i] = Cardinality(UpTo(i))
  <2>1. i \in 1..(Len(Bounds) + 1)
    BY IndexFacts
  <2>2. Base + i < Len(scrape)
    BY <1>2, <2>1
  <2> QED
    BY <1>4, <2>2, SnapshotFacts
<1>8. Len(Bounds) + 1 \in Index
  BY IndexFacts
<1>9. InRequest({"sum", "bucket", "closed"}) = Closed
  BY <1>4 DEF HalfTimed, Closed, InRequest
<1>10. Snapshot.buckets[Len(Bounds) + 1] = Snapshot.names["grpc_latency_count"]
  BY <1>1, <1>6, <1>7, <1>8, <1>9, UpToFacts DEF TimedInv
<1> QED
  BY <1>6, <1>7, <1>10 DEF UpTo, Closed

\* What is counted is true, whatever is interleaved: every request is timed once, into the one
\* bucket it belongs to, every job is settled or lost, and a scrape among nobody says so.
THEOREM CountsAreTrueHolds == Spec => []CountsAreTrue
<1>1. IInv => CountsAreTrue
  BY QuietIsExact DEF IInv, CountsAreTrue
<1> QED
  BY <1>1, Inductive, PTL

\* No client ever sees a counter or a bucket fall from one scrape to the next.
THEOREM ScrapesNeverFallHolds == Spec => ScrapesNeverFall
<1> DEFINE Grow == /\ \A n \in Name : last'.names[n] >= last.names[n]
                   /\ \A i \in Index : last'.buckets[i] >= last.buckets[i]
<1>1. IInv /\ [Next]_vars => [Grow]_last
  <2> SUFFICES ASSUME IInv, [Next]_vars, last' # last PROVE Grow
    OBVIOUS
  <2>1. TypeOK /\ ScrapeInv
    BY DEF IInv
  <2>2. EndScrape
    <3>1. ASSUME PeopleStep PROVE FALSE
      BY <2>1, <3>1, PeopleGrow DEF reader
    <3>2. ~BeginScrape /\ ~Load /\ ~LoadBucket /\ ~UNCHANGED vars
      BY DEF BeginScrape, Load, LoadBucket, vars, reader
    <3> QED
      BY <3>1, <3>2, StepCases
  <2>3. Whole /\ last' = Snapshot
    BY <2>2 DEF EndScrape
  <2>4. ASSUME NEW n \in Name PROVE last'.names[n] >= last.names[n]
    <3>1. last.names[n] <= Snapshot.names[n]
      BY <2>1, <2>3, SnapshotBounds
    <3> QED
      BY <2>3, <3>1
  <2>5. ASSUME NEW i \in Index PROVE last'.buckets[i] >= last.buckets[i]
    <3>1. last.buckets[i] <= Snapshot.buckets[i]
      BY <2>1, <2>3, SnapshotBounds
    <3> QED
      BY <2>3, <3>1
  <2> QED
    BY <2>4, <2>5
<1> QED
  BY <1>1, Inductive, PTL DEF Spec, ScrapesNeverFall
=============================================================================
