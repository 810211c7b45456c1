------------------------------ MODULE LlmProofs ------------------------------
EXTENDS HttpLlm, Context, TLAPS, SequenceTheorems, FiniteSetTheorems, WellFoundedInduction

-----------------------------------------------------------------------------
(* Induction.                                                              *)

\* A set of numbers has a least one: of the intervals up to its members, one is within all.
LEMMA LeastOf ==
    ASSUME NEW S, S \subseteq Nat, S # {}
    PROVE  \E x \in S : \A y \in S : x <= y
<1> DEFINE T == {1..k : k \in S}
<1>1. IsWellFoundedOn(StrictSubsetOrdering(Nat), FiniteSubsetsOf(Nat))
  BY FS_StrictSubsetOrderingWellFounded
<1>2. T \subseteq FiniteSubsetsOf(Nat) /\ T # {}
  <2>1. \A k \in Nat : IsFiniteSet(1..k)
    BY FS_Interval
  <2>2. \A k \in Nat : 1..k \in FiniteSubsetsOf(Nat)
    BY <2>1 DEF FiniteSubsetsOf
  <2> QED
    BY <2>2
<1>3. PICK x \in T : \A y \in T : ~ (<<y, x>> \in StrictSubsetOrdering(Nat))
  BY <1>1, <1>2, WFMin
<1>4. PICK k \in S : x = 1..k
  OBVIOUS
<1>5. ASSUME NEW j \in S, j < k PROVE FALSE
  <2>1. j \in Nat /\ k \in Nat
    OBVIOUS
  <2>2. 1..j \subseteq 1..k /\ k \in 1..k /\ k \notin 1..j
    BY <1>5, <2>1
  <2>3. <<1..j, 1..k>> \in StrictSubsetOrdering(Nat)
    BY <2>1, <2>2 DEF StrictSubsetOrdering
  <2> QED
    BY <1>3, <1>4, <2>3
<1>6. \A j \in S : j \in Nat /\ k \in Nat
  OBVIOUS
<1> QED
  BY <1>5, <1>6

\* Induction: a set with 0, and with the successor of each of its numbers up to N, has all of them.
LEMMA UpTo ==
    ASSUME NEW N \in Nat, NEW S, 0 \in S,
           \A n \in 0..(N - 1) : n \in S => n + 1 \in S
    PROVE  \A n \in 0..N : n \in S
<1> DEFINE Out == {n \in 0..N : n \notin S}
<1> SUFFICES ASSUME Out # {} PROVE FALSE
  OBVIOUS
<1>1. PICK m \in Out : \A n \in Out : m <= n
  <2>1. Out \subseteq Nat
    OBVIOUS
  <2> HIDE DEF Out
  <2> QED
    BY <2>1, LeastOf
<1>2. m # 0 /\ m \in 0..N /\ m \notin S
  OBVIOUS
<1>3. m - 1 \in 0..(N - 1) /\ m - 1 \in 0..N /\ m - 1 < m /\ (m - 1) + 1 = m
  BY <1>2
<1>4. m - 1 \in S
  BY <1>1, <1>3
<1> QED
  BY <1>2, <1>3, <1>4

\* f begins with base, and each of its values is a step from the one before.
IsRecursion(f, X, base, step) ==
    /\ f \in [0..Len(step) -> X] /\ f[0] = base
    /\ \A n \in 1..Len(step) : f[n] = step[n][f[n - 1]]

\* What a recursive function over 0..N defines exists.
LEMMA Recursion ==
    ASSUME NEW X, NEW base \in X, NEW step \in Seq([X -> X])
    PROVE  \E f : IsRecursion(f, X, base, step)
<1> DEFINE N == Len(step)
<1>0. N \in Nat /\ step \in [1..N -> [X -> X]]
  OBVIOUS
<1> HIDE DEF N
<1> DEFINE Is(f, m) == \A n \in 0..m : f[n] = IF n = 0 THEN base ELSE step[n][f[n - 1]]
           S == {m \in 0..N : \E f \in [0..m -> X] : Is(f, m)}
<1>1. 0 \in S
  <2> DEFINE f == [n \in 0..0 |-> base]
  <2>1. f \in [0..0 -> X] /\ 0 \in 0..N
    BY <1>0
  <2>2. Is(f, 0)
    BY <1>0
  <2> HIDE DEF f, Is
  <2> QED
    BY <2>1, <2>2
<1>2. ASSUME NEW m \in 0..(N - 1), m \in S PROVE m + 1 \in S
  <2>1. PICK f \in [0..m -> X] : Is(f, m)
    BY <1>2
  <2> DEFINE g == [n \in 0..(m + 1) |-> IF n = m + 1 THEN step[m + 1][f[m]] ELSE f[n]]
  <2>2. m + 1 \in 1..N /\ f[m] \in X /\ step[m + 1][f[m]] \in X
    BY <1>0
  <2>3. g \in [0..(m + 1) -> X]
    BY <2>2
  <2>4. \A n \in 0..m : f[n] = IF n = 0 THEN base ELSE step[n][f[n - 1]]
    BY <2>1
  <2>5. \A n \in 0..(m + 1) : g[n] = IF n = 0 THEN base ELSE step[n][g[n - 1]]
    <3>1. \A n \in 1..m : g[n - 1] = f[n - 1]
      OBVIOUS
    <3>2. g[(m + 1) - 1] = f[m]
      OBVIOUS
    <3>3. ASSUME NEW n \in 0..(m + 1)
          PROVE  g[n] = IF n = 0 THEN base ELSE step[n][g[n - 1]]
      <4>1. CASE n = m + 1
        BY <3>2, <4>1
      <4>2. CASE n = 0
        BY <2>4, <4>2
      <4>3. CASE n \in 1..m
        <5>1. g[n] = f[n] /\ g[n - 1] = f[n - 1] /\ n \in 0..m /\ n # 0
          BY <4>3, <3>1
        <5> HIDE DEF g
        <5> QED
          BY <2>4, <5>1
      <4>4. n = m + 1 \/ n = 0 \/ n \in 1..m
        OBVIOUS
      <4> HIDE DEF g
      <4> QED
        BY <4>1, <4>2, <4>3, <4>4
    <3> QED
      BY <3>3
  <2>6. Is(g, m + 1)
    BY <2>5
  <2> HIDE DEF g, Is
  <2>7. m + 1 \in 0..N
    BY <1>0
  <2> QED
    BY <2>3, <2>6, <2>7
<1> HIDE DEF S
<1>3. \A n \in 0..N : n \in S
  BY <1>0, <1>1, <1>2, UpTo
<1>4. N \in S
  BY <1>0, <1>3
<1>5. PICK f \in [0..N -> X] : Is(f, N)
  BY <1>4 DEF S
<1>6. f[0] = base /\ \A n \in 1..N : f[n] = step[n][f[n - 1]]
  BY <1>0, <1>5
<1> QED
  BY <1>6 DEF N, IsRecursion

-----------------------------------------------------------------------------
(* The requests.                                                           *)

\* The delay of a repetition doubles with each one before it.
LEMMA MultiplierFacts ==
    /\ multiplier \in [0..MaxShift -> Nat] /\ multiplier[0] = 1
    /\ \A n \in 1..MaxShift : multiplier[n] = 2 * multiplier[n - 1]
<1> DEFINE step == [n \in 1..MaxShift |-> [x \in Nat |-> 2 * x]]
<1>0. MaxShift \in Nat
  BY HttpLlmAssumption
<1>1. step \in Seq([Nat -> Nat]) /\ Len(step) = MaxShift
  BY <1>0
<1>2. PICK f : IsRecursion(f, Nat, 1, step)
  <2> HIDE DEF step
  <2>1. 1 \in Nat
    OBVIOUS
  <2> QED
    BY <1>1, <2>1, Recursion
<1>3. f \in [0..MaxShift -> Nat] /\ f[0] = 1 /\ \A n \in 1..MaxShift : f[n] = step[n][f[n - 1]]
  BY <1>1, <1>2 DEF IsRecursion
<1>4. f = [n \in 0..MaxShift |-> IF n = 0 THEN 1 ELSE 2 * f[n - 1]]
  <2>1. \A n \in 1..MaxShift : f[n - 1] \in Nat
    BY <1>0, <1>3
  <2>2. \A n \in 1..MaxShift : f[n] = 2 * f[n - 1]
    BY <1>3, <2>1
  <2> HIDE DEF step
  <2>3. \A n \in 0..MaxShift : f[n] = IF n = 0 THEN 1 ELSE 2 * f[n - 1]
    BY <1>0, <1>3, <2>2
  <2> QED
    BY <1>3, <2>3
<1> HIDE DEF step
<1>5. multiplier = [n \in 0..MaxShift |-> IF n = 0 THEN 1 ELSE 2 * multiplier[n - 1]]
  BY <1>4 DEF multiplier
<1>6. multiplier[0] = 1
  BY <1>0, <1>5
<1>7. \A n \in 1..MaxShift : multiplier[n] = 2 * multiplier[n - 1]
  BY <1>0, <1>5
<1> DEFINE S == {n \in 0..MaxShift : multiplier[n] \in Nat}
<1>8. 0 \in S
  BY <1>0, <1>6
<1>9. ASSUME NEW n \in 0..(MaxShift - 1), n \in S PROVE n + 1 \in S
  <2>1. n + 1 \in 1..MaxShift /\ (n + 1) - 1 = n /\ multiplier[n] \in Nat
    BY <1>0, <1>9
  <2>2. multiplier[n + 1] = 2 * multiplier[n]
    BY <1>7, <2>1
  <2> QED
    BY <2>1, <2>2
<1> HIDE DEF S
<1>10. \A n \in 0..MaxShift : n \in S
  BY <1>0, <1>8, <1>9, UpTo
<1>11. \A n \in 0..MaxShift : multiplier[n] \in Nat
  BY <1>10 DEF S
<1> QED
  BY <1>5, <1>6, <1>7, <1>11

\* The attempt counts the repetitions, and every answer but the last was followed by one.
Requests ==
    /\ attempt \in 0..MaxRetries
    /\ answers \in Seq(Answers) /\ waits \in Seq(Nat)
    /\ Len(waits) = attempt
    /\ \A k \in 1..attempt : waits[k] = BaseDelay * multiplier[Min({k - 1, MaxShift})]
    /\ phase \in {"new", "request", "wait", "body", "ended"}
    /\ \A i \in 1..attempt : answers[i] \in should_retry
    /\ phase = "new" => attempt = 0
    /\ phase \in {"new", "request"} => Len(answers) = attempt
    /\ phase \in {"wait", "body"} => Len(answers) = attempt + 1
    /\ phase = "wait" => answers[attempt + 1] \in should_retry /\ attempt < MaxRetries
    /\ phase = "body" => answers[attempt + 1] \notin should_retry
    /\ phase = "ended" => \/ Len(answers) = 0 /\ attempt = 0
                          \/ /\ Len(answers) = attempt + 1
                             /\ answers[attempt + 1] \in should_retry => attempt = MaxRetries

\* The smaller of two numbers.
LEMMA MinOfTwo ==
    ASSUME NEW a \in Nat, NEW b \in Nat
    PROVE  Min({a, b}) = IF a < b THEN a ELSE b
<1> DEFINE m == IF a < b THEN a ELSE b
<1>1. m \in {a, b} /\ \A y \in {a, b} : m <= y
  OBVIOUS
<1>2. \A x \in {a, b} : (\A y \in {a, b} : x <= y) => x = m
  OBVIOUS
<1> HIDE DEF m
<1>3. Min({a, b}) = m
  BY <1>1, <1>2 DEF Min
<1> QED
  BY <1>3 DEF m

\* The requests and the delays between them are as the configuration says.
LEMMA RequestsInvariant == CallSpec => []Requests
<1>1. CallInit => Requests
  BY HttpLlmAssumption DEF CallInit, Requests
<1>2. Requests /\ [CallNext]_callVars => Requests'
  <2> SUFFICES ASSUME Requests, [CallNext]_callVars PROVE Requests'
    OBVIOUS
  <2> USE DEF Requests
  <2>1. CASE New
    BY <2>1 DEF New, End
  <2>2. ASSUME NEW a \in Answers, Answer(a) PROVE Requests'
    <3>1. /\ attempt \in Nat /\ Len(answers) = attempt /\ answers' = Append(answers, a)
          /\ UNCHANGED <<attempt, waits>> /\ phase = "request"
      BY <2>2 DEF Answer
    <3>2. /\ Len(answers') = attempt + 1 /\ answers'[attempt + 1] = a
          /\ answers' \in Seq(Answers) /\ \A i \in 1..attempt : answers'[i] = answers[i]
      BY <3>1
    <3>3. CASE Repeat(a)
      <4>1. phase' = "wait"
        BY <2>2, <3>3 DEF Answer
      <4>2. a \in should_retry /\ attempt < MaxRetries
        BY <3>3 DEF Repeat
      <4> QED
        BY <3>1, <3>2, <4>1, <4>2
    <3>4. CASE ~Repeat(a) /\ a = "success"
      <4>1. phase' = "body" /\ a \notin should_retry
        BY <2>2, <3>4 DEF Answer, should_retry
      <4> QED
        BY <3>1, <3>2, <4>1
    <3>5. CASE ~Repeat(a) /\ a # "success"
      <4>1. phase' = "ended" /\ (a \in should_retry => attempt = MaxRetries)
        BY <2>2, <3>5, HttpLlmAssumption DEF Answer, Repeat, End
      <4> QED
        BY <3>1, <3>2, <4>1
    <3> QED
      BY <3>3, <3>4, <3>5
  <2>3. CASE sleep_before_retry
    <3>1. /\ attempt \in Nat /\ MaxShift \in Nat /\ BaseDelay \in Nat /\ MaxRetries \in Nat
          /\ attempt < MaxRetries /\ Len(answers) = attempt + 1 /\ answers[attempt + 1] \in should_retry
      BY <2>3, HttpLlmAssumption DEF sleep_before_retry
    <3>2. Delay \in Nat
      <4> DEFINE m == Min({attempt, MaxShift})
      <4>1. m \in 0..MaxShift
        BY <3>1, MinOfTwo
      <4> HIDE DEF m
      <4>2. multiplier[m] \in Nat
        BY <4>1, MultiplierFacts
      <4> QED
        BY <3>1, <4>2 DEF Delay, m
    <3>3. waits' = Append(waits, Delay) /\ attempt' = attempt + 1 /\ phase' = "request" /\ UNCHANGED answers
      BY <2>3 DEF sleep_before_retry
    <3>4. /\ waits' \in Seq(Nat) /\ Len(waits') = attempt' /\ waits'[attempt + 1] = Delay
          /\ \A k \in 1..attempt : waits'[k] = waits[k]
      BY <3>1, <3>2, <3>3
    <3>5. \A k \in 1..attempt' : waits'[k] = BaseDelay * multiplier[Min({k - 1, MaxShift})]
      <4> TAKE k \in 1..attempt'
      <4>1. CASE k = attempt + 1
        <5>1. k - 1 = attempt
          BY <3>1, <4>1
        <5> QED
          BY <3>4, <4>1, <5>1 DEF Delay
      <4>2. CASE k \in 1..attempt
        BY <3>4, <4>2
      <4> QED
        BY <3>1, <3>3, <4>1, <4>2
    <3>6. \A i \in 1..attempt' : answers'[i] \in should_retry
      BY <3>1, <3>3
    <3>7. attempt' \in 0..MaxRetries
      BY <3>1, <3>3
    <3> QED
      BY <3>1, <3>3, <3>4, <3>5, <3>6, <3>7
  <2>4. CASE summarize \/ extract_memory \/ embed
    BY <2>4 DEF summarize, extract_memory, embed, End, Unread
  <2>5. CASE ReadPiece \/ TakeEvent \/ BodyEnds \/ BodyFails \/ Close
    BY <2>5 DEF ReadPiece, TakeEvent, BodyEnds, BodyFails, Close, End, Fail
  <2>6. CASE UNCHANGED callVars
    BY <2>6 DEF callVars
  <2> QED
    BY <2>1, <2>2, <2>3, <2>4, <2>5, <2>6 DEF CallNext, Call, CallEnded
<1> QED
  BY <1>1, <1>2, PTL DEF CallSpec

\* RepeatsAreRight: a call makes exactly the requests its configuration allows, a transient
\* answer being the only one that is followed by another, and waits before each repetition
\* twice as long as before the last, up to the longest delay (send_json_with_retry).
THEOREM RequestsAreRight == CallSpec => []RepeatsAreRight
<1>1. Requests => RepeatsAreRight
  <2> SUFFICES ASSUME Requests PROVE RepeatsAreRight
    OBVIOUS
  <2> USE DEF Requests
  <2>0. MaxRetries \in Nat /\ BaseDelay \in Nat /\ MaxShift \in Nat
    BY HttpLlmAssumption
  <2>1. RetriesExactly
    BY <2>0 DEF RetriesExactly, Last
  <2>2. \A k \in 1..attempt :
            LET m == IF k - 1 < MaxShift THEN k - 1 ELSE MaxShift
            IN  waits[k] = BaseDelay * multiplier[m]
    <3> TAKE k \in 1..attempt
    <3>1. k - 1 \in Nat
      OBVIOUS
    <3>2. Min({k - 1, MaxShift}) = IF k - 1 < MaxShift THEN k - 1 ELSE MaxShift
      BY <2>0, <3>1, MinOfTwo
    <3> QED
      BY <3>2
  <2>3. ASSUME NEW k \in DOMAIN waits
        PROVE  waits[k] = CASE k = 1 -> BaseDelay
                            [] k \in 2..MaxShift + 1 -> 2 * waits[k - 1]
                            [] OTHER -> waits[k - 1]
    <3>1. k \in 1..attempt /\ k \in Nat
      BY <2>3
    <3>2. CASE k = 1
      <4>1. waits[k] = BaseDelay * multiplier[0]
        BY <2>0, <2>2, <3>1, <3>2
      <4>2. waits[k] = BaseDelay
        BY <2>0, <4>1, MultiplierFacts
      <4> QED
        BY <3>2, <4>2
    <3>3. CASE k \in 2..MaxShift + 1
      <4>1. k - 1 \in 1..attempt /\ k - 1 \in 1..MaxShift /\ (k - 1) - 1 \in 0..MaxShift
        BY <2>0, <3>1, <3>3, SMTT(60)
      <4>2. waits[k] = BaseDelay * multiplier[k - 1]
        BY <2>0, <2>2, <3>1, <4>1
      <4>3. waits[k - 1] = BaseDelay * multiplier[(k - 1) - 1]
        BY <2>0, <2>2, <4>1
      <4>4. multiplier[k - 1] = 2 * multiplier[(k - 1) - 1] /\ multiplier[(k - 1) - 1] \in Nat
        BY <4>1, MultiplierFacts
      <4>5. \A x \in Nat : BaseDelay * (2 * x) = 2 * (BaseDelay * x)
        BY <2>0
      <4>6. waits[k] = 2 * waits[k - 1]
        BY <4>2, <4>3, <4>4, <4>5
      <4> QED
        BY <3>3, <4>6
    <3>4. CASE k > MaxShift + 1
      <4>1. k - 1 \in 1..attempt
        BY <2>0, <3>1, <3>4
      <4>2. waits[k] = BaseDelay * multiplier[MaxShift]
        BY <2>0, <2>2, <3>1, <3>4
      <4>3. waits[k - 1] = BaseDelay * multiplier[MaxShift]
        BY <2>0, <2>2, <3>4, <4>1
      <4>4. k # 1 /\ k \notin 2..MaxShift + 1
        BY <2>0, <3>4
      <4> QED
        BY <4>2, <4>3, <4>4
    <3> QED
      BY <2>0, <3>1, <3>2, <3>3, <3>4
  <2>4. BacksOff
    BY <2>0, <2>3 DEF BacksOff
  <2> QED
    BY <2>1, <2>4 DEF RepeatsAreRight
<1> QED
  BY <1>1, RequestsInvariant, PTL

-----------------------------------------------------------------------------
(* The stream.                                                             *)

Symbols == {"x", "l", "t", "D"}
Bytes   == Symbols \cup {"r", "n"}

\* The symbols that are sent of the last events, an event at a time.
LEMMA LastEventsFacts ==
    ASSUME NEW events \in Seq(Seq(Symbols)), NEW d \in Delimiters
    PROVE  /\ LastEvents(events, d) \in [0..Len(events) -> Seq(Bytes)]
           /\ LastEvents(events, d)[0] = <<>>
           /\ \A m \in 1..Len(events) :
                 LastEvents(events, d)[m] = events[Len(events) - m + 1] \o d \o LastEvents(events, d)[m - 1]
<1> DEFINE N == Len(events)
           piece == [m \in 1..N |-> events[N - m + 1] \o d]
           step == [m \in 1..N |-> [s \in Seq(Bytes) |-> piece[m] \o s]]
           last == LastEvents(events, d)
<1>0. N \in Nat /\ piece \in [1..N -> Seq(Bytes)]
  <2>1. N \in Nat /\ \A k \in 1..N : events[k] \in Seq(Symbols)
    OBVIOUS
  <2>2. \A k \in 1..N : events[k] \in Seq(Bytes)
    BY <2>1 DEF Bytes
  <2>3. \A m \in 1..N : N - m + 1 \in 1..N
    BY <2>1
  <2>4. d \in Seq(Bytes)
    <3>1. d = <<"n", "n">> \/ d = <<"r", "n", "r", "n">>
      BY HttpLlmAssumption
    <3>2. "n" \in Bytes /\ "r" \in Bytes
      BY DEF Bytes
    <3>3. <<"n", "n">> \in Seq(Bytes)
      BY <3>2
    <3>4. <<"r", "n", "r", "n">> \in Seq(Bytes)
      BY <3>2
    <3> QED
      BY <3>1, <3>3, <3>4
  <2> HIDE DEF N
  <2>5. \A m \in 1..N : events[N - m + 1] \o d \in Seq(Bytes)
    BY <2>2, <2>3, <2>4
  <2> QED
    BY <2>1, <2>5
<1>1. step \in Seq([Seq(Bytes) -> Seq(Bytes)]) /\ Len(step) = N
  <2> HIDE DEF N, piece
  <2>1. \A m \in 1..N : [s \in Seq(Bytes) |-> piece[m] \o s] \in [Seq(Bytes) -> Seq(Bytes)]
    BY <1>0
  <2> QED
    BY <1>0, <2>1
<1>2. PICK f : IsRecursion(f, Seq(Bytes), <<>>, step)
  <2> HIDE DEF step
  <2>1. <<>> \in Seq(Bytes)
    OBVIOUS
  <2> QED
    BY <1>1, <2>1, Recursion
<1>3. f \in [0..N -> Seq(Bytes)] /\ f[0] = <<>> /\ \A m \in 1..N : f[m] = step[m][f[m - 1]]
  <2> HIDE DEF step, N
  <2> QED
    BY <1>1, <1>2 DEF IsRecursion
<1>4. \A m \in 1..N : m - 1 \in 0..N /\ m \in 0..N /\ m # 0
  <2> HIDE DEF N
  <2> QED
    BY <1>0
<1>5. f = [m \in 0..N |-> IF m = 0 THEN <<>> ELSE events[N - m + 1] \o d \o f[m - 1]]
  <2>1. \A m \in 1..N : f[m] = piece[m] \o f[m - 1]
    <3> HIDE DEF N, piece
    <3>1. \A m \in 1..N : f[m - 1] \in Seq(Bytes)
      BY <1>3, <1>4
    <3> QED
      BY <1>3, <3>1
  <2>2. ASSUME NEW m \in 0..N
        PROVE  f[m] = IF m = 0 THEN <<>> ELSE events[N - m + 1] \o d \o f[m - 1]
    <3>1. CASE m = 0
      BY <1>3, <3>1
    <3>2. CASE m # 0
      <4>1. m \in 1..N
        BY <3>2
      <4>2. piece[m] = events[N - m + 1] \o d
        BY <4>1
      <4> QED
        BY <2>1, <3>2, <4>1, <4>2
    <3> QED
      BY <3>1, <3>2
  <2> HIDE DEF N, step, piece
  <2> QED
    BY <1>3, <2>2
<1>6. last = [m \in 0..N |-> IF m = 0 THEN <<>> ELSE events[N - m + 1] \o d \o last[m - 1]]
  <2> HIDE DEF step
  <2> QED
    BY <1>5 DEF LastEvents
<1> HIDE DEF last, step, N
<1>7. /\ last[0] = <<>> /\ \A m \in 1..N : last[m] = events[N - m + 1] \o d \o last[m - 1]
      /\ 0 \in 0..N
  <2>1. 0 \in 0..N
    BY <1>0
  <2>2. last[0] = <<>>
    BY <1>6, <2>1
  <2>3. ASSUME NEW m \in 1..N PROVE last[m] = events[N - m + 1] \o d \o last[m - 1]
    <3>1. m \in 0..N /\ m # 0
      BY <1>4
    <3> QED
      BY <1>6, <3>1
  <2> QED
    BY <2>1, <2>2, <2>3
<1> DEFINE S == {m \in 0..N : last[m] \in Seq(Bytes)}
<1>8. 0 \in S
  <2>1. <<>> \in Seq(Bytes)
    OBVIOUS
  <2> QED
    BY <1>7, <2>1
<1>9. ASSUME NEW m \in 0..(N - 1), m \in S PROVE m + 1 \in S
  <2>1. m + 1 \in 1..N /\ m + 1 \in 0..N /\ (m + 1) - 1 = m /\ last[m] \in Seq(Bytes)
    BY <1>0, <1>9
  <2>2. last[m + 1] = piece[m + 1] \o last[(m + 1) - 1]
    <3>1. piece[m + 1] = events[N - (m + 1) + 1] \o d
      BY <2>1
    <3> QED
      BY <1>7, <2>1, <3>1
  <2>3. piece[m + 1] \in Seq(Bytes)
    BY <1>0, <2>1
  <2> HIDE DEF piece
  <2>4. last[m + 1] \in Seq(Bytes)
    BY <2>1, <2>2, <2>3
  <2> QED
    BY <2>1, <2>4
<1> HIDE DEF S
<1>10. \A m \in 0..N : m \in S
  BY <1>0, <1>8, <1>9, UpTo
<1>11. last \in [0..N -> Seq(Bytes)]
  BY <1>6, <1>10 DEF S
<1> QED
  BY <1>7, <1>11 DEF last, N

\* What is told of the first events of a body, an event at a time.
LEMMA ToldFacts ==
    ASSUME NEW events \in Seq(Seq(Symbols))
    PROVE  /\ Told(events) \in [0..Len(events) -> Seq(Seq(Symbols))]
           /\ Told(events)[0] = <<>>
           /\ \A k \in 1..Len(events) :
                 Told(events)[k] =
                    IF events[k] = <<>> \/ \E j \in 1..k : events[j] = <<"D">> THEN Told(events)[k - 1]
                    ELSE Append(Told(events)[k - 1], events[k])
<1> DEFINE N == Len(events)
           X == Seq(Seq(Symbols))
           Skip(k) == events[k] = <<>> \/ \E j \in 1..k : events[j] = <<"D">>
           step == [k \in 1..N |-> [s \in X |-> IF Skip(k) THEN s ELSE Append(s, events[k])]]
           told == Told(events)
<1>0. N \in Nat /\ <<>> \in X /\ \A k \in 1..N, s \in X : Append(s, events[k]) \in X
  OBVIOUS
<1>1. step \in Seq([X -> X]) /\ Len(step) = N
  <2> HIDE DEF N, X, Skip
  <2>1. \A k \in 1..N : [s \in X |-> IF Skip(k) THEN s ELSE Append(s, events[k])] \in [X -> X]
    BY <1>0
  <2> QED
    BY <1>0, <2>1
<1>2. PICK f : IsRecursion(f, X, <<>>, step)
  <2> HIDE DEF step, X
  <2> QED
    BY <1>0, <1>1, Recursion
<1>3. f \in [0..N -> X] /\ f[0] = <<>> /\ \A k \in 1..N : f[k] = step[k][f[k - 1]]
  <2> HIDE DEF step, N, X
  <2> QED
    BY <1>1, <1>2 DEF IsRecursion
<1>4. \A k \in 1..N : k - 1 \in 0..N /\ k \in 0..N /\ k # 0
  <2> HIDE DEF N
  <2> QED
    BY <1>0
<1>5. f = [k \in 0..N |-> IF k = 0 THEN <<>>
                          ELSE IF events[k] = <<>> \/ \E j \in 1..k : events[j] = <<"D">> THEN f[k - 1]
                          ELSE Append(f[k - 1], events[k])]
  <2>1. \A k \in 1..N : f[k] = IF Skip(k) THEN f[k - 1] ELSE Append(f[k - 1], events[k])
    <3> HIDE DEF N, X, Skip
    <3>1. \A k \in 1..N : f[k - 1] \in X
      BY <1>3, <1>4
    <3> QED
      BY <1>3, <3>1
  <2>2. ASSUME NEW k \in 0..N
        PROVE  f[k] = IF k = 0 THEN <<>> ELSE IF Skip(k) THEN f[k - 1] ELSE Append(f[k - 1], events[k])
    <3>1. CASE k = 0
      BY <1>3, <3>1
    <3>2. CASE k # 0
      <4>1. k \in 1..N
        BY <3>2
      <4> HIDE DEF Skip
      <4> QED
        BY <2>1, <3>2, <4>1
    <3> QED
      BY <3>1, <3>2
  <2> HIDE DEF N, step, X
  <2> QED
    BY <1>3, <2>2
<1>6. told = [k \in 0..N |-> IF k = 0 THEN <<>>
                             ELSE IF events[k] = <<>> \/ \E j \in 1..k : events[j] = <<"D">> THEN told[k - 1]
                             ELSE Append(told[k - 1], events[k])]
  <2> HIDE DEF step, X
  <2> QED
    BY <1>5 DEF Told
<1> HIDE DEF told, step, N, X
<1>7. /\ told[0] = <<>> /\ 0 \in 0..N
      /\ \A k \in 1..N : told[k] = IF Skip(k) THEN told[k - 1] ELSE Append(told[k - 1], events[k])
  <2>1. 0 \in 0..N
    BY <1>0
  <2>2. told[0] = <<>>
    BY <1>6, <2>1
  <2>3. ASSUME NEW k \in 1..N
        PROVE  told[k] = IF Skip(k) THEN told[k - 1] ELSE Append(told[k - 1], events[k])
    <3>1. k \in 0..N /\ k # 0
      BY <1>4
    <3> QED
      BY <1>6, <3>1
  <2> QED
    BY <2>1, <2>2, <2>3
<1> DEFINE S == {k \in 0..N : told[k] \in X}
<1>8. 0 \in S
  BY <1>0, <1>7
<1>9. ASSUME NEW k \in 0..(N - 1), k \in S PROVE k + 1 \in S
  <2>1. k + 1 \in 1..N /\ k + 1 \in 0..N /\ (k + 1) - 1 = k /\ told[k] \in X
    BY <1>0, <1>9
  <2> HIDE DEF Skip
  <2>2. told[k + 1] = told[k] \/ told[k + 1] = Append(told[k], events[k + 1])
    BY <1>7, <2>1
  <2> QED
    BY <1>0, <2>1, <2>2
<1> HIDE DEF S
<1>10. \A k \in 0..N : k \in S
  BY <1>0, <1>8, <1>9, UpTo
<1>11. told \in [0..N -> X]
  BY <1>6, <1>10 DEF S
<1> QED
  BY <1>7, <1>11 DEF told, N, X

\* What is told of fewer events is a beginning of what is told of more.
LEMMA ToldGrows ==
    ASSUME NEW events \in Seq(Seq(Symbols)), NEW k \in 0..Len(events)
    PROVE  /\ IsPrefix(Told(events)[k], Contents(events))
           /\ (\E j \in 1..k + 1 : j <= Len(events) /\ events[j] = <<"D">>) => Told(events)[k] = Contents(events)
<1> DEFINE N == Len(events)
           told == Told(events)
           Done == \E j \in 1..k + 1 : j <= N /\ events[j] = <<"D">>
           S == {i \in 0..N - k : IsPrefix(told[k], told[k + i]) /\ (Done => told[k] = told[k + i])}
<1>0. /\ N \in Nat /\ k \in 0..N /\ N - k \in Nat
      /\ told \in [0..N -> Seq(Seq(Symbols))]
      /\ \A i \in 1..N : \/ told[i] = told[i - 1]
                         \/ /\ told[i] = Append(told[i - 1], events[i])
                            /\ \A j \in 1..i : events[j] # <<"D">>
  <2>1. N \in Nat /\ N - k \in Nat
    OBVIOUS
  <2> QED
    BY <2>1, ToldFacts
<1> HIDE DEF told, N
<1>1. 0 \in S
  <2>1. k + 0 = k /\ told[k] \in Seq(Seq(Symbols)) /\ 0 \in 0..N - k
    <3>1. k \in Nat
      BY <1>0
    <3>2. k + 0 = k
      BY <3>1
    <3>3. told[k] \in Seq(Seq(Symbols))
      BY <1>0
    <3>4. 0 \in 0..N - k
      BY <1>0
    <3> QED
      BY <3>2, <3>3, <3>4
  <2>2. IsPrefix(told[k], told[k])
    BY <2>1 DEF IsPrefix
  <2> QED
    BY <2>1, <2>2
<1>2. ASSUME NEW i \in 0..(N - k - 1), i \in S PROVE i + 1 \in S
  <2>1. /\ i + 1 \in 0..N - k /\ k + i \in 0..N /\ k + (i + 1) \in 1..N /\ (k + (i + 1)) - 1 = k + i
        /\ k \in 0..N
    <3>1. N \in Nat /\ k \in Nat /\ i \in Nat /\ k <= N /\ i <= N - k - 1
      BY <1>0
    <3>2. i + 1 \in 0..N - k /\ k + i \in 0..N
      BY <3>1
    <3>3. k + (i + 1) \in 1..N /\ (k + (i + 1)) - 1 = k + i
      BY <3>1
    <3> QED
      BY <3>1, <3>2, <3>3
  <2> DEFINE s == told[k]
             t == told[k + i]
             u == told[k + (i + 1)]
  <2>2. s \in Seq(Seq(Symbols)) /\ t \in Seq(Seq(Symbols)) /\ IsPrefix(s, t) /\ (Done => s = t)
    BY <1>0, <1>2, <2>1
  <2>3. CASE u = t
    BY <2>1, <2>2, <2>3
  <2>4. CASE u = Append(t, events[k + (i + 1)]) /\ \A j \in 1..k + (i + 1) : events[j] # <<"D">>
    <3>1. ~Done
      <4>1. \A j \in 1..k + 1 : j \in 1..k + (i + 1)
        BY <1>0, <2>1, SMTT(60)
      <4> QED
        BY <2>4, <4>1
    <3> HIDE DEF s, t, u
    <3>2. IsPrefix(s, u)
      BY <2>2, <2>4, SMTT(60) DEF IsPrefix
    <3> QED
      BY <2>1, <3>1, <3>2 DEF s, t, u
  <2>5. u = t \/ (u = Append(t, events[k + (i + 1)]) /\ \A j \in 1..k + (i + 1) : events[j] # <<"D">>)
    BY <1>0, <2>1
  <2> QED
    BY <2>3, <2>4, <2>5
<1> HIDE DEF S
<1> DEFINE M == N - k
<1>3. \A i \in 0..(M - 1) : i \in S => i + 1 \in S
  BY <1>2
<1>4. M \in Nat
  BY <1>0
<1> HIDE DEF M
<1>5. \A i \in 0..M : i \in S
  BY <1>1, <1>3, <1>4, UpTo
<1>6. N - k \in S
  BY <1>4, <1>5 DEF M
<1>7. k + (N - k) = N
  BY <1>0
<1> QED
  BY <1>6, <1>7 DEF S, told, N, Contents

\* Two texts one after the other.
LEMMA Joined ==
    ASSUME NEW B, NEW s \in Seq(B), NEW t \in Seq(B)
    PROVE  /\ s \o t \in Seq(B) /\ Len(s \o t) = Len(s) + Len(t)
           /\ \A i \in 1..Len(s) : (s \o t)[i] = s[i]
           /\ \A i \in 1..Len(t) : (s \o t)[Len(s) + i] = t[i]
<1>1. /\ s \o t \in Seq(B) /\ Len(s \o t) = Len(s) + Len(t)
      /\ \A i \in 1..Len(s) + Len(t) : (s \o t)[i] = IF i <= Len(s) THEN s[i] ELSE t[i - Len(s)]
  BY ConcatProperties
<1>2. Len(s) \in Nat /\ Len(t) \in Nat
  OBVIOUS
<1>3. \A i \in 1..Len(s) : i \in 1..Len(s) + Len(t) /\ i <= Len(s)
  BY <1>2
<1>4. \A i \in 1..Len(t) : /\ Len(s) + i \in 1..Len(s) + Len(t) /\ ~(Len(s) + i <= Len(s))
                           /\ (Len(s) + i) - Len(s) = i
  BY <1>2
<1> DEFINE w == s \o t
<1> HIDE DEF w
<1>5. \A i \in 1..Len(s) + Len(t) : w[i] = IF i <= Len(s) THEN s[i] ELSE t[i - Len(s)]
  BY <1>1 DEF w
<1>6. \A i \in 1..Len(s) : w[i] = s[i]
  BY <1>3, <1>5
<1>7. ASSUME NEW i \in 1..Len(t) PROVE w[Len(s) + i] = t[i]
  <2>1. w[Len(s) + i] = t[(Len(s) + i) - Len(s)]
    BY <1>4, <1>5
  <2> QED
    BY <1>4, <2>1
<1> QED
  BY <1>1, <1>6, <1>7 DEF w

\* A sequence is one over every larger set.
LEMMA SeqOfLarger ==
    ASSUME NEW A, NEW B, A \subseteq B, NEW s \in Seq(A)
    PROVE  s \in Seq(B)
<1>1. s \in [1..Len(s) -> A] /\ Len(s) \in Nat
  OBVIOUS
<1>2. s \in [1..Len(s) -> B]
  BY <1>1
<1> QED
  BY <1>1, <1>2

\* Where a line end, alone or doubled with carriage returns, begins in a text.
LEMMA StartsFacts ==
    ASSUME NEW s \in Seq(Bytes)
    PROVE  /\ Starts(<<"n", "n">>, s) =
                 {i \in 1..Len(s) : i + 1 <= Len(s) /\ s[i] = "n" /\ s[i + 1] = "n"}
           /\ Starts(<<"r", "n", "r", "n">>, s) =
                 {i \in 1..Len(s) : /\ i + 3 <= Len(s) /\ s[i] = "r" /\ s[i + 1] = "n"
                                    /\ s[i + 2] = "r" /\ s[i + 3] = "n"}
<1>1. ASSUME NEW i \in 1..(Len(s) - 2 + 1)
      PROVE  SubSeq(s, i, i + 2 - 1) = <<"n", "n">> <=> s[i] = "n" /\ s[i + 1] = "n"
  <2> DEFINE t == SubSeq(s, i, i + 2 - 1)
  <2>1. t \in Seq(Bytes) /\ Len(t) = 2 /\ t[1] = s[i] /\ t[2] = s[i + 1]
    OBVIOUS
  <2> HIDE DEF t
  <2>2. t = <<"n", "n">> <=> t[1] = "n" /\ t[2] = "n"
    BY <2>1
  <2> QED
    BY <2>1, <2>2 DEF t
<1>2. ASSUME NEW i \in 1..(Len(s) - 4 + 1)
      PROVE  SubSeq(s, i, i + 4 - 1) = <<"r", "n", "r", "n">>
                <=> s[i] = "r" /\ s[i + 1] = "n" /\ s[i + 2] = "r" /\ s[i + 3] = "n"
  <2> DEFINE t == SubSeq(s, i, i + 4 - 1)
  <2>1. t \in Seq(Bytes) /\ Len(t) = 4 /\ t[1] = s[i] /\ t[2] = s[i + 1] /\ t[3] = s[i + 2] /\ t[4] = s[i + 3]
    OBVIOUS
  <2> HIDE DEF t
  <2>2. t = <<"r", "n", "r", "n">> <=> t[1] = "r" /\ t[2] = "n" /\ t[3] = "r" /\ t[4] = "n"
    BY <2>1
  <2> QED
    BY <2>1, <2>2 DEF t
<1>3. Starts(<<"n", "n">>, s) = {i \in 1..(Len(s) - 2 + 1) : s[i] = "n" /\ s[i + 1] = "n"}
  BY <1>1 DEF Starts
<1>4. Starts(<<"r", "n", "r", "n">>, s) =
        {i \in 1..(Len(s) - 4 + 1) : s[i] = "r" /\ s[i + 1] = "n" /\ s[i + 2] = "r" /\ s[i + 3] = "n"}
  BY <1>2 DEF Starts
<1> QED
  BY <1>3, <1>4

\* The first of a set of numbers.
LEMMA FirstIs ==
    ASSUME NEW S, S \subseteq Nat, NEW k \in S, \A i \in S : k <= i
    PROVE  First(S) = k
<1>1. \A i \in S : (\A j \in S : i <= j) => i = k
  OBVIOUS
<1> QED
  BY <1>1 DEF First

\* s begins with the event e and the delimiter d, and what follows them, with t, is rest.
LineEnds == {<<"n", "n">>, <<"r", "n", "r", "n">>}
BeginsWith(s, t, e, d, rest) ==
    /\ next_sse_event(s) = <<Len(e), Len(d)>>
    /\ SubSeq(s, 1, Len(e)) = e
    /\ SubSeq(s, Len(e) + Len(d) + 1, Len(s)) \o t = rest
    /\ SubSeq(s, Len(e) + Len(d) + 1, Len(s)) \in Seq(Bytes)

\* However little of what follows an event has arrived, a buffer with a delimiter begins with
\* the event and its delimiter, and these are what next_sse_event finds.
LEMMA NextEvent ==
    ASSUME NEW e \in Seq(Symbols), NEW d \in LineEnds,
           NEW rest \in Seq(Bytes), NEW s \in Seq(Bytes), NEW t \in Seq(Bytes),
           s \o t = e \o d \o rest, HasEvent(s)
    PROVE  BeginsWith(s, t, e, d, rest)
<1> USE DEF LineEnds
<1> DEFINE w  == e \o d \o rest
           n  == Len(e)
           lf == Starts(<<"n", "n">>, s)
           crlf == Starts(<<"r", "n", "r", "n">>, s)
<1>1. /\ n \in Nat /\ Len(s) \in Nat /\ Len(t) \in Nat /\ Len(rest) \in Nat /\ Len(d) \in {2, 4}
      /\ \A i \in 1..n : e[i] \notin {"r", "n"}
  <2>1. \A i \in 1..n : e[i] \in Symbols
    OBVIOUS
  <2>2. Len(<<"n", "n">>) = 2 /\ Len(<<"r", "n", "r", "n">>) = 4
    OBVIOUS
  <2>3. Len(d) \in {2, 4}
    BY <2>2
  <2>4. \A i \in 1..n : e[i] \notin {"r", "n"}
    BY <2>1 DEF Symbols
  <2>5. n \in Nat /\ Len(s) \in Nat /\ Len(t) \in Nat /\ Len(rest) \in Nat
    OBVIOUS
  <2> HIDE DEF n
  <2> QED
    BY <2>3, <2>4, <2>5
<1>2. d \in Seq(Bytes) /\ e \in Seq(Bytes)
  <2>1. "n" \in Bytes /\ "r" \in Bytes /\ Symbols \subseteq Bytes
    BY DEF Bytes
  <2>2. <<"n", "n">> \in Seq(Bytes)
    BY <2>1
  <2>3. <<"r", "n", "r", "n">> \in Seq(Bytes)
    BY <2>1
  <2>4. d \in Seq(Bytes)
    BY <2>2, <2>3
  <2>5. e \in Seq(Bytes)
    BY <2>1, SeqOfLarger
  <2> QED
    BY <2>4, <2>5
<1>3. /\ w \in Seq(Bytes) /\ Len(w) = n + Len(d) + Len(rest)
      /\ \A i \in 1..n : w[i] = e[i]
      /\ \A i \in 1..Len(d) : w[n + i] = d[i]
      /\ \A i \in 1..Len(rest) : w[n + Len(d) + i] = rest[i]
  <2> DEFINE v == e \o d
  <2>1. /\ v \in Seq(Bytes) /\ Len(v) = n + Len(d)
        /\ \A i \in 1..n : v[i] = e[i]
        /\ \A i \in 1..Len(d) : v[n + i] = d[i]
    BY <1>2, Joined
  <2>2. w = v \o rest
    OBVIOUS
  <2> HIDE DEF v, w
  <2>3. /\ w \in Seq(Bytes) /\ Len(w) = Len(v) + Len(rest)
        /\ \A i \in 1..Len(v) : w[i] = v[i]
        /\ \A i \in 1..Len(rest) : w[Len(v) + i] = rest[i]
    <3>1. /\ v \o rest \in Seq(Bytes) /\ Len(v \o rest) = Len(v) + Len(rest)
          /\ \A i \in 1..Len(v) : (v \o rest)[i] = v[i]
          /\ \A i \in 1..Len(rest) : (v \o rest)[Len(v) + i] = rest[i]
      <4>1. v \in Seq(Bytes) /\ rest \in Seq(Bytes)
        BY <2>1
      <4> QED
        BY <4>1, Joined, SMTT(30)
    <3> QED
      BY <2>2, <3>1
  <2> HIDE DEF n
  <2>4. (\A i \in 1..n : i \in 1..Len(v)) /\ \A i \in 1..Len(d) : n + i \in 1..Len(v)
    BY <1>1, <2>1
  <2>5. \A i \in 1..n : w[i] = e[i]
    BY <2>1, <2>3, <2>4
  <2>6. \A i \in 1..Len(d) : w[n + i] = d[i]
    BY <2>1, <2>3, <2>4
  <2>7. \A i \in 1..Len(rest) : w[n + Len(d) + i] = rest[i]
    BY <2>1, <2>3
  <2>8. Len(w) = n + Len(d) + Len(rest)
    BY <2>1, <2>3
  <2> QED
    BY <2>3, <2>5, <2>6, <2>7, <2>8
<1>4. /\ Len(w) = Len(s) + Len(t) /\ \A i \in 1..Len(s) : w[i] = s[i]
      /\ \A i \in 1..Len(t) : w[Len(s) + i] = t[i]
  <2>1. w = s \o t
    OBVIOUS
  <2>2. /\ Len(s \o t) = Len(s) + Len(t) /\ \A i \in 1..Len(s) : (s \o t)[i] = s[i]
        /\ \A i \in 1..Len(t) : (s \o t)[Len(s) + i] = t[i]
    <3>1. s \in Seq(Bytes) /\ t \in Seq(Bytes)
      OBVIOUS
    <3> HIDE DEF w
    <3> QED
      BY <3>1, Joined, SMTT(60)
  <2> HIDE DEF w
  <2> QED
    BY <2>1, <2>2
<1>4a. /\ lf = {i \in 1..Len(s) : i + 1 <= Len(s) /\ s[i] = "n" /\ s[i + 1] = "n"}
       /\ crlf = {i \in 1..Len(s) : /\ i + 3 <= Len(s) /\ s[i] = "r" /\ s[i + 1] = "n"
                                    /\ s[i + 2] = "r" /\ s[i + 3] = "n"}
  BY StartsFacts
<1> HIDE DEF w, n
<1>5. n + Len(d) <= Len(s) /\ next_sse_event(s) = <<n, Len(d)>>
  <2>1. lf # {} \/ crlf # {}
    BY DEF HasEvent
  <2>2. \A i \in 1..Len(s) : s[i] \in {"r", "n"} => i > n
    BY <1>1, <1>3, <1>4
  <2> HIDE DEF lf, crlf
  <2>3. \A i \in lf : i > n /\ i + 1 <= Len(s) /\ s[i] = "n" /\ s[i + 1] = "n" /\ i \in Nat
    BY <1>4a, <2>2
  <2>4. \A i \in crlf : i > n /\ i + 3 <= Len(s) /\ s[i] = "r" /\ i \in Nat
    BY <1>4a, <2>2
  <2>5. CASE d = <<"n", "n">>
    <3>1. Len(d) = 2 /\ w[n + 1] = "n" /\ w[n + 2] = "n"
      BY <1>3, <2>5
    <3>2. n + 2 <= Len(s)
      <4>1. CASE lf # {}
        <5>1. PICK i \in lf : TRUE
          BY <4>1
        <5> QED
          BY <1>1, <2>3, <5>1
      <4>2. CASE crlf # {}
        <5>1. PICK i \in crlf : TRUE
          BY <4>2
        <5> QED
          BY <1>1, <2>4, <5>1
      <4> QED
        BY <2>1, <4>1, <4>2
    <3>3. s[n + 1] = "n" /\ s[n + 2] = "n" /\ n + 1 \in 1..Len(s) /\ (n + 1) + 1 = n + 2
      BY <1>1, <1>4, <3>1, <3>2
    <3>4. n + 1 \in lf
      BY <1>4a, <3>2, <3>3
    <3>5. First(lf) = n + 1
      <4>1. lf \subseteq Nat /\ \A i \in lf : n + 1 <= i
        BY <1>1, <2>3
      <4> QED
        BY <3>4, <4>1, FirstIs
    <3>6. ASSUME crlf # {} PROVE ~(First(crlf) < First(lf))
      <4>1. \E k \in crlf : \A j \in crlf : k <= j
        <5>1. crlf \subseteq Nat
          BY <2>4
        <5> QED
          BY <3>6, <5>1, LeastOf
      <4>2. First(crlf) \in crlf
        BY <4>1 DEF First
      <4> QED
        BY <1>1, <2>4, <3>5, <4>2
    <3>7. First(lf) - 1 = n
      BY <1>1, <3>5
    <3> QED
      BY <3>1, <3>2, <3>4, <3>6, <3>7 DEF next_sse_event, lf, crlf
  <2>6. CASE d = <<"r", "n", "r", "n">>
    <3>1. Len(d) = 4 /\ w[n + 1] = "r" /\ w[n + 2] = "n" /\ w[n + 3] = "r" /\ w[n + 4] = "n"
      BY <1>3, <2>6, SMTT(60)
    <3>2. ASSUME NEW i \in lf PROVE i >= n + 4
      <4>1. i \in 1..Len(s) /\ i + 1 \in 1..Len(s) /\ s[i] = "n" /\ s[i + 1] = "n" /\ i > n
        BY <1>1, <2>3
      <4>2. w[i] = "n" /\ w[i + 1] = "n"
        BY <1>4, <4>1
      <4>3. i # n + 1 /\ i # n + 2 /\ i # n + 3
        <5>1. i + 1 = n + 3 <=> i = n + 2
          BY <1>1, <4>1
        <5> QED
          BY <3>1, <4>2, <5>1
      <4> QED
        BY <1>1, <4>1, <4>3
    <3>3. n + 4 <= Len(s)
      BY <1>1, <2>1, <2>3, <2>4, <3>2
    <3>4. /\ s[n + 1] = "r" /\ s[n + 2] = "n" /\ s[n + 3] = "r" /\ s[n + 4] = "n"
          /\ n + 1 \in 1..Len(s) /\ (n + 1) + 1 = n + 2 /\ (n + 1) + 2 = n + 3 /\ (n + 1) + 3 = n + 4
      <4>1. n + 1 \in 1..Len(s) /\ n + 2 \in 1..Len(s) /\ n + 3 \in 1..Len(s) /\ n + 4 \in 1..Len(s)
        BY <1>1, <3>3
      <4> QED
        BY <1>1, <1>4, <3>1, <4>1
    <3>5. n + 1 \in crlf
      BY <1>4a, <3>3, <3>4
    <3>6. First(crlf) = n + 1
      <4>1. crlf \subseteq Nat /\ \A i \in crlf : n + 1 <= i
        BY <1>1, <2>4
      <4> QED
        BY <3>5, <4>1, FirstIs
    <3>7. lf # {} => First(crlf) < First(lf)
      <4> SUFFICES ASSUME lf # {} PROVE First(crlf) < First(lf)
        OBVIOUS
      <4>1. \E k \in lf : \A j \in lf : k <= j
        <5>1. lf \subseteq Nat
          BY <2>3
        <5> QED
          BY <5>1, LeastOf
      <4>2. First(lf) \in lf
        BY <4>1 DEF First
      <4> QED
        BY <1>1, <3>2, <3>6, <4>2, <2>3
    <3>8. First(crlf) - 1 = n
      BY <1>1, <3>6
    <3> QED
      BY <3>1, <3>3, <3>5, <3>7, <3>8 DEF next_sse_event, lf, crlf
  <2> QED
    BY <2>5, <2>6
<1>6. SubSeq(s, 1, n) = e
  BY <1>1, <1>3, <1>4, <1>5
<1>7. /\ SubSeq(s, n + Len(d) + 1, Len(s)) \o t = rest
      /\ SubSeq(s, n + Len(d) + 1, Len(s)) \in Seq(Bytes)
  <2> DEFINE k == n + Len(d)
             u == SubSeq(s, k + 1, Len(s))
  <2>1. k \in Nat /\ k <= Len(s)
    BY <1>1, <1>5
  <2> HIDE DEF k
  <2>2. u \in Seq(Bytes) /\ Len(u) = Len(s) - k /\ \A i \in 1..Len(s) - k : u[i] = s[k + i]
    BY <2>1
  <2>3. Len(rest) = Len(s) + Len(t) - k
    <3>1. Len(s) + Len(t) = k + Len(rest)
      BY <1>3, <1>4 DEF k
    <3> HIDE DEF u
    <3> QED
      BY <1>1, <2>1, <3>1
  <2>4. \A i \in 1..Len(rest) : rest[i] = w[k + i]
    BY <1>3 DEF k
  <2> HIDE DEF u
  <2> DEFINE v == u \o t
  <2>5. /\ v \in Seq(Bytes) /\ Len(v) = Len(rest)
        /\ \A i \in 1..Len(v) : v[i] = IF i <= Len(s) - k THEN u[i] ELSE t[i - (Len(s) - k)]
    <3>1. /\ v \in Seq(Bytes) /\ Len(v) = Len(u) + Len(t)
          /\ \A i \in 1..Len(u) + Len(t) : v[i] = IF i <= Len(u) THEN u[i] ELSE t[i - Len(u)]
      BY <2>2, ConcatProperties
    <3> HIDE DEF v
    <3> QED
      BY <1>1, <2>1, <2>2, <2>3, <3>1
  <2>6. ASSUME NEW i \in 1..Len(rest) PROVE v[i] = rest[i]
    <3>1. CASE i <= Len(s) - k
      <4>1. k + i \in 1..Len(s) /\ i \in 1..Len(s) - k
        BY <2>1, <3>1
      <4> QED
        BY <1>4, <2>2, <2>4, <2>5, <3>1, <4>1
    <3>2. CASE ~(i <= Len(s) - k)
      <4>1. i - (Len(s) - k) \in 1..Len(t) /\ Len(s) + (i - (Len(s) - k)) = k + i
        BY <2>1, <2>3, <3>2
      <4>2. w[k + i] = t[i - (Len(s) - k)]
        BY <1>4, <4>1
      <4> QED
        BY <2>4, <2>5, <3>2, <4>2
    <3> QED
      BY <3>1, <3>2
  <2> HIDE DEF v
  <2>7. v = rest
    <3>1. Len(v) \in Nat
      BY <1>1, <2>5
    <3> QED
      BY <2>5, <2>6, <3>1, SeqEqual
  <2> QED
    BY <2>2, <2>7 DEF v, u, k
<1> QED
  BY <1>5, <1>6, <1>7 DEF n, BeginsWith

\* An event that has arrived with its delimiter is found.
LEMMA EventIsFound ==
    ASSUME NEW e \in Seq(Bytes), NEW d \in {<<"n", "n">>, <<"r", "n", "r", "n">>}, NEW rest \in Seq(Bytes)
    PROVE  HasEvent(e \o d \o rest)
<1> DEFINE v == e \o d
           w == v \o rest
           n == Len(e)
<1>1. /\ n \in Nat /\ d \in Seq(Bytes) /\ (d = <<"n", "n">> => Len(d) = 2)
      /\ (d = <<"r", "n", "r", "n">> => Len(d) = 4)
  <2>1. <<"n", "n">> \in Seq(Bytes)
    BY DEF Bytes
  <2>2. <<"r", "n", "r", "n">> \in Seq(Bytes)
    BY DEF Bytes
  <2>3. n \in Nat
    OBVIOUS
  <2>4. Len(<<"n", "n">>) = 2 /\ Len(<<"r", "n", "r", "n">>) = 4
    OBVIOUS
  <2> QED
    BY <2>1, <2>2, <2>3, <2>4
<1>2. /\ v \in Seq(Bytes) /\ Len(v) = n + Len(d) /\ \A i \in 1..Len(d) : v[n + i] = d[i]
  BY <1>1, Joined, SMTT(30)
<1> HIDE DEF v
<1>3. /\ w \in Seq(Bytes) /\ Len(w) = Len(v) + Len(rest) /\ \A i \in 1..Len(v) : w[i] = v[i]
      /\ Len(rest) \in Nat
  <2>1. v \in Seq(Bytes) /\ rest \in Seq(Bytes) /\ Len(rest) \in Nat
    BY <1>2
  <2> QED
    BY <2>1, Joined, SMTT(30)
<1> HIDE DEF w, n
<1>3a. /\ Starts(<<"n", "n">>, w) = {i \in 1..Len(w) : i + 1 <= Len(w) /\ w[i] = "n" /\ w[i + 1] = "n"}
       /\ Starts(<<"r", "n", "r", "n">>, w) =
                 {i \in 1..Len(w) : /\ i + 3 <= Len(w) /\ w[i] = "r" /\ w[i + 1] = "n"
                                    /\ w[i + 2] = "r" /\ w[i + 3] = "n"}
  <2>1. w \in Seq(Bytes)
    BY <1>3
  <2> QED
    BY <2>1, StartsFacts, SMTT(30)
<1>4. CASE d = <<"n", "n">>
  <2>1. Len(d) = 2 /\ d[1] = "n" /\ d[2] = "n"
    BY <1>4
  <2>2. v[n + 1] = "n" /\ v[n + 2] = "n"
    BY <1>2, <2>1
  <2>3. n + 1 \in 1..Len(w) /\ (n + 1) + 1 <= Len(w) /\ n + 1 \in 1..Len(v) /\ n + 2 \in 1..Len(v) /\ (n + 1) + 1 = n + 2
    BY <1>1, <1>2, <1>3, <2>1
  <2>4. w[n + 1] = "n" /\ w[(n + 1) + 1] = "n"
    BY <1>3, <2>2, <2>3
  <2>5. n + 1 \in Starts(<<"n", "n">>, w)
    BY <1>3a, <2>3, <2>4
  <2> QED
    BY <2>5 DEF HasEvent, w, v
<1>5. CASE d = <<"r", "n", "r", "n">>
  <2>1. Len(d) = 4 /\ d[1] = "r" /\ d[2] = "n" /\ d[3] = "r" /\ d[4] = "n"
    BY <1>5
  <2>2. v[n + 1] = "r" /\ v[n + 2] = "n" /\ v[n + 3] = "r" /\ v[n + 4] = "n"
    BY <1>2, <2>1
  <2>3. /\ n + 1 \in 1..Len(w) /\ (n + 1) + 3 <= Len(w) /\ n + 1 \in 1..Len(v) /\ n + 2 \in 1..Len(v)
        /\ n + 3 \in 1..Len(v) /\ n + 4 \in 1..Len(v)
        /\ (n + 1) + 1 = n + 2 /\ (n + 1) + 2 = n + 3 /\ (n + 1) + 3 = n + 4
    BY <1>1, <1>2, <1>3, <2>1
  <2>4. w[n + 1] = "r" /\ w[(n + 1) + 1] = "n" /\ w[(n + 1) + 2] = "r" /\ w[(n + 1) + 3] = "n"
    BY <1>3, <2>2, <2>3
  <2>5. n + 1 \in Starts(<<"r", "n", "r", "n">>, w)
    BY <1>3a, <2>3, <2>4
  <2> QED
    BY <2>5 DEF HasEvent, w, v
<1> QED
  BY <1>4, <1>5

\* The part of s after its first a up to its n-th, and what follows that part.
AreHalves(B, b, s, a, n) ==
    /\ SubSeq(s, a + 1, n) \in Seq(B) /\ SubSeq(s, n + 1, Len(s)) \in Seq(B)
    /\ b \o SubSeq(s, a + 1, n) \in Seq(B)
    /\ (b \o SubSeq(s, a + 1, n)) \o SubSeq(s, n + 1, Len(s)) = b \o SubSeq(s, a + 1, Len(s))

\* A text is its beginning and the rest of it.
LEMMA Halves ==
    ASSUME NEW B, NEW b \in Seq(B), NEW s \in Seq(B), NEW a \in 0..Len(s), NEW n \in a..Len(s)
    PROVE  AreHalves(B, b, s, a, n)
<1> DEFINE N == Len(s)
           x == SubSeq(s, a + 1, n)
           y == SubSeq(s, n + 1, N)
           z == SubSeq(s, a + 1, N)
<1>1. N \in Nat /\ a \in 0..N /\ n \in a..N /\ n \in Nat
  OBVIOUS
<1>2. /\ x \in Seq(B) /\ Len(x) = n - a /\ \A i \in 1..n - a : x[i] = s[a + i]
  BY <1>1
<1>3. /\ y \in Seq(B) /\ Len(y) = N - n /\ \A i \in 1..N - n : y[i] = s[n + i]
  BY <1>1
<1>4. /\ z \in Seq(B) /\ Len(z) = N - a /\ \A i \in 1..N - a : z[i] = s[a + i]
  BY <1>1
<1> HIDE DEF x, y, z, N
<1>5. /\ x \o y \in Seq(B) /\ Len(x \o y) = Len(x) + Len(y)
      /\ \A i \in 1..Len(x) : (x \o y)[i] = x[i]
      /\ \A i \in 1..Len(y) : (x \o y)[Len(x) + i] = y[i]
  <2>1. x \in Seq(B) /\ y \in Seq(B)
    BY <1>2, <1>3
  <2> QED
    BY <2>1, Joined, SMTT(30)
<1> DEFINE w == x \o y
<1> HIDE DEF w
<1>6. w \in Seq(B) /\ Len(w) = N - a
  BY <1>1, <1>2, <1>3, <1>5 DEF w
<1>7. ASSUME NEW i \in 1..Len(w) PROVE w[i] = z[i]
  <2>1. CASE i \in 1..n - a
    <3>1. w[i] = x[i]
      BY <1>2, <1>5, <2>1 DEF w
    <3>2. i \in 1..N - a
      BY <1>1, <2>1
    <3> QED
      BY <1>2, <1>4, <2>1, <3>1, <3>2
  <2>2. CASE i \notin 1..n - a
    <3> DEFINE j == i - (n - a)
    <3>1. j \in 1..N - n /\ (n - a) + j = i /\ n + j = a + i /\ i \in 1..N - a
      BY <1>1, <1>6, <2>2
    <3> HIDE DEF j
    <3>2. w[(n - a) + j] = y[j]
      BY <1>2, <1>3, <1>5, <3>1 DEF w
    <3> QED
      BY <1>3, <1>4, <3>1, <3>2
  <2> QED
    BY <2>1, <2>2
<1>8. w = z
  BY <1>4, <1>6, <1>7, SeqEqual
<1>9. (b \o x) \o y = b \o (x \o y)
  <2>1. x \in Seq(B) /\ y \in Seq(B)
    BY <1>2, <1>3
  <2> QED
    BY <2>1, ConcatAssociative, SMTT(30)
<1>10. b \o x \in Seq(B)
  <2>1. x \in Seq(B) /\ b \in Seq(B)
    BY <1>2
  <2> QED
    BY <2>1, SMTT(30)
<1>11. (b \o x) \o y = b \o z
  BY <1>8, <1>9 DEF w
<1> QED
  BY <1>2, <1>3, <1>10, <1>11 DEF x, y, z, N, AreHalves

\* What has not been handed over is the last m events: what waits in the buffer and what has not
\* arrived are their symbols, and what has been handed over is what is told of the ones before.
AtEvent(m, d) ==
    /\ buffer \o SubSeq(sent, arrived + 1, Len(sent)) = LastEvents(body, d)[m]
    /\ yielded = Told(body)[Len(body) - m]
    /\ \A j \in 1..Len(body) - m : body[j] # <<"D">>

Streaming ==
    /\ body \in Bodies /\ op \in Ops
    /\ sent \in Seq(Bytes) /\ buffer \in Seq(Bytes) /\ arrived \in 0..Len(sent)
    /\ closed \in {"no", "whole", "early", "broken"}
    /\ outcome \in {"none", "ok", "fallback", "error"}
    /\ phase # "ended" => outcome = "none" /\ \E d \in Delimiters, m \in 0..Len(body) : AtEvent(m, d)
    /\ closed = "whole" => arrived = Len(sent)
    /\ ContentsInOrder /\ EndedWellIsWhole

\* The types of what the lemmas on bodies are about.
LEMMA BodyTypes ==
    ASSUME Streaming
    PROVE  /\ body \in Seq(Seq(Symbols)) /\ Len(body) \in Nat
           /\ Delimiters \subseteq LineEnds
  BY HttpLlmAssumption DEF Streaming, Symbols, LineEnds

\* A piece that arrives moves from what has not arrived to the buffer.
LEMMA ReadKeepsPlace ==
    ASSUME Streaming, ReadPiece
    PROVE  Streaming'
<1>0. /\ body \in Bodies /\ op \in Ops
      /\ sent \in Seq(Bytes) /\ buffer \in Seq(Bytes) /\ arrived \in 0..Len(sent)
      /\ outcome \in {"none", "ok", "fallback", "error"}
      /\ phase # "ended" => outcome = "none" /\ \E d \in Delimiters, m \in 0..Len(body) : AtEvent(m, d)
      /\ ContentsInOrder
  BY DEF Streaming
<1>1. PICK n \in arrived + 1..Len(sent) :
          /\ arrived' = n
          /\ IF Decodes(SubSeq(sent, arrived + 1, n))
             THEN buffer' = buffer \o SubSeq(sent, arrived + 1, n) /\ UNCHANGED <<phase, outcome>>
             ELSE UNCHANGED buffer /\ phase' = "ended" /\ outcome' = "error"
  BY DEF ReadPiece, End
<1>2. /\ phase = "body" /\ op = "stream" /\ closed = "no"
      /\ UNCHANGED <<op, body, sent, yielded, closed>>
  BY DEF ReadPiece
<1>3. arrived \in 0..Len(sent) /\ n \in arrived..Len(sent) /\ n \in 0..Len(sent)
  BY <1>0, <1>1
<1>4. ContentsInOrder'
  BY <1>0, <1>2 DEF ContentsInOrder
<1>5. CASE Decodes(SubSeq(sent, arrived + 1, n))
  <2>1. buffer' = buffer \o SubSeq(sent, arrived + 1, n) /\ UNCHANGED <<phase, outcome>> /\ arrived' = n
    BY <1>1, <1>5
  <2>2. PICK d \in Delimiters, m \in 0..Len(body) : AtEvent(m, d)
    BY <1>0, <1>2
  <2>3. /\ SubSeq(sent, arrived + 1, n) \in Seq(Bytes)
        /\ (buffer \o SubSeq(sent, arrived + 1, n)) \o SubSeq(sent, n + 1, Len(sent))
              = buffer \o SubSeq(sent, arrived + 1, Len(sent))
        /\ buffer \o SubSeq(sent, arrived + 1, n) \in Seq(Bytes)
    <3>1. sent \in Seq(Bytes) /\ buffer \in Seq(Bytes)
      BY <1>0
    <3> QED
      <4>1. AreHalves(Bytes, buffer, sent, arrived, n)
        BY <1>3, <3>1, Halves
      <4> QED
        BY <4>1 DEF AreHalves
  <2>4. buffer' \o SubSeq(sent', arrived' + 1, Len(sent')) = LastEvents(body, d)[m]
    BY <1>2, <2>1, <2>2, <2>3 DEF AtEvent
  <2>5. AtEvent(m, d)'
    BY <1>2, <2>2, <2>4 DEF AtEvent
  <2>6. buffer' \in Seq(Bytes)
    BY <2>1, <2>3
  <2>7. \E d1 \in Delimiters, m1 \in 0..Len(body') : AtEvent(m1, d1)'
    BY <1>2, <2>5
  <2>8. EndedWellIsWhole'
    BY <1>0, <1>2, <2>1 DEF EndedWellIsWhole
  <2> QED
    BY <1>0, <1>2, <1>3, <1>4, <2>1, <2>6, <2>7, <2>8 DEF Streaming
<1>6. CASE ~Decodes(SubSeq(sent, arrived + 1, n))
  <2>1. UNCHANGED buffer /\ phase' = "ended" /\ outcome' = "error" /\ arrived' = n
    BY <1>1, <1>6
  <2>2. EndedWellIsWhole'
    BY <2>1 DEF EndedWellIsWhole
  <2> QED
    BY <1>0, <1>2, <1>3, <1>4, <2>1, <2>2 DEF Streaming
<1> QED
  BY <1>5, <1>6

\* An event that is taken is the first of those that are left.
LEMMA TakeKeepsPlace ==
    ASSUME Streaming, TakeEvent
    PROVE  Streaming'
<1>0. /\ body \in Bodies /\ op \in Ops
      /\ sent \in Seq(Bytes) /\ buffer \in Seq(Bytes) /\ arrived \in 0..Len(sent)
      /\ closed \in {"no", "whole", "early", "broken"}
      /\ phase # "ended" => outcome = "none" /\ \E d \in Delimiters, m \in 0..Len(body) : AtEvent(m, d)
      /\ closed = "whole" => arrived = Len(sent)
  BY DEF Streaming
<1>1. /\ phase = "body" /\ op = "stream" /\ HasEvent(buffer)
      /\ UNCHANGED <<op, body, sent, arrived, closed>>
  BY DEF TakeEvent
<1>2. PICK d \in Delimiters, m \in 0..Len(body) : AtEvent(m, d)
  BY <1>0, <1>1
<1> DEFINE N == Len(body)
           t == SubSeq(sent, arrived + 1, Len(sent))
           e == body[N - m + 1]
           rest == LastEvents(body, d)[m - 1]
           next == SubSeq(buffer, Len(e) + Len(d) + 1, Len(buffer))
<1>3. /\ body \in Seq(Seq(Symbols)) /\ N \in Nat /\ m \in 0..N
      /\ d \in LineEnds
  BY BodyTypes
<1>4. t \in Seq(Bytes) /\ buffer \in Seq(Bytes) /\ sent \in Seq(Bytes)
  BY <1>0
<1>5. buffer \o t = LastEvents(body, d)[m] /\ yielded = Told(body)[N - m]
  BY <1>2 DEF AtEvent
<1>6. /\ LastEvents(body, d) \in [0..N -> Seq(Bytes)] /\ LastEvents(body, d)[0] = <<>>
      /\ \A i \in 1..N : LastEvents(body, d)[i] = body[N - i + 1] \o d \o LastEvents(body, d)[i - 1]
  BY <1>3, LastEventsFacts
<1>7. m # 0
  <2> SUFFICES ASSUME m = 0 PROVE FALSE
    OBVIOUS
  <2>1. buffer \o t = <<>>
    BY <1>5, <1>6
  <2> HIDE DEF t
  <2>2. Len(buffer) + Len(t) = 0 /\ Len(buffer) \in Nat /\ Len(t) \in Nat
    BY <1>4, <2>1
  <2>3. Len(buffer) = 0
    BY <2>2
  <2>4. buffer \in Seq(Bytes)
    BY <1>4
  <2>5. /\ \A i \in Starts(<<"n", "n">>, buffer) : i \in 1..Len(buffer)
        /\ \A i \in Starts(<<"r", "n", "r", "n">>, buffer) : i \in 1..Len(buffer)
    BY <2>4, StartsFacts
  <2> QED
    BY <1>1, <2>3, <2>5 DEF HasEvent
<1>8. m \in 1..N /\ m - 1 \in 0..N /\ N - m + 1 \in 1..N /\ N - (m - 1) = N - m + 1 /\ (N - m + 1) - 1 = N - m
  BY <1>3, <1>7
<1> HIDE DEF t
<1>9. /\ e \in Seq(Symbols) /\ rest \in Seq(Bytes) /\ buffer \o t = e \o d \o rest
  <2>1. e \in Seq(Symbols)
    BY <1>3, <1>8
  <2> HIDE DEF N
  <2>2. rest \in Seq(Bytes)
    BY <1>6, <1>8
  <2>3. buffer \o t = e \o d \o rest
    BY <1>5, <1>6, <1>8
  <2> QED
    BY <2>1, <2>2, <2>3
<1> HIDE DEF N, rest
<1>10. /\ next_sse_event(buffer) = <<Len(e), Len(d)>> /\ SubSeq(buffer, 1, Len(e)) = e
       /\ next \o t = rest /\ next \in Seq(Bytes)
  <2> HIDE DEF e
  <2>1. /\ e \in Seq(Symbols) /\ d \in LineEnds
        /\ rest \in Seq(Bytes) /\ buffer \in Seq(Bytes) /\ t \in Seq(Bytes)
        /\ buffer \o t = e \o d \o rest /\ HasEvent(buffer)
    BY <1>1, <1>3, <1>4, <1>9
  <2>2. BeginsWith(buffer, t, e, d, rest)
    BY <2>1, NextEvent
  <2> QED
    BY <2>2 DEF BeginsWith
<1> HIDE DEF e, next
<1>11. /\ buffer' = next
       /\ IF e = <<"D">> THEN phase' = "ended" /\ outcome' = "ok" ELSE UNCHANGED <<phase, outcome>>
       /\ yielded' = IF e \in {<<>>, <<"D">>} THEN yielded ELSE Append(yielded, e)
  <2>1. next_sse_event(buffer)[1] = Len(e) /\ next_sse_event(buffer)[2] = Len(d)
    BY <1>10
  <2> QED
    BY <1>10, <2>1 DEF TakeEvent, KeepRest, End, next
<1>12. \A j \in 1..N - m : body[j] # <<"D">>
  BY <1>2 DEF AtEvent, N
<1>13. Told(body)[N - m + 1] =
          IF e = <<>> \/ \E j \in 1..N - m + 1 : body[j] = <<"D">> THEN Told(body)[N - m]
          ELSE Append(Told(body)[N - m], e)
  <2>1. \A k \in 1..N : Told(body)[k] =
          IF body[k] = <<>> \/ \E j \in 1..k : body[j] = <<"D">> THEN Told(body)[k - 1]
          ELSE Append(Told(body)[k - 1], body[k])
    BY <1>3, ToldFacts DEF N
  <2> QED
    BY <1>8, <2>1 DEF e
<1>14. \A j \in 1..N - m + 1 : j \in 1..N - m \/ j = N - m + 1
  BY <1>3
<1>15. yielded' = Told(body)[N - m + 1]
  <2>1. CASE e = <<"D">>
    <3>1. \E j \in 1..N - m + 1 : body[j] = <<"D">>
      <4>1. N - m + 1 \in 1..N - m + 1
        BY <1>8
      <4> QED
        BY <2>1, <4>1 DEF e
    <3>2. yielded' = yielded
      BY <1>11, <2>1
    <3> QED
      BY <1>5, <1>13, <3>1, <3>2 DEF N
  <2>2. CASE e # <<"D">>
    <3>1. ~ \E j \in 1..N - m + 1 : body[j] = <<"D">>
      BY <1>12, <1>14, <2>2 DEF e
    <3> QED
      BY <1>5, <1>11, <1>13, <2>2, <3>1 DEF N
  <2> QED
    BY <2>1, <2>2
<1>16. IsPrefix(yielded', Contents(body)) /\ (e = <<"D">> => yielded' = Contents(body))
  <2> DEFINE k == N - m + 1
  <2>1. k \in 0..Len(body)
    BY <1>8 DEF N
  <2>2. /\ IsPrefix(Told(body)[k], Contents(body))
        /\ (\E j \in 1..k + 1 : j <= Len(body) /\ body[j] = <<"D">>) => Told(body)[k] = Contents(body)
    <3> HIDE DEF k
    <3> QED
      BY <1>3, <2>1, ToldGrows
  <2>3. k \in 1..k + 1 /\ k <= Len(body) /\ body[k] = e
    BY <1>3, <1>8 DEF N, e
  <2> HIDE DEF k
  <2>4. yielded' = Told(body)[k]
    BY <1>15 DEF k
  <2> QED
    BY <2>2, <2>3, <2>4
<1>17. ContentsInOrder'
  BY <1>1, <1>16 DEF ContentsInOrder
<1>18. CASE e = <<"D">>
  <2>1. phase' = "ended" /\ outcome' = "ok" /\ buffer' \in Seq(Bytes)
    BY <1>10, <1>11, <1>18
  <2>2. EndedWellIsWhole'
    BY <1>1, <1>16, <1>18 DEF EndedWellIsWhole
  <2> QED
    BY <1>0, <1>1, <1>17, <2>1, <2>2 DEF Streaming
<1>19. CASE e # <<"D">>
  <2>1. UNCHANGED <<phase, outcome>> /\ buffer' \in Seq(Bytes) /\ buffer' = next
    BY <1>10, <1>11, <1>19
  <2>2. EndedWellIsWhole'
    BY <1>0, <1>1, <2>1 DEF EndedWellIsWhole
  <2>3. AtEvent(m - 1, d)'
    <3>1. buffer' \o SubSeq(sent', arrived' + 1, Len(sent')) = LastEvents(body', d)[m - 1]
      BY <1>1, <1>10, <2>1 DEF t, rest
    <3>2. \A j \in 1..N - (m - 1) : body[j] # <<"D">>
      BY <1>8, <1>12, <1>14, <1>19 DEF e
    <3> QED
      BY <1>1, <1>8, <1>15, <3>1, <3>2 DEF AtEvent, N
  <2>4. \E d1 \in Delimiters, m1 \in 0..Len(body') : AtEvent(m1, d1)'
    BY <1>1, <1>8, <2>3 DEF N
  <2> QED
    BY <1>0, <1>1, <1>17, <2>1, <2>2, <2>4 DEF Streaming
<1> QED
  BY <1>18, <1>19

\* A body that ends with everything arrived and no event left has been told in whole.
LEMMA NothingIsLeft ==
    ASSUME Streaming, phase = "body", closed = "whole", ~HasEvent(buffer)
    PROVE  yielded = Contents(body)
<1>1. /\ sent \in Seq(Bytes) /\ buffer \in Seq(Bytes) /\ arrived = Len(sent)
      /\ \E d \in Delimiters, m \in 0..Len(body) : AtEvent(m, d)
  BY DEF Streaming
<1>2. PICK d \in Delimiters, m \in 0..Len(body) : AtEvent(m, d)
  BY <1>1
<1>3. SubSeq(sent, arrived + 1, Len(sent)) = <<>>
  <2>1. Len(sent) \in Nat
    BY <1>1
  <2> QED
    BY <1>1, <2>1, SubSeqEmpty
<1>4. buffer = LastEvents(body, d)[m]
  <2>1. buffer \o <<>> = buffer
    BY <1>1, ConcatEmptySeq
  <2> QED
    BY <1>2, <1>3, <2>1 DEF AtEvent
<1>5. /\ body \in Seq(Seq(Symbols)) /\ Len(body) \in Nat /\ d \in LineEnds
  BY BodyTypes
<1>6. ASSUME m # 0 PROVE FALSE
  <2> DEFINE i == Len(body) - m + 1
             rest == LastEvents(body, d)[m - 1]
  <2>1. i \in 1..Len(body) /\ m \in 1..Len(body) /\ m - 1 \in 0..Len(body)
    BY <1>5, <1>6
  <2>2. /\ buffer = body[i] \o d \o rest /\ rest \in Seq(Bytes)
    BY <1>4, <1>5, <2>1, LastEventsFacts
  <2>3. body[i] \in Seq(Symbols)
    BY <1>5, <2>1
  <2>4. body[i] \in Seq(Bytes)
    <3>1. Symbols \subseteq Bytes
      BY DEF Bytes
    <3> HIDE DEF i
    <3> QED
      BY <2>3, <3>1, SeqOfLarger
  <2> HIDE DEF i, rest
  <2>5. HasEvent(body[i] \o d \o rest)
    BY <1>5, <2>2, <2>4, EventIsFound DEF LineEnds
  <2> QED
    BY <2>2, <2>5
<1>7. Len(body) - m = Len(body)
  BY <1>5, <1>6
<1> QED
  BY <1>2, <1>7 DEF AtEvent, Contents

\* The stream is cut up as the provider meant it at every step.
LEMMA StreamingInvariant == CallSpec => []Streaming
<1>1. ASSUME CallInit PROVE Streaming
  <2>1. /\ phase = "new" /\ op \in Ops /\ body \in Bodies /\ arrived = 0 /\ buffer = <<>> /\ yielded = <<>>
        /\ closed = "no" /\ outcome = "none"
    BY <1>1 DEF CallInit
  <2>2. PICK d \in Delimiters : sent = LastEvents(body, d)[Len(body)]
    BY <1>1 DEF CallInit
  <2>3. body \in Seq(Seq(Symbols)) /\ Len(body) \in Nat
    BY <2>1, HttpLlmAssumption DEF Symbols
  <2>4. sent \in Seq(Bytes)
    <3>1. LastEvents(body, d) \in [0..Len(body) -> Seq(Bytes)]
      BY <2>3, LastEventsFacts
    <3> QED
      BY <2>2, <2>3, <3>1
  <2>5. SubSeq(sent, arrived + 1, Len(sent)) = sent
    <3>1. SubSeq(sent, 1, Len(sent)) = sent
      BY <2>4, SubSeqFull
    <3> QED
      BY <2>1, <3>1
  <2>6. buffer \o sent = sent
    BY <2>1, <2>4, ConcatEmptySeq
  <2>7. Told(body)[0] = <<>>
    BY <2>3, ToldFacts
  <2>8. AtEvent(Len(body), d)
    <3>1. Len(body) - Len(body) = 0
      BY <2>3
    <3> QED
      BY <2>1, <2>2, <2>5, <2>6, <2>7, <3>1 DEF AtEvent
  <2>9. ContentsInOrder
    <3>1. Contents(body) \in Seq(Seq(Symbols))
      <4>1. Told(body) \in [0..Len(body) -> Seq(Seq(Symbols))]
        BY <2>3, ToldFacts
      <4> QED
        BY <2>3, <4>1 DEF Contents
    <3>2. IsPrefix(<<>>, Contents(body))
      BY <3>1 DEF IsPrefix
    <3> QED
      BY <2>1, <3>2 DEF ContentsInOrder
  <2>10. EndedWellIsWhole
    BY <2>1 DEF EndedWellIsWhole
  <2>11. \E d1 \in Delimiters, m \in 0..Len(body) : AtEvent(m, d1)
    BY <2>3, <2>8
  <2>12. <<>> \in Seq(Bytes) /\ 0 \in 0..Len(sent)
    BY <2>4
  <2> QED
    BY <2>1, <2>4, <2>9, <2>10, <2>11, <2>12 DEF Streaming
<1>2. ASSUME Streaming, Requests, [CallNext]_callVars PROVE Streaming'
  <2>1. ASSUME UNCHANGED <<op, body, sent, arrived, buffer, yielded>>,
               UNCHANGED closed \/ closed' \in {"early", "broken"},
               \/ UNCHANGED <<phase, outcome>> /\ outcome # "ok"
               \/ phase # "ended" /\ phase' # "ended" /\ UNCHANGED outcome
               \/ phase' = "ended" /\ outcome' = "error"
               \/ phase' = "ended" /\ outcome' \in {"ok", "fallback"} /\ op # "stream"
        PROVE  Streaming'
    <3>1. ContentsInOrder' /\ \A m, d : AtEvent(m, d) => AtEvent(m, d)'
      BY <1>2, <2>1 DEF Streaming, ContentsInOrder, AtEvent
    <3>2. phase' # "ended" => outcome' = "none" /\ \E d \in Delimiters, m \in 0..Len(body') : AtEvent(m, d)'
      BY <1>2, <2>1, <3>1 DEF Streaming
    <3>3. EndedWellIsWhole'
      BY <1>2, <2>1 DEF Streaming, EndedWellIsWhole
    <3> QED
      BY <1>2, <2>1, <3>1, <3>2, <3>3 DEF Streaming
  <2>2. CASE New
    BY <1>2, <2>1, <2>2 DEF New, End, Streaming
  <2>3. ASSUME NEW a \in Answers, Answer(a) PROVE Streaming'
    <3>1. /\ UNCHANGED <<op, body, sent, arrived, buffer, yielded, closed>> /\ phase = "request"
          /\ (phase' \in {"wait", "body"} /\ UNCHANGED outcome) \/ (phase' = "ended" /\ outcome' = "error")
      BY <2>3 DEF Answer, End
    <3> QED
      BY <2>1, <3>1
  <2>4. CASE sleep_before_retry
    BY <1>2, <2>1, <2>4 DEF sleep_before_retry, Streaming
  <2>5. CASE summarize \/ extract_memory \/ embed
    <3>1. /\ UNCHANGED <<op, body, sent, arrived, buffer, yielded, closed>>
          /\ phase' = "ended" /\ op # "stream" /\ outcome' \in {"ok", "fallback", "error"}
      BY <2>5 DEF summarize, extract_memory, embed, End, Unread
    <3> QED
      BY <2>1, <3>1
  <2>6. CASE ReadPiece
    BY <1>2, <2>6, ReadKeepsPlace
  <2>7. CASE TakeEvent
    BY <1>2, <2>7, TakeKeepsPlace
  <2>8. CASE BodyEnds
    <3>1. /\ UNCHANGED <<op, body, sent, arrived, buffer, yielded, closed>> /\ phase = "body"
          /\ phase' = "ended" /\ outcome' = "ok" /\ closed \in {"whole", "early"} /\ ~HasEvent(buffer)
      BY <2>8 DEF BodyEnds, End, Over
    <3>2. ContentsInOrder'
      BY <1>2, <3>1 DEF Streaming, ContentsInOrder
    <3>3. closed # "early" => yielded = Contents(body)
      BY <1>2, <3>1, NothingIsLeft
    <3>4. EndedWellIsWhole'
      BY <3>1, <3>3 DEF EndedWellIsWhole
    <3> QED
      BY <1>2, <3>1, <3>2, <3>4 DEF Streaming
  <2>9. CASE BodyFails
    <3>1. /\ UNCHANGED <<op, body, sent, arrived, buffer, yielded>> /\ closed' = "broken"
          /\ phase' = "ended" /\ outcome' = "error"
      BY <2>9 DEF BodyFails, Fail, End
    <3> QED
      BY <2>1, <3>1
  <2>10. CASE Close
    <3>1. /\ UNCHANGED <<phase, op, body, sent, arrived, buffer, yielded, outcome>> /\ phase = "body"
          /\ closed' = IF arrived = Len(sent) THEN "whole" ELSE "early"
      BY <2>10 DEF Close
    <3>2. outcome = "none" /\ ContentsInOrder' /\ \A m, d : AtEvent(m, d) => AtEvent(m, d)'
      BY <1>2, <3>1 DEF Streaming, ContentsInOrder, AtEvent
    <3>3. EndedWellIsWhole'
      BY <3>1, <3>2 DEF EndedWellIsWhole
    <3>4. \E d \in Delimiters, m \in 0..Len(body') : AtEvent(m, d)'
      BY <1>2, <3>1, <3>2 DEF Streaming
    <3>5. closed' = "whole" => arrived' = Len(sent')
      BY <3>1
    <3>6. closed' \in {"no", "whole", "early", "broken"}
      BY <3>1
    <3> QED
      BY <1>2, <3>1, <3>2, <3>3, <3>4, <3>5, <3>6 DEF Streaming
  <2>11. CASE UNCHANGED callVars
    <3>1. UNCHANGED <<phase, op, body, sent, arrived, buffer, yielded, closed, outcome>>
      BY <2>11 DEF callVars
    <3>2. ContentsInOrder' /\ EndedWellIsWhole' /\ \A m, d : AtEvent(m, d) => AtEvent(m, d)'
      BY <1>2, <3>1 DEF Streaming, ContentsInOrder, EndedWellIsWhole, AtEvent
    <3>3. phase' # "ended" => outcome' = "none" /\ \E d \in Delimiters, m \in 0..Len(body') : AtEvent(m, d)'
      BY <1>2, <3>1, <3>2 DEF Streaming
    <3> QED
      BY <1>2, <3>1, <3>2, <3>3 DEF Streaming
  <2> QED
    BY <1>2, <2>2, <2>3, <2>4, <2>5, <2>6, <2>7, <2>8, <2>9, <2>10, <2>11 DEF CallNext, Call, CallEnded
<1> QED
  BY <1>1, <1>2, RequestsInvariant, PTL DEF CallSpec

\* ContentsAreTrue: however the network cuts the body, the caller gets the contents of the
\* events in order, none twice and none in parts, and all of them when the stream ends well and
\* the provider did not cut it short (stream_chat, next_sse_event).
THEOREM ContentsAreHandedOver == CallSpec => []ContentsAreTrue
<1>1. ASSUME Requests, Streaming PROVE ContentsAreTrue
  <2>1. Len(answers) <= MaxRetries + 1
    BY <1>1, HttpLlmAssumption DEF Requests
  <2>2. CallTypeOK
    BY <1>1, <2>1 DEF Requests, Streaming, CallTypeOK
  <2> QED
    BY <1>1, <2>2 DEF Streaming, ContentsAreTrue
<1> QED
  BY <1>1, RequestsInvariant, StreamingInvariant, PTL

-----------------------------------------------------------------------------
(* Sums and what fits.                                                     *)

\* f has the sums of the beginnings of s.
IsTotal(f, s) ==
    /\ f \in [0..Len(s) -> Nat] /\ f[0] = 0
    /\ \A n \in 1..Len(s) : f[n] = f[n - 1] + s[n]
    /\ Total(s) = f[Len(s)]

\* A sum is built from left to right.
LEMMA TotalIs == ASSUME NEW s \in Seq(Nat) PROVE \E f : IsTotal(f, s)
<1> DEFINE N == Len(s)
           Add(n) == [x \in Nat |-> x + s[n]]
           step == [n \in 1..N |-> Add(n)]
<1>0. N \in Nat /\ \A n \in 1..N : s[n] \in Nat
  OBVIOUS
<1> HIDE DEF N
<1>1. step \in Seq([Nat -> Nat]) /\ Len(step) = N
  <2>1. \A n \in 1..N : Add(n) \in [Nat -> Nat]
    BY <1>0
  <2> HIDE DEF Add
  <2> QED
    BY <1>0, <2>1
<1>2. PICK f : IsRecursion(f, Nat, 0, step)
  <2> HIDE DEF step
  <2> QED
    BY <1>1, Recursion
<1>3. f \in [0..N -> Nat] /\ f[0] = 0 /\ \A n \in 1..N : f[n] = step[n][f[n - 1]]
  <2> HIDE DEF step
  <2> QED
    BY <1>1, <1>2 DEF IsRecursion
<1>4. \A n \in 1..N : n - 1 \in 0..N /\ n \in 0..N /\ n # 0
  BY <1>0
<1>5. \A n \in 1..N : f[n] = f[n - 1] + s[n]
  <2>1. \A n \in 1..N : f[n - 1] \in Nat
    BY <1>3, <1>4
  <2> QED
    BY <1>3, <2>1
<1> HIDE DEF step
<1>6. f = [n \in 0..N |-> IF n = 0 THEN 0 ELSE f[n - 1] + s[n]]
  <2>1. \A n \in 0..N : f[n] = IF n = 0 THEN 0 ELSE f[n - 1] + s[n]
    BY <1>0, <1>3, <1>5
  <2> QED
    BY <1>3, <2>1
<1> DEFINE sum == CHOOSE g : g = [n \in 0..N |-> IF n = 0 THEN 0 ELSE g[n - 1] + s[n]]
<1>7. sum = [n \in 0..N |-> IF n = 0 THEN 0 ELSE sum[n - 1] + s[n]]
  BY <1>6
<1>8. Total(s) = sum[N]
  BY DEF Total, N
<1> HIDE DEF sum
<1>9. sum[0] = 0 /\ \A n \in 1..N : sum[n] = sum[n - 1] + s[n]
  BY <1>0, <1>4, <1>7
<1> DEFINE S == {n \in 0..N : sum[n] \in Nat}
<1>10. 0 \in S
  BY <1>0, <1>9
<1>11. ASSUME NEW n \in 0..(N - 1), n \in S PROVE n + 1 \in S
  <2>1. n + 1 \in 1..N /\ (n + 1) - 1 = n /\ sum[n] \in Nat /\ n + 1 \in 0..N
    BY <1>0, <1>11
  <2>2. sum[n + 1] = sum[n] + s[n + 1]
    BY <1>9, <2>1
  <2> QED
    BY <1>0, <2>1, <2>2
<1> HIDE DEF S
<1>12. \A n \in 0..N : n \in S
  BY <1>0, <1>10, <1>11, UpTo
<1>13. sum \in [0..N -> Nat]
  BY <1>7, <1>12 DEF S
<1>14. IsTotal(sum, s)
  BY <1>8, <1>9, <1>13 DEF IsTotal, N
<1> QED
  BY <1>14

\* A sum is a number.
LEMMA TotalIsNat == ASSUME NEW s \in Seq(Nat) PROVE Total(s) \in Nat
<1>1. PICK f : IsTotal(f, s)
  BY TotalIs
<1> QED
  BY <1>1 DEF IsTotal

\* A sum of fewer or smaller numbers is not greater.
LEMMA TotalGrows ==
    ASSUME NEW s \in Seq(Nat), NEW t \in Seq(Nat), Len(s) <= Len(t),
           \A i \in 1..Len(s) : s[i] <= t[i]
    PROVE  Total(s) <= Total(t)
<1>1. PICK f : IsTotal(f, s)
  BY TotalIs
<1>2. PICK g : IsTotal(g, t)
  BY TotalIs
<1> DEFINE N == Len(t)  M == Len(s)
           S == {n \in 0..N : g[n] >= f[IF n <= M THEN n ELSE M]}
<1>0. N \in Nat /\ M \in Nat /\ M <= N
  OBVIOUS
<1>3. /\ f \in [0..M -> Nat] /\ f[0] = 0 /\ (\A n \in 1..M : f[n] = f[n - 1] + s[n])
      /\ Total(s) = f[M]
      /\ g \in [0..N -> Nat] /\ g[0] = 0 /\ (\A n \in 1..N : g[n] = g[n - 1] + t[n])
      /\ Total(t) = g[N]
      /\ (\A n \in 1..N : t[n] \in Nat) /\ (\A n \in 1..M : s[n] \in Nat /\ s[n] <= t[n])
  BY <1>1, <1>2, SMTT(30) DEF IsTotal
<1> HIDE DEF N, M
<1>4. 0 \in S
  BY <1>0, <1>3
<1>5. ASSUME NEW n \in 0..(N - 1), n \in S PROVE n + 1 \in S
  <2>1. n + 1 \in 1..N /\ (n + 1) - 1 = n /\ n \in 0..N /\ n + 1 \in 0..N
    BY <1>0
  <2>2. g[n + 1] = g[n] + t[n + 1] /\ g[n] \in Nat /\ t[n + 1] \in Nat /\ g[n + 1] \in Nat
    BY <1>3, <2>1
  <2>3. CASE n + 1 <= M
    <3>1. n + 1 \in 1..M /\ n \in 0..M /\ n <= M
      BY <1>0, <2>1, <2>3
    <3>2. f[n + 1] = f[n] + s[n + 1] /\ f[n] \in Nat /\ s[n + 1] <= t[n + 1] /\ s[n + 1] \in Nat
      BY <1>3, <2>1, <3>1
    <3>3. g[n] >= f[n]
      BY <1>5, <3>1
    <3>4. g[n + 1] >= f[n + 1]
      <4> DEFINE a == g[n]  b == f[n]  c == t[n + 1]  d == s[n + 1]
      <4>1. g[n + 1] = a + c /\ f[n + 1] = b + d /\ d <= c /\ a >= b
        BY <2>2, <3>2, <3>3
      <4>2. a \in Nat /\ b \in Nat /\ c \in Nat /\ d \in Nat
        BY <2>2, <3>2
      <4> HIDE DEF a, b, c, d
      <4> QED
        BY <4>1, <4>2
    <3>5. (IF n + 1 <= M THEN n + 1 ELSE M) = n + 1
      BY <2>3
    <3> QED
      BY <2>1, <3>4, <3>5
  <2>4. CASE ~ (n + 1 <= M)
    <3>1. f[M] \in Nat /\ (n <= M => n = M)
      BY <1>0, <1>3, <2>1, <2>4
    <3>2. g[n] >= f[M]
      BY <1>5, <3>1
    <3>3. g[n + 1] >= f[M] /\ (IF n + 1 <= M THEN n + 1 ELSE M) = M
      BY <2>2, <2>4, <3>1, <3>2
    <3> QED
      BY <2>1, <3>3
  <2> QED
    BY <2>3, <2>4
<1> HIDE DEF S
<1>6. \A n \in 0..N : n \in S
  BY <1>0, <1>4, <1>5, UpTo
<1>7. N \in S
  BY <1>0, <1>6
<1>8. g[N] >= f[M]
  BY <1>0, <1>7 DEF S
<1>9. g[N] \in Nat /\ f[M] \in Nat
  BY <1>0, <1>3
<1> QED
  BY <1>3, <1>8, <1>9

\* A sum is the same from the other end.
LEMMA TotalFromEnd ==
    ASSUME NEW s \in Seq(Nat), NEW t \in Seq(Nat), Len(s) = Len(t),
           \A i \in 1..Len(t) : t[i] = s[Len(s) - i + 1]
    PROVE  Total(s) = Total(t)
<1>1. PICK f : IsTotal(f, s)
  BY TotalIs
<1>2. PICK g : IsTotal(g, t)
  BY TotalIs
<1> DEFINE N == Len(t)
           S == {n \in 0..N : g[n] + f[N - n] = f[N]}
<1>0. N \in Nat
  OBVIOUS
<1>3. /\ f \in [0..N -> Nat] /\ f[0] = 0 /\ (\A n \in 1..N : f[n] = f[n - 1] + s[n])
      /\ Total(s) = f[N]
      /\ g \in [0..N -> Nat] /\ g[0] = 0 /\ (\A n \in 1..N : g[n] = g[n - 1] + t[n])
      /\ Total(t) = g[N]
      /\ (\A n \in 1..N : t[n] \in Nat /\ s[n] \in Nat /\ t[n] = s[N - n + 1])
  <2>1. \A n \in 1..N : t[n] \in Nat /\ s[n] \in Nat /\ t[n] = s[N - n + 1]
    BY SMTT(60)
  <2>2. Len(s) = N /\ Len(t) = N
    OBVIOUS
  <2> HIDE DEF N
  <2> QED
    BY <1>1, <1>2, <2>1, <2>2 DEF IsTotal
<1> HIDE DEF N
<1>4. 0 \in S
  <2>1. f[N] \in Nat /\ N - 0 = N
    BY <1>0, <1>3
  <2> QED
    BY <1>0, <1>3, <2>1
<1>5. ASSUME NEW n \in 0..(N - 1), n \in S PROVE n + 1 \in S
  <2>1. /\ n + 1 \in 1..N /\ (n + 1) - 1 = n /\ n \in 0..N /\ n + 1 \in 0..N
        /\ N - n \in 1..N /\ N - (n + 1) = (N - n) - 1 /\ N - (n + 1) + 1 = N - n
        /\ N - n \in 0..N /\ (N - n) - 1 \in 0..N
    BY <1>0
  <2>2. g[n + 1] = g[n] + t[n + 1] /\ g[n] \in Nat /\ t[n + 1] \in Nat
    BY <1>3, <2>1
  <2>3. t[n + 1] = s[N - n] /\ s[N - n] \in Nat
    BY <1>3, <2>1
  <2>4. f[N - n] = f[(N - n) - 1] + s[N - n] /\ f[N - n] \in Nat /\ f[(N - n) - 1] \in Nat
    BY <1>3, <2>1
  <2>5. g[n] + f[N - n] = f[N]
    BY <1>5
  <2>6. g[n + 1] + f[(N - n) - 1] = f[N]
    <3> DEFINE a == g[n]  b == f[N - n]  c == f[(N - n) - 1]  d == s[N - n]
    <3>1. g[n + 1] = a + d /\ b = c + d /\ a + b = f[N]
      BY <2>2, <2>3, <2>4, <2>5
    <3>2. a \in Nat /\ b \in Nat /\ c \in Nat /\ d \in Nat
      BY <2>2, <2>3, <2>4
    <3> HIDE DEF a, b, c, d
    <3>3. g[n + 1] + c = f[N]
      BY <3>1, <3>2
    <3> QED
      BY <3>3 DEF c
  <2> QED
    BY <2>1, <2>6
<1> HIDE DEF S
<1>6. \A n \in 0..N : n \in S
  BY <1>0, <1>4, <1>5, UpTo
<1>7. N \in S
  BY <1>0, <1>6
<1>8. g[N] + f[0] = f[N] /\ g[N] \in Nat
  BY <1>0, <1>3, <1>7 DEF S
<1> QED
  BY <1>3, <1>8

\* One number more.
LEMMA TotalOfMore ==
    ASSUME NEW s \in Seq(Nat), NEW x \in Nat
    PROVE  Total(Append(s, x)) = Total(s) + x
<1> DEFINE t == Append(s, x)
<1>0. t \in Seq(Nat) /\ Len(t) = Len(s) + 1 /\ t[Len(t)] = x /\ \A i \in 1..Len(s) : t[i] = s[i]
  OBVIOUS
<1> HIDE DEF t
<1>1. PICK f : IsTotal(f, s)
  BY TotalIs
<1>2. PICK g : IsTotal(g, t)
  BY <1>0, TotalIs
<1> DEFINE N == Len(s)  S == {n \in 0..N : g[n] = f[n]}
<1>3. N \in Nat
  OBVIOUS
<1>4. /\ f \in [0..N -> Nat] /\ f[0] = 0 /\ (\A n \in 1..N : f[n] = f[n - 1] + s[n])
      /\ Total(s) = f[N]
      /\ g \in [0..N + 1 -> Nat] /\ g[0] = 0 /\ (\A n \in 1..N + 1 : g[n] = g[n - 1] + t[n])
      /\ Total(t) = g[N + 1] /\ t[N + 1] = x /\ (\A n \in 1..N : t[n] = s[n])
  BY <1>0, <1>1, <1>2 DEF IsTotal
<1> HIDE DEF N
<1>5. 0 \in S
  BY <1>3, <1>4
<1>6. ASSUME NEW n \in 0..(N - 1), n \in S PROVE n + 1 \in S
  <2>1. n + 1 \in 1..N /\ (n + 1) - 1 = n /\ n + 1 \in 1..N + 1 /\ n + 1 \in 0..N
    BY <1>3
  <2>2. g[n + 1] = g[n] + t[n + 1] /\ f[n + 1] = f[n] + s[n + 1] /\ t[n + 1] = s[n + 1]
    BY <1>4, <2>1
  <2>3. g[n] = f[n]
    BY <1>6
  <2> QED
    BY <2>1, <2>2, <2>3
<1> HIDE DEF S
<1>7. \A n \in 0..N : n \in S
  BY <1>3, <1>5, <1>6, UpTo
<1>8. g[N] = f[N]
  BY <1>3, <1>7 DEF S
<1>9. g[N + 1] = g[N] + x
  <2>1. N + 1 \in 1..N + 1 /\ (N + 1) - 1 = N
    BY <1>3
  <2> QED
    BY <1>4, <2>1
<1> QED
  BY <1>4, <1>8, <1>9 DEF t

\* got[n] is what is left and what is taken after n items.
IsFit(got, costs, budget) ==
    /\ got \in [0..Len(costs) -> [left: Nat, taken: Seq(Nat)]]
    /\ got[0] = [left |-> budget, taken |-> <<>>]
    /\ \A n \in 1..Len(costs) :
          got[n] = IF costs[n] <= got[n - 1].left
                   THEN [left |-> got[n - 1].left - costs[n], taken |-> Append(got[n - 1].taken, n)]
                   ELSE got[n - 1]
    /\ Fit(costs, budget) = got[Len(costs)].taken

\* The items are looked at one after the other.
LEMMA FitIs ==
    ASSUME NEW costs \in Seq(Nat), NEW budget \in Nat
    PROVE  \E got : IsFit(got, costs, budget)
<1> DEFINE N == Len(costs)
           X == [left: Nat, taken: Seq(Nat)]
           base == [left |-> budget, taken |-> <<>>]
           Then(n, x) == IF costs[n] <= x.left
                         THEN [left |-> x.left - costs[n], taken |-> Append(x.taken, n)] ELSE x
           Row1(n) == [x \in X |-> Then(n, x)]
           step == [n \in 1..N |-> Row1(n)]
<1>0. N \in Nat /\ base \in X /\ \A n \in 1..N, x \in X : Then(n, x) \in X
  <2>1. N \in Nat /\ \A n \in 1..N : costs[n] \in Nat /\ n \in Nat
    OBVIOUS
  <2>2. base \in X
    OBVIOUS
  <2>3. ASSUME NEW n \in 1..N, NEW x \in X PROVE Then(n, x) \in X
    <3>1. x.left \in Nat /\ x.taken \in Seq(Nat) /\ costs[n] \in Nat /\ n \in Nat
      BY <2>1
    <3>2. costs[n] <= x.left => x.left - costs[n] \in Nat
      BY <3>1
    <3>3. Append(x.taken, n) \in Seq(Nat)
      BY <3>1
    <3> QED
      BY <3>2, <3>3
  <2> QED
    BY <2>1, <2>2, <2>3
<1> HIDE DEF N, X, base, Then
<1>1. step \in Seq([X -> X]) /\ Len(step) = N
  <2>1. \A n \in 1..N : Row1(n) \in [X -> X]
    BY <1>0
  <2> HIDE DEF Row1
  <2> QED
    BY <1>0, <2>1
<1>2. PICK f : IsRecursion(f, X, base, step)
  <2> HIDE DEF step
  <2> QED
    BY <1>0, <1>1, Recursion
<1>3. f \in [0..N -> X] /\ f[0] = base /\ \A n \in 1..N : f[n] = step[n][f[n - 1]]
  <2> HIDE DEF step
  <2> QED
    BY <1>1, <1>2 DEF IsRecursion
<1>4. \A n \in 1..N : n - 1 \in 0..N /\ n \in 0..N /\ n # 0
  BY <1>0
<1>5. \A n \in 1..N : f[n] = Then(n, f[n - 1])
  <2>1. \A n \in 1..N : f[n - 1] \in X
    BY <1>3, <1>4
  <2> QED
    BY <1>3, <2>1
<1> HIDE DEF step
<1>6. f = [n \in 0..N |-> IF n = 0 THEN base ELSE Then(n, f[n - 1])]
  <2>1. \A n \in 0..N : f[n] = IF n = 0 THEN base ELSE Then(n, f[n - 1])
    BY <1>0, <1>3, <1>5
  <2> QED
    BY <1>3, <2>1
<1> DEFINE got == CHOOSE g : g = [n \in 0..N |-> IF n = 0 THEN base ELSE Then(n, g[n - 1])]
<1>7. got = [n \in 0..N |-> IF n = 0 THEN base ELSE Then(n, got[n - 1])]
  BY <1>6
<1>8. Fit(costs, budget) = got[N].taken
  BY DEF Fit, N, Then, base
<1> HIDE DEF got
<1>9. got[0] = base /\ \A n \in 1..N : got[n] = Then(n, got[n - 1])
  BY <1>0, <1>4, <1>7
<1> DEFINE S == {n \in 0..N : got[n] \in X}
<1>10. 0 \in S
  BY <1>0, <1>9
<1>11. ASSUME NEW n \in 0..(N - 1), n \in S PROVE n + 1 \in S
  <2>1. n + 1 \in 1..N /\ (n + 1) - 1 = n /\ got[n] \in X /\ n + 1 \in 0..N
    BY <1>0, <1>11
  <2>2. got[n + 1] = Then(n + 1, got[n])
    BY <1>9, <2>1
  <2> QED
    BY <1>0, <2>1, <2>2
<1> HIDE DEF S
<1>12. \A n \in 0..N : n \in S
  BY <1>0, <1>10, <1>11, UpTo
<1>13. got \in [0..N -> X]
  BY <1>7, <1>12 DEF S
<1>14. IsFit(got, costs, budget)
  BY <1>8, <1>9, <1>13 DEF IsFit, N, X, base, Then
<1> QED
  BY <1>14

CostsOf(costs, taken) == [k \in DOMAIN taken |-> costs[taken[k]]]

\* After n items: what is taken are positions up to n in their order, and with what
\* is left their costs make up the budget.
FitAt(state, costs, budget, n) ==
    /\ \A k \in 1..Len(state.taken) : state.taken[k] \in 1..n
    /\ \A j, k \in 1..Len(state.taken) : j < k => state.taken[j] < state.taken[k]
    /\ Total(CostsOf(costs, state.taken)) + state.left = budget

\* One more item taken.
LEMMA FitAppends ==
    ASSUME NEW costs \in Seq(Nat), NEW budget \in Nat, NEW n \in 0..(Len(costs) - 1),
           NEW s \in [left: Nat, taken: Seq(Nat)], FitAt(s, costs, budget, n),
           costs[n + 1] <= s.left
    PROVE  FitAt([left |-> s.left - costs[n + 1], taken |-> Append(s.taken, n + 1)], costs, budget, n + 1)
<1> DEFINE t == s.taken  more == Append(t, n + 1)  left == s.left - costs[n + 1]
<1>0. /\ t \in Seq(Nat) /\ s.left \in Nat /\ n \in Nat /\ n + 1 \in 1..Len(costs)
      /\ costs[n + 1] \in Nat /\ \A i \in 1..Len(costs) : costs[i] \in Nat
  OBVIOUS
<1>1. /\ \A k \in 1..Len(t) : t[k] \in 1..n
      /\ \A j, k \in 1..Len(t) : j < k => t[j] < t[k]
      /\ Total(CostsOf(costs, t)) + s.left = budget
  BY DEF FitAt
<1> HIDE DEF t
<1>2. /\ Len(more) = Len(t) + 1 /\ more[Len(t) + 1] = n + 1
      /\ \A k \in 1..Len(t) : more[k] = t[k]
      /\ more \in Seq(Nat) /\ Len(t) \in Nat /\ DOMAIN more = 1..Len(t) + 1 /\ DOMAIN t = 1..Len(t)
  BY <1>0
<1> HIDE DEF more
<1>3. \A k \in 1..Len(more) : k \in 1..Len(t) \/ k = Len(t) + 1
  BY <1>2
<1>a. 1..n \subseteq 1..n + 1 /\ 1..n \subseteq 1..Len(costs) /\ n + 1 \in 1..n + 1
  BY <1>0
<1>4. ASSUME NEW k \in 1..Len(more) PROVE more[k] \in 1..n + 1
  <2>1. CASE k \in 1..Len(t)
    <3>1. more[k] = t[k] /\ t[k] \in 1..n
      BY <1>1, <1>2, <2>1
    <3> QED
      BY <1>a, <3>1
  <2>2. CASE k = Len(t) + 1
    BY <1>a, <1>2, <2>2
  <2> QED
    BY <1>3, <2>1, <2>2
<1>5. ASSUME NEW j \in 1..Len(more), NEW k \in 1..Len(more), j < k PROVE more[j] < more[k]
  <2>1. j \in 1..Len(t)
    BY <1>2, <1>3, <1>5
  <2>2. CASE k \in 1..Len(t)
    BY <1>1, <1>2, <1>5, <2>1, <2>2
  <2>3. CASE k = Len(t) + 1
    <3>1. more[j] \in 1..n /\ more[k] = n + 1
      BY <1>1, <1>2, <2>1, <2>3
    <3> QED
      BY <1>0, <3>1, SMTT(60)
  <2> QED
    BY <1>3, <2>2, <2>3
<1>6. CostsOf(costs, t) \in Seq(Nat)
  <2>1. ASSUME NEW k \in 1..Len(t) PROVE costs[t[k]] \in Nat
    <3>1. t[k] \in 1..Len(costs)
      BY <1>a, <1>1
    <3> QED
      BY <1>0, <3>1
  <2> QED
    BY <1>2, <2>1, SMTT(60) DEF CostsOf
<1>7. CostsOf(costs, more) = Append(CostsOf(costs, t), costs[n + 1])
  <2> DEFINE c == CostsOf(costs, t)  d == CostsOf(costs, more)
  <2>1. Len(c) = Len(t) /\ \A k \in 1..Len(t) : c[k] = costs[t[k]]
    BY <1>2, <1>6 DEF CostsOf
  <2>2. d = [k \in 1..Len(t) + 1 |-> costs[more[k]]]
    BY <1>2 DEF CostsOf
  <2>3. ASSUME NEW k \in 1..Len(t) + 1
        PROVE  costs[more[k]] = IF k = Len(t) + 1 THEN costs[n + 1] ELSE c[k]
    <3>1. CASE k = Len(t) + 1
      BY <1>2, <3>1
    <3>2. CASE k # Len(t) + 1
      <4>1. k \in 1..Len(t)
        BY <1>2, <3>2
      <4>2. c[k] = costs[t[k]] /\ more[k] = t[k]
        BY <1>2, <2>1, <4>1
      <4> QED
        BY <3>2, <4>2
    <3> QED
      BY <3>1, <3>2
  <2>4. c \in Seq(Nat)
    BY <1>6
  <2> HIDE DEF c, d
  <2>5. Append(c, costs[n + 1]) = [k \in 1..Len(t) + 1 |-> IF k = Len(t) + 1 THEN costs[n + 1] ELSE c[k]]
    BY <1>0, <1>2, <2>1, <2>4, SMTT(60)
  <2> QED
    BY <2>2, <2>3, <2>5 DEF c, d
<1>8. Total(CostsOf(costs, more)) = Total(CostsOf(costs, t)) + costs[n + 1]
  BY <1>0, <1>6, <1>7, TotalOfMore
<1>9. Total(CostsOf(costs, more)) + left = budget
  <2>1. Total(CostsOf(costs, t)) \in Nat
    BY <1>6, TotalIsNat
  <2> QED
    BY <1>0, <1>1, <1>8, <2>1
<1> QED
  BY <1>4, <1>5, <1>9 DEF FitAt, t, more, left

\* It is so after each item.
LEMMA FitSteps ==
    ASSUME NEW costs \in Seq(Nat), NEW budget \in Nat, NEW got, IsFit(got, costs, budget)
    PROVE  \A n \in 0..Len(costs) : FitAt(got[n], costs, budget, n)
<1> DEFINE N == Len(costs)
           S == {n \in 0..N : FitAt(got[n], costs, budget, n)}
<1>0. N \in Nat
  OBVIOUS
<1>1. 0 \in S
  <2>1. got[0].taken = <<>> /\ got[0].left = budget
    BY DEF IsFit
  <2>2. CostsOf(costs, <<>>) = <<>>
    BY DEF CostsOf
  <2>3. Total(<<>>) = 0
    <3>1. <<>> \in Seq(Nat) /\ Len(<<>>) = 0
      OBVIOUS
    <3>2. PICK f : IsTotal(f, <<>>)
      BY <3>1, TotalIs
    <3> QED
      BY <3>1, <3>2 DEF IsTotal
  <2> QED
    BY <1>0, <2>1, <2>2, <2>3 DEF FitAt
<1>2. ASSUME NEW n \in 0..(N - 1), n \in S PROVE n + 1 \in S
  <2>1. n + 1 \in 1..N /\ (n + 1) - 1 = n /\ n \in 0..N /\ n + 1 \in 0..N
    BY <1>0
  <2>2. /\ got[n] \in [left: Nat, taken: Seq(Nat)] /\ FitAt(got[n], costs, budget, n)
        /\ got[n + 1] = IF costs[n + 1] <= got[n].left
                        THEN [left |-> got[n].left - costs[n + 1], taken |-> Append(got[n].taken, n + 1)]
                        ELSE got[n]
    BY <1>2, <2>1 DEF IsFit
  <2>3. CASE costs[n + 1] <= got[n].left
    <3>1. FitAt(got[n + 1], costs, budget, n + 1)
      BY <2>1, <2>2, <2>3, FitAppends
    <3> QED
      BY <2>1, <3>1
  <2>4. CASE ~ (costs[n + 1] <= got[n].left)
    <3>1. 1..n \subseteq 1..n + 1
      BY <1>0
    <3>2. FitAt(got[n], costs, budget, n + 1)
      BY <2>2, <3>1 DEF FitAt
    <3> QED
      BY <2>1, <2>2, <2>4, <3>2
  <2> QED
    BY <2>3, <2>4
<1> HIDE DEF S
<1>3. \A n \in 0..N : n \in S
  BY <1>0, <1>1, <1>2, UpTo
<1> QED
  BY <1>3 DEF S

Begins(s, t) == Len(s) <= Len(t) /\ \A k \in 1..Len(s) : s[k] = t[k]

\* What is taken stays taken.
LEMMA FitKeeps ==
    ASSUME NEW costs \in Seq(Nat), NEW budget \in Nat, NEW got, IsFit(got, costs, budget),
           NEW m \in 0..Len(costs)
    PROVE  Begins(got[m].taken, Fit(costs, budget))
<1> DEFINE N == Len(costs)
           S == {n \in 0..N : m <= n => Begins(got[m].taken, got[n].taken)}
<1>0. N \in Nat
  OBVIOUS
<1>1. 0 \in S
  <2>1. m <= 0 => got[m].taken = got[0].taken
    OBVIOUS
  <2>2. got[0].taken = <<>>
    BY DEF IsFit
  <2>3. Begins(<<>>, <<>>)
    BY DEF Begins
  <2> QED
    BY <1>0, <2>1, <2>2, <2>3
<1>2. ASSUME NEW n \in 0..(N - 1), n \in S PROVE n + 1 \in S
  <2>1. n + 1 \in 1..N /\ (n + 1) - 1 = n /\ n \in 0..N /\ n + 1 \in 0..N
    BY <1>0
  <2> DEFINE s == got[n].taken  t == got[n + 1].taken  b == got[m].taken
  <2>2. /\ s \in Seq(Nat) /\ t \in Seq(Nat) /\ b \in Seq(Nat)
        /\ t = Append(s, n + 1) \/ t = s
    <3>1. /\ got[n] \in [left: Nat, taken: Seq(Nat)] /\ got[m] \in [left: Nat, taken: Seq(Nat)]
          /\ got[n + 1] \in [left: Nat, taken: Seq(Nat)]
          /\ got[n + 1] = IF costs[n + 1] <= got[n].left
                          THEN [left |-> got[n].left - costs[n + 1], taken |-> Append(got[n].taken, n + 1)]
                          ELSE got[n]
      BY <2>1 DEF IsFit
    <3>2. got[n + 1].taken = IF costs[n + 1] <= got[n].left THEN Append(got[n].taken, n + 1)
                             ELSE got[n].taken
      BY <3>1
    <3> QED
      BY <3>1, <3>2
  <2>3. m <= n + 1 => m <= n \/ m = n + 1
    BY <2>1
  <2>4. m = n + 1 => b = t
    OBVIOUS
  <2>5. m <= n => Begins(b, s)
    BY <1>2
  <2> HIDE DEF s, t, b
  <2>6. Begins(t, t)
    BY <2>2 DEF Begins
  <2>7. Begins(b, s) => Begins(b, t)
    <3>1. CASE t = s
      BY <3>1
    <3>2. CASE t = Append(s, n + 1)
      <4>1. Len(t) = Len(s) + 1 /\ \A k \in 1..Len(s) : t[k] = s[k]
        BY <2>2, <3>2
      <4>2. Len(b) \in Nat /\ Len(s) \in Nat
        BY <2>2
      <4> QED
        <5> SUFFICES ASSUME Begins(b, s) PROVE Begins(b, t)
          OBVIOUS
        <5>1. Len(b) <= Len(s) /\ \A k \in 1..Len(b) : b[k] = s[k]
          BY DEF Begins
        <5>2. Len(b) <= Len(t)
          BY <4>1, <4>2, <5>1
        <5>3. ASSUME NEW k \in 1..Len(b) PROVE b[k] = t[k]
          <6>1. k \in 1..Len(s)
            BY <4>2, <5>1
          <6> QED
            BY <4>1, <5>1, <6>1
        <5> QED
          BY <5>2, <5>3 DEF Begins
    <3> QED
      BY <2>2, <3>1, <3>2
  <2>8. m <= n + 1 => Begins(b, t)
    BY <2>3, <2>4, <2>5, <2>6, <2>7
  <2> QED
    BY <2>1, <2>8 DEF b, t
<1> HIDE DEF S
<1>3. \A n \in 0..N : n \in S
  BY <1>0, <1>1, <1>2, UpTo
<1>4. Begins(got[m].taken, got[N].taken)
  BY <1>0, <1>3 DEF S
<1> QED
  BY <1>4 DEF IsFit

\* Position j is taken.
IsTaken(costs, budget, j) == \E k \in DOMAIN Fit(costs, budget) : Fit(costs, budget)[k] = j

\* What fits when it is looked at is taken.
LEMMA FitTakes ==
    ASSUME NEW costs \in Seq(Nat), NEW budget \in Nat, NEW got, IsFit(got, costs, budget),
           NEW j \in 1..Len(costs), costs[j] <= got[j - 1].left
    PROVE  IsTaken(costs, budget, j)
<1> DEFINE s == got[j].taken  b == got[j - 1].taken  t == Fit(costs, budget)
<1>1. j \in 0..Len(costs) /\ j - 1 \in 0..Len(costs) /\ Len(costs) \in 0..Len(costs) /\ j \in Nat
  OBVIOUS
<1>2. b \in Seq(Nat) /\ s = Append(b, j) /\ t \in Seq(Nat)
  <2>1. /\ got[j - 1] \in [left: Nat, taken: Seq(Nat)] /\ got[Len(costs)] \in [left: Nat, taken: Seq(Nat)]
        /\ got[j] = [left |-> got[j - 1].left - costs[j], taken |-> Append(got[j - 1].taken, j)]
        /\ t = got[Len(costs)].taken
    BY <1>1 DEF IsFit
  <2> HIDE DEF t
  <2> QED
    BY <2>1, SMTT(60)
<1>3. Begins(s, t)
  BY <1>1, FitKeeps
<1> HIDE DEF s, b, t
<1>4. Len(s) \in 1..Len(s) /\ s[Len(s)] = j
  BY <1>1, <1>2
<1>5. Len(s) \in 1..Len(t) /\ t[Len(s)] = j
  BY <1>2, <1>3, <1>4, SMTT(60) DEF Begins
<1>6. DOMAIN t = 1..Len(t)
  BY <1>2
<1> QED
  BY <1>5, <1>6 DEF IsTaken, t

\* What is taken is in order and costs no more than the budget.
LEMMA FitIsInOrder ==
    ASSUME NEW costs \in Seq(Nat), NEW budget \in Nat
    PROVE  /\ Fit(costs, budget) \in Seq(1..Len(costs))
           /\ \A j, k \in DOMAIN Fit(costs, budget) :
                 j < k => Fit(costs, budget)[j] < Fit(costs, budget)[k]
           /\ CostsOf(costs, Fit(costs, budget)) \in Seq(Nat)
           /\ Total(CostsOf(costs, Fit(costs, budget))) <= budget
<1> DEFINE t == Fit(costs, budget)
<1>1. PICK got : IsFit(got, costs, budget)
  BY FitIs
<1>2. /\ Len(costs) \in 0..Len(costs)
      /\ got[Len(costs)] \in [left: Nat, taken: Seq(Nat)] /\ t = got[Len(costs)].taken
  BY <1>1 DEF IsFit
<1>3. FitAt(got[Len(costs)], costs, budget, Len(costs))
  BY <1>1, <1>2, FitSteps
<1>4. /\ \A k \in 1..Len(t) : t[k] \in 1..Len(costs)
      /\ \A j, k \in 1..Len(t) : j < k => t[j] < t[k]
      /\ Total(CostsOf(costs, t)) + got[Len(costs)].left = budget
      /\ got[Len(costs)].left \in Nat /\ t \in Seq(Nat)
  BY <1>2, <1>3 DEF FitAt
<1> HIDE DEF t
<1>5. DOMAIN t = 1..Len(t) /\ Len(t) \in Nat
  BY <1>4
<1>6. t \in Seq(1..Len(costs))
  <2>0. t \in Seq(Nat)
    BY <1>2
  <2>1. t = [k \in 1..Len(t) |-> t[k]]
    BY <2>0
  <2> QED
    BY <1>4, <1>5, <2>1
<1>7. CostsOf(costs, t) \in Seq(Nat)
  <2>1. \A k \in 1..Len(t) : costs[t[k]] \in Nat
    BY <1>4
  <2> QED
    BY <1>5, <2>1 DEF CostsOf
<1>8. Total(CostsOf(costs, t)) \in Nat
  BY <1>7, TotalIsNat
<1>9. Total(CostsOf(costs, t)) <= budget
  BY <1>4, <1>8
<1> QED
  BY <1>4, <1>5, <1>6, <1>7, <1>9 DEF t

\* What is left out did not fit beside what was taken before it.
LEMMA FitLeavesOut ==
    ASSUME NEW costs \in Seq(Nat), NEW budget \in Nat, NEW j \in 1..Len(costs),
           ~ IsTaken(costs, budget, j)
    PROVE  \E m \in 0..Len(Fit(costs, budget)) :
              /\ \A k \in 1..m : Fit(costs, budget)[k] < j
              /\ [k \in 1..m |-> costs[Fit(costs, budget)[k]]] \in Seq(Nat)
              /\ Total([k \in 1..m |-> costs[Fit(costs, budget)[k]]]) + costs[j] > budget
<1> DEFINE t == Fit(costs, budget)
<1>1. PICK got : IsFit(got, costs, budget)
  BY FitIs
<1> DEFINE b == got[j - 1].taken  left == got[j - 1].left  m == Len(b)
<1>2. j - 1 \in 0..Len(costs) /\ costs[j] \in Nat /\ j \in Nat
  OBVIOUS
<1>3. b \in Seq(Nat) /\ left \in Nat
  BY <1>1, <1>2 DEF IsFit
<1>4. Begins(b, t)
  BY <1>1, <1>2, FitKeeps
<1>5. ~ (costs[j] <= left)
  BY <1>1, FitTakes
<1>6. FitAt(got[j - 1], costs, budget, j - 1)
  BY <1>1, <1>2, FitSteps
<1>7. /\ \A k \in 1..Len(b) : b[k] \in 1..j - 1
      /\ Total(CostsOf(costs, b)) + left = budget
  BY <1>6 DEF FitAt
<1>8. t \in Seq(1..Len(costs)) /\ Len(t) \in Nat
  <2>1. t \in Seq(1..Len(costs))
    BY FitIsInOrder
  <2> HIDE DEF t
  <2> QED
    BY <2>1
<1> HIDE DEF b, left, t
<1>9. m \in 0..Len(t) /\ DOMAIN b = 1..m /\ m \in Nat /\ \A k \in 1..m : t[k] = b[k]
  <2>1. DOMAIN b = 1..m /\ m \in Nat
    BY <1>3
  <2>2. m <= Len(t) /\ \A k \in 1..m : b[k] = t[k]
    BY <1>4 DEF Begins
  <2>3. m \in 0..Len(t)
    BY <1>8, <2>1, <2>2
  <2>4. \A k \in 1..m : t[k] = b[k]
    BY <2>2
  <2> QED
    BY <2>1, <2>3, <2>4
<1>10. \A k \in 1..m : t[k] < j
  <2>1. \A i \in 1..j - 1 : i < j
    BY <1>2
  <2> HIDE DEF m
  <2> QED
    BY <1>7, <1>9, <2>1 DEF m
<1>11. CostsOf(costs, b) = [k \in 1..m |-> costs[t[k]]]
  BY <1>9 DEF CostsOf
<1>12. CostsOf(costs, b) \in Seq(Nat)
  <2>1. ASSUME NEW k \in 1..m PROVE costs[b[k]] \in Nat
    <3>1. b[k] \in 1..j - 1
      BY <1>7
    <3>2. b[k] \in 1..Len(costs)
      BY <1>2, <3>1
    <3> QED
      BY <3>2
  <2> HIDE DEF m
  <2> QED
    BY <1>9, <2>1 DEF CostsOf
<1>13. Total(CostsOf(costs, b)) \in Nat
  BY <1>12, TotalIsNat
<1>14. Total(CostsOf(costs, b)) + costs[j] > budget
  BY <1>2, <1>3, <1>5, <1>7, <1>13
<1> HIDE DEF m
<1> QED
  BY <1>9, <1>10, <1>11, <1>12, <1>14 DEF t

\* So it does not fit beside any that are taken and cost as much.
LEMMA FitLeavesOutOf ==
    ASSUME NEW costs \in Seq(Nat), NEW budget \in Nat, NEW j \in 1..Len(costs),
           ~ IsTaken(costs, budget, j),
           NEW weights \in Seq(Nat), Len(weights) = j - 1,
           \A i \in 1..j - 1 : IsTaken(costs, budget, i) => weights[i] >= costs[i]
    PROVE  Total(weights) + costs[j] > budget
<1>1. PICK got : IsFit(got, costs, budget)
  BY FitIs
<1>2. PICK f : IsTotal(f, weights)
  BY TotalIs
<1> DEFINE N == j - 1
           S == {n \in 0..N : f[n] + got[n].left >= budget}
<1>3. N \in Nat /\ N <= Len(costs) /\ Len(costs) \in Nat /\ costs[j] \in Nat /\ j \in Nat
      /\ \A i \in 1..N : costs[i] \in Nat /\ weights[i] \in Nat
  <2>1. Len(costs) \in Nat /\ j \in Nat /\ j >= 1 /\ j <= Len(costs) /\ costs[j] \in Nat
    OBVIOUS
  <2>2. N \in Nat /\ N <= Len(costs) /\ Len(weights) = N
    BY <2>1
  <2> HIDE DEF N
  <2>3. \A i \in 1..N : i \in 1..Len(costs) /\ i \in 1..Len(weights)
    BY <2>1, <2>2
  <2>4. (\A i \in 1..Len(costs) : costs[i] \in Nat) /\ \A i \in 1..Len(weights) : weights[i] \in Nat
    BY SMTT(60)
  <2> QED
    BY <2>1, <2>2, <2>3, <2>4
<1>4. /\ f \in [0..N -> Nat] /\ f[0] = 0 /\ (\A n \in 1..N : f[n] = f[n - 1] + weights[n])
      /\ Total(weights) = f[N]
  BY <1>2 DEF IsTotal
<1>5. \A n \in 0..N : got[n].left \in Nat
  <2>1. \A n \in 0..N : n \in 0..Len(costs)
    BY <1>3
  <2>2. \A n \in 0..N : got[n] \in [left: Nat, taken: Seq(Nat)]
    BY <1>1, <2>1 DEF IsFit
  <2> QED
    BY <2>2
<1>6. 0 \in S
  <2>1. got[0].left = budget
    BY <1>1 DEF IsFit
  <2> HIDE DEF N
  <2> QED
    BY <1>3, <1>4, <2>1
<1>7. ASSUME NEW n \in 0..(N - 1), n \in S PROVE n + 1 \in S
  <2>1. n + 1 \in 1..N /\ (n + 1) - 1 = n /\ n \in 0..N /\ n + 1 \in 0..N /\ n + 1 \in 1..Len(costs)
    BY <1>3
  <2>2. f[n + 1] = f[n] + weights[n + 1]
    BY <1>4, <2>1
  <2>3. f[n] \in Nat /\ weights[n + 1] \in Nat /\ got[n].left \in Nat /\ got[n + 1].left \in Nat
        /\ costs[n + 1] \in Nat
    BY <1>3, <1>4, <1>5, <2>1
  <2>4. f[n] + got[n].left >= budget
    BY <1>7
  <2>5. CASE costs[n + 1] <= got[n].left
    <3>1. IsTaken(costs, budget, n + 1)
      BY <1>1, <2>1, <2>5, FitTakes
    <3>2. weights[n + 1] >= costs[n + 1]
      BY <2>1, <3>1
    <3>3. got[n + 1] = [left |-> got[n].left - costs[n + 1], taken |-> Append(got[n].taken, n + 1)]
      BY <1>1, <2>1, <2>5 DEF IsFit
    <3>4. got[n + 1].left = got[n].left - costs[n + 1]
      BY <3>3
    <3> DEFINE a == f[n]  w == weights[n + 1]  l == got[n].left  c == costs[n + 1]
    <3>5. a \in Nat /\ w \in Nat /\ l \in Nat /\ c \in Nat /\ w >= c /\ a + l >= budget
      BY <2>3, <2>4, <3>2
    <3>6. f[n + 1] = a + w /\ got[n + 1].left = l - c
      BY <2>2, <3>4
    <3> HIDE DEF a, w, l, c
    <3>7. f[n + 1] + got[n + 1].left >= budget
      BY <3>5, <3>6
    <3> QED
      BY <2>1, <3>7
  <2>6. CASE ~ (costs[n + 1] <= got[n].left)
    <3>1. got[n + 1] = got[n]
      BY <1>1, <2>1, <2>6 DEF IsFit
    <3> DEFINE a == f[n]  w == weights[n + 1]  l == got[n].left
    <3>2. a \in Nat /\ w \in Nat /\ l \in Nat /\ a + l >= budget
      BY <2>3, <2>4
    <3>3. f[n + 1] = a + w /\ got[n + 1].left = l
      BY <2>2, <3>1
    <3> HIDE DEF a, w, l
    <3>4. f[n + 1] + got[n + 1].left >= budget
      BY <3>2, <3>3
    <3> QED
      BY <2>1, <3>4
  <2> QED
    BY <2>5, <2>6
<1> HIDE DEF S
<1>8. \A n \in 0..N : n \in S
  <2> HIDE DEF N
  <2> QED
    BY <1>3, <1>6, <1>7, UpTo
<1>9. f[N] + got[N].left >= budget
  BY <1>3, <1>8 DEF S
<1>10. ~ (costs[j] <= got[j - 1].left)
  BY <1>1, FitTakes
<1>11. f[N] \in Nat /\ got[N].left \in Nat
  <2>1. N \in 0..N
    BY <1>3
  <2> QED
    BY <1>4, <1>5, <2>1
<1> QED
  BY <1>3, <1>4, <1>9, <1>10, <1>11, SMTT(60)

\* Everything is taken up to where it all fits.
LEMMA FitTakesAll ==
    ASSUME NEW costs \in Seq(Nat), NEW budget \in Nat, NEW j \in 1..Len(costs),
           Total(SubSeq(costs, 1, j)) <= budget
    PROVE  IsTaken(costs, budget, j)
<1> SUFFICES ASSUME ~ IsTaken(costs, budget, j) PROVE FALSE
  OBVIOUS
<1> DEFINE w == SubSeq(costs, 1, j - 1)  v == SubSeq(costs, 1, j)
<1>1. /\ w \in Seq(Nat) /\ Len(w) = j - 1 /\ \A i \in 1..j - 1 : w[i] = costs[i]
      /\ v \in Seq(Nat) /\ Len(v) = j /\ \A i \in 1..j : v[i] = costs[i]
      /\ costs[j] \in Nat /\ \A i \in 1..j : costs[i] \in Nat
  OBVIOUS
<1> HIDE DEF w, v
<1>2. v = Append(w, costs[j])
  <2>1. Append(w, costs[j]) \in Seq(Nat) /\ Len(Append(w, costs[j])) = j
    BY <1>1
  <2>2. \A i \in 1..j : Append(w, costs[j])[i] = costs[i]
    BY <1>1
  <2> DEFINE u == Append(w, costs[j])
  <2> HIDE DEF u
  <2>3. \A i \in 1..j : u[i] = v[i]
    BY <1>1, <2>2 DEF u
  <2>4. u = v
    BY <1>1, <2>1, <2>3, SeqEqual DEF u
  <2> QED
    BY <2>4 DEF u
<1>3. Total(v) = Total(w) + costs[j]
  BY <1>1, <1>2, TotalOfMore
<1>4. \A i \in 1..j - 1 : w[i] >= costs[i]
  <2>1. \A i \in 1..j - 1 : i \in 1..j
    OBVIOUS
  <2>2. ASSUME NEW i \in 1..j - 1 PROVE w[i] >= costs[i]
    <3>1. w[i] = costs[i] /\ costs[i] \in Nat
      BY <1>1, <2>1
    <3> QED
      BY <3>1
  <2> QED
    BY <2>2
<1>5. Total(w) + costs[j] > budget
  BY <1>1, <1>4, FitLeavesOutOf
<1>6. Total(w) \in Nat
  BY <1>1, TotalIsNat
<1>7. Total(w) + costs[j] <= budget
  BY <1>3 DEF v
<1> QED
  BY <1>1, <1>5, <1>6, <1>7

-----------------------------------------------------------------------------
(* Ranks.                                                                  *)

\* R orders the members of the finite set S, strictly and completely.
IsOrder(S, R) ==
    /\ IsFiniteSet(S)
    /\ \A x \in S : <<x, x>> \notin R
    /\ \A x, y, z \in S : <<x, y>> \in R /\ <<y, z>> \in R => <<x, z>> \in R
    /\ \A x, y \in S : x # y => <<x, y>> \in R \/ <<y, x>> \in R

Before(S, R, x) == {y \in S : <<y, x>> \in R}
Rank(S, R, x)   == Cardinality(Before(S, R, x))

\* Ranks grow along the order, and are below the size of the set.
LEMMA RankGrows ==
    ASSUME NEW S, NEW R, IsOrder(S, R), NEW x \in S
    PROVE  /\ Rank(S, R, x) \in 0..(Cardinality(S) - 1)
           /\ IsFiniteSet(Before(S, R, x))
           /\ \A y \in S : <<x, y>> \in R => Rank(S, R, x) < Rank(S, R, y)
<1>1. IsFiniteSet(S)
  BY DEF IsOrder
<1>2. Cardinality(S) \in Nat
  BY <1>1, FS_CardinalityType
<1>3. ASSUME NEW y \in S
      PROVE  Before(S, R, y) \subseteq S /\ IsFiniteSet(Before(S, R, y)) /\ Rank(S, R, y) \in Nat
             /\ Rank(S, R, y) <= Cardinality(S)
  <2>1. Before(S, R, y) \subseteq S
    BY DEF Before
  <2>2. IsFiniteSet(Before(S, R, y)) /\ Rank(S, R, y) <= Cardinality(S)
    BY <1>1, <2>1, FS_Subset DEF Rank
  <2>3. Rank(S, R, y) \in Nat
    BY <2>2, FS_CardinalityType DEF Rank
  <2> QED
    BY <2>1, <2>2, <2>3
<1>4. Rank(S, R, x) # Cardinality(S)
  <2>1. x \notin Before(S, R, x)
    BY DEF Before, IsOrder
  <2>2. Before(S, R, x) # S
    BY <2>1
  <2> QED
    BY <1>1, <1>3, <2>2, FS_Subset DEF Rank
<1>5. ASSUME NEW y \in S, <<x, y>> \in R PROVE Rank(S, R, x) < Rank(S, R, y)
  <2>1. Before(S, R, x) \subseteq Before(S, R, y)
    BY <1>5 DEF Before, IsOrder
  <2>2. x \in Before(S, R, y) /\ x \notin Before(S, R, x)
    BY <1>5 DEF Before, IsOrder
  <2>3. Before(S, R, x) # Before(S, R, y)
    BY <2>2
  <2>4. IsFiniteSet(Before(S, R, y))
    BY <1>3
  <2>5. Rank(S, R, x) <= Rank(S, R, y) /\ Rank(S, R, x) # Rank(S, R, y)
    BY <2>1, <2>3, <2>4, FS_Subset DEF Rank
  <2>6. Rank(S, R, x) \in Nat /\ Rank(S, R, y) \in Nat
    BY <1>3
  <2> QED
    BY <2>5, <2>6
<1>6. Rank(S, R, x) \in 0..(Cardinality(S) - 1)
  BY <1>2, <1>3, <1>4
<1> QED
  BY <1>3, <1>5, <1>6

\* No two members have the same rank.
LEMMA RanksDiffer ==
    ASSUME NEW S, NEW R, IsOrder(S, R), NEW x \in S, NEW y \in S, Rank(S, R, x) = Rank(S, R, y)
    PROVE  x = y
<1>1. Rank(S, R, x) \in Int /\ Rank(S, R, y) \in Int
  BY RankGrows
<1>2. <<x, y>> \in R => Rank(S, R, x) < Rank(S, R, y)
  BY RankGrows
<1>3. <<y, x>> \in R => Rank(S, R, y) < Rank(S, R, x)
  BY RankGrows
<1> QED
  BY <1>1, <1>2, <1>3 DEF IsOrder

\* The first n have the ranks below n, each once.
LEMMA RankIsOnto ==
    ASSUME NEW S, NEW R, IsOrder(S, R), NEW n \in 0..(Cardinality(S) - 1)
    PROVE  \E x \in S : Rank(S, R, x) = n
<1> DEFINE N == Cardinality(S)  f == [x \in S |-> Rank(S, R, x)]
<1>1. IsFiniteSet(S) /\ N \in Nat
  BY FS_CardinalityType DEF IsOrder
<1>2. IsFiniteSet(0..(N - 1)) /\ Cardinality(0..(N - 1)) = N
  <2>1. 0 \in Int /\ N - 1 \in Int
    BY <1>1
  <2>2. IsFiniteSet(0..(N - 1)) /\ Cardinality(0..(N - 1)) = IF 0 > N - 1 THEN 0 ELSE N - 1 - 0 + 1
    BY <2>1, FS_Interval
  <2> QED
    BY <1>1, <2>2
<1>3. f \in [S -> 0..(N - 1)]
  BY RankGrows
<1>4. \A x, y \in S : f[x] = f[y] => x = y
  BY RanksDiffer
<1>5. f \in Injection(S, 0..(N - 1))
  BY <1>3, <1>4 DEF Injection, IsInjective
<1>6. f \in Surjection(S, 0..(N - 1))
  <2> HIDE DEF f
  <2> QED
    BY <1>2, <1>5, FS_Injection
<1>7. PICK x \in S : f[x] = n
  BY <1>6 DEF Surjection
<1> QED
  BY <1>7

\* A sorted sequence has each member once, at its rank, and keeps the order.
LEMMA SortedIs ==
    ASSUME NEW S, NEW R, IsOrder(S, R)
    PROVE  /\ Cardinality(S) \in Nat /\ Sorted(S, R) \in Seq(S) /\ Len(Sorted(S, R)) = Cardinality(S)
           /\ DOMAIN Sorted(S, R) = 1..Cardinality(S)
           /\ \A i \in 1..Cardinality(S) : Sorted(S, R)[i] \in S /\ Rank(S, R, Sorted(S, R)[i]) = i - 1
           /\ \A x \in S : Rank(S, R, x) + 1 \in 1..Cardinality(S) /\ Sorted(S, R)[Rank(S, R, x) + 1] = x
           /\ \A i, j \in 1..Cardinality(S) : i < j => <<Sorted(S, R)[i], Sorted(S, R)[j]>> \in R
           /\ \A i, j \in 1..Cardinality(S) : Sorted(S, R)[i] = Sorted(S, R)[j] => i = j
<1> DEFINE N == Cardinality(S)  t == Sorted(S, R)
<1>1. IsFiniteSet(S) /\ N \in Nat
  BY FS_CardinalityType DEF IsOrder
<1>2. t = [i \in 1..N |-> CHOOSE x \in S : Rank(S, R, x) = i - 1]
  BY DEF Sorted, Rank, Before
<1> HIDE DEF t
<1>3. ASSUME NEW i \in 1..N PROVE t[i] \in S /\ Rank(S, R, t[i]) = i - 1
  <2>1. i - 1 \in 0..(N - 1)
    BY <1>1
  <2>2. \E x \in S : Rank(S, R, x) = i - 1
    BY <2>1, RankIsOnto
  <2>3. t[i] = CHOOSE x \in S : Rank(S, R, x) = i - 1
    BY <1>2
  <2> QED
    BY <2>2, <2>3
<1>4. DOMAIN t = 1..N
  BY <1>2
<1>5. t \in Seq(S) /\ Len(t) = N
  <2>1. t = [i \in 1..N |-> t[i]]
    BY <1>2
  <2>2. t \in [1..N -> S]
    BY <1>3, <2>1
  <2> QED
    BY <1>1, <2>2
<1>6. ASSUME NEW x \in S PROVE Rank(S, R, x) + 1 \in 1..N /\ t[Rank(S, R, x) + 1] = x
  <2>1. Rank(S, R, x) \in 0..(N - 1)
    BY RankGrows
  <2>2. Rank(S, R, x) + 1 \in 1..N /\ (Rank(S, R, x) + 1) - 1 = Rank(S, R, x)
    BY <1>1, <2>1
  <2>3. t[Rank(S, R, x) + 1] \in S /\ Rank(S, R, t[Rank(S, R, x) + 1]) = Rank(S, R, x)
    BY <1>3, <2>2
  <2> QED
    BY <2>2, <2>3, RanksDiffer
<1>7. ASSUME NEW i \in 1..N, NEW j \in 1..N, i < j PROVE <<t[i], t[j]>> \in R
  <2>1. t[i] \in S /\ t[j] \in S /\ Rank(S, R, t[i]) = i - 1 /\ Rank(S, R, t[j]) = j - 1
    BY <1>3
  <2>2. t[i] # t[j]
    BY <1>1, <1>7, <2>1
  <2>3. <<t[j], t[i]>> \in R => Rank(S, R, t[j]) < Rank(S, R, t[i])
    BY <2>1, RankGrows
  <2>4. <<t[j], t[i]>> \notin R
    BY <1>1, <1>7, <2>1, <2>3
  <2> QED
    BY <2>1, <2>2, <2>4 DEF IsOrder
<1>8. ASSUME NEW i \in 1..N, NEW j \in 1..N, t[i] = t[j] PROVE i = j
  <2>1. Rank(S, R, t[i]) = i - 1 /\ Rank(S, R, t[j]) = j - 1
    BY <1>3
  <2> QED
    BY <1>1, <1>8, <2>1
<1> QED
  BY <1>1, <1>3, <1>4, <1>5, <1>6, <1>7, <1>8 DEF t

\* The first n are n, unless they are all.
LEMMA TopIsFull ==
    ASSUME NEW S, NEW R, IsOrder(S, R), NEW n \in Nat, NEW c \in S \ Top(S, R, n)
    PROVE  /\ IsFiniteSet(Top(S, R, n)) /\ Cardinality(Top(S, R, n)) = n
           /\ \A x \in Top(S, R, n) : <<x, c>> \in R
<1> DEFINE T == Top(S, R, n)  N == Cardinality(S)
<1>1. IsFiniteSet(S) /\ N \in Nat
  BY FS_CardinalityType DEF IsOrder
<1>2. T = {x \in S : Rank(S, R, x) < n}
  BY DEF Top, Rank, Before
<1>3. c \in S /\ Rank(S, R, c) >= n
  <2>1. Rank(S, R, c) \in 0..(N - 1)
    BY RankGrows
  <2> QED
    BY <1>1, <1>2, <2>1
<1> HIDE DEF T
<1>4. ASSUME NEW x \in T PROVE <<x, c>> \in R
  <2>1. x \in S /\ Rank(S, R, x) < n
    BY <1>2
  <2>2. Rank(S, R, x) \in 0..(N - 1) /\ Rank(S, R, c) \in 0..(N - 1)
    BY <1>3, <2>1, RankGrows
  <2>3. x # c
    BY <1>1, <1>3, <2>1, <2>2
  <2>4. <<c, x>> \in R => Rank(S, R, c) < Rank(S, R, x)
    BY <1>3, <2>1, RankGrows
  <2> QED
    BY <1>1, <1>3, <2>1, <2>2, <2>3, <2>4 DEF IsOrder
<1> DEFINE f == [x \in T |-> Rank(S, R, x) + 1]
<1>5. \A x \in T : x \in S /\ Rank(S, R, x) + 1 \in 1..n
  <2>1. ASSUME NEW x \in T PROVE x \in S /\ Rank(S, R, x) + 1 \in 1..n
    <3>1. x \in S /\ Rank(S, R, x) < n
      BY <1>2
    <3>2. Rank(S, R, x) \in 0..(N - 1)
      BY <3>1, RankGrows
    <3> QED
      BY <1>1, <3>1, <3>2
  <2> QED
    BY <2>1
<1>6. \A x, y \in T : f[x] = f[y] => x = y
  <2>1. ASSUME NEW x \in T, NEW y \in T, f[x] = f[y] PROVE x = y
    <3>1. Rank(S, R, x) + 1 = Rank(S, R, y) + 1 /\ Rank(S, R, x) + 1 \in 1..n
      BY <1>5, <2>1
    <3>2. Rank(S, R, x) \in 0..(N - 1) /\ Rank(S, R, y) \in 0..(N - 1)
      BY <1>5, RankGrows
    <3>3. Rank(S, R, x) = Rank(S, R, y)
      BY <1>1, <3>1, <3>2
    <3> QED
      BY <1>5, <3>3, RanksDiffer
  <2> QED
    BY <2>1
<1>7. f \in Injection(T, 1..n)
  BY <1>5, <1>6 DEF Injection, IsInjective
<1>8. f \in Surjection(T, 1..n)
  <2>1. ASSUME NEW k \in 1..n PROVE \E x \in T : f[x] = k
    <3>0. Rank(S, R, c) \in 0..(N - 1)
      BY <1>3, RankGrows
    <3>1. k - 1 \in 0..(N - 1)
      BY <1>1, <1>3, <3>0
    <3>2. PICK x \in S : Rank(S, R, x) = k - 1
      BY <3>1, RankIsOnto
    <3>3. x \in T
      BY <1>2, <3>2
    <3> QED
      BY <3>2, <3>3
  <2>2. f \in [T -> 1..n]
    BY <1>5
  <2> QED
    BY <2>1, <2>2 DEF Surjection
<1>9. IsFiniteSet(1..n) /\ Cardinality(1..n) = n
  <2>1. IsFiniteSet(1..n) /\ Cardinality(1..n) = IF 1 > n THEN 0 ELSE n - 1 + 1
    BY FS_Interval
  <2> QED
    BY <2>1
<1> HIDE DEF f
<1>10. IsFiniteSet(T) /\ Cardinality(T) = n
  BY <1>7, <1>8, <1>9, FS_Injection
<1> QED
  BY <1>4, <1>10 DEF T

-----------------------------------------------------------------------------
(* The estimator.                                                          *)

Divisor == {32, 34, 38, 40, 1, 2, 3}

\* What the estimator divides by.
LEMMA Divisors ==
    /\ CharsPerTokenX10[Profile] \in {32, 34, 38, 40} /\ CharsPerTokenX10[Profile] \in Divisor
    /\ PunctuationDivisor[Profile] \in {1, 2, 3} /\ PunctuationDivisor[Profile] \in Divisor
BY ContextAssumption DEF Profiles, CharsPerTokenX10, PunctuationDivisor, Divisor

\* A quotient that is rounded up is a number, and that of a sum is not greater than
\* the sum of both.
LEMMA DivCeilJoins ==
    ASSUME NEW a \in Nat, NEW b \in Nat, NEW d \in Divisor
    PROVE  /\ DivCeil(a, d) \in Nat /\ DivCeil(b, d) \in Nat
           /\ DivCeil(a + b, d) <= DivCeil(a, d) + DivCeil(b, d)
BY DEF DivCeil, Divisor

\* An estimate is at least one.
LEMMA EstimateIs == ASSUME NEW t \in Text PROVE estimate(t) \in Nat /\ estimate(t) >= 1
<1>1. t.chars \in Nat /\ t.words \in Nat /\ t.punctuation \in Nat /\ t.non_ascii \in Nat
  BY DEF Text
<1> DEFINE c == DivCeil(t.chars * 10, CharsPerTokenX10[Profile])
           p == DivCeil(t.punctuation, PunctuationDivisor[Profile])
<1>2. c \in Nat /\ p \in Nat
  <2>1. t.chars * 10 \in Nat
    BY <1>1
  <2> QED
    BY <1>1, <2>1, Divisors, DivCeilJoins
<1>3. estimate(t) = Greatest(1, Greatest(c, t.words + p + t.non_ascii))
  BY DEF estimate
<1> HIDE DEF c, p
<1> QED
  BY <1>1, <1>2, <1>3 DEF Greatest

\* Texts joined are not estimated higher than each by itself.
LEMMA EstimateJoins ==
    ASSUME NEW s \in Text, NEW t \in Text
    PROVE  /\ Join(s, t) \in Text
           /\ estimate(Join(s, t)) <= estimate(s) + estimate(t)
<1>1. /\ s.chars \in Nat /\ s.words \in Nat /\ s.punctuation \in Nat /\ s.non_ascii \in Nat
      /\ t.chars \in Nat /\ t.words \in Nat /\ t.punctuation \in Nat /\ t.non_ascii \in Nat
  BY DEF Text
<1>2. Join(s, t) \in Text
  BY <1>1 DEF Join, Text
<1> DEFINE C == CharsPerTokenX10[Profile]  P == PunctuationDivisor[Profile]
           c(x) == DivCeil(x * 10, C)  p(x) == DivCeil(x, P)
<1>3. /\ c(s.chars) \in Nat /\ c(t.chars) \in Nat
      /\ c(s.chars + t.chars) <= c(s.chars) + c(t.chars) /\ c(s.chars + t.chars) \in Nat
  <2> DEFINE a == s.chars * 10  b == t.chars * 10
  <2>1. a \in Nat /\ b \in Nat /\ (s.chars + t.chars) * 10 = a + b /\ a + b \in Nat
    BY <1>1
  <2>2. C \in Divisor
    BY Divisors
  <2> HIDE DEF a, b, C
  <2>3. DivCeil(a, C) \in Nat /\ DivCeil(b, C) \in Nat /\ DivCeil(a + b, C) <= DivCeil(a, C) + DivCeil(b, C)
        /\ DivCeil(a + b, C) \in Nat
    <3>1. a \in Nat /\ b \in Nat /\ a + b \in Nat
      BY <2>1
    <3>2. DivCeil(a, C) \in Nat /\ DivCeil(b, C) \in Nat /\ DivCeil(a + b, C) <= DivCeil(a, C) + DivCeil(b, C)
      BY <2>2, <3>1, DivCeilJoins
    <3>3. DivCeil(a + b, C) \in Nat
      BY <2>2, <3>1, DivCeilJoins
    <3> QED
      BY <3>2, <3>3
  <2> QED
    BY <2>1, <2>3 DEF a, b
<1>4. /\ p(s.punctuation) \in Nat /\ p(t.punctuation) \in Nat
      /\ p(s.punctuation + t.punctuation) <= p(s.punctuation) + p(t.punctuation)
      /\ p(s.punctuation + t.punctuation) \in Nat
  <2>1. P \in Divisor
    BY Divisors
  <2>2. s.punctuation + t.punctuation \in Nat
    BY <1>1
  <2> DEFINE a == s.punctuation  b == t.punctuation
  <2> HIDE DEF P
  <2>3. a \in Nat /\ b \in Nat /\ a + b \in Nat
    BY <1>1, <2>2
  <2> HIDE DEF a, b
  <2>4. DivCeil(a, P) \in Nat /\ DivCeil(b, P) \in Nat /\ DivCeil(a + b, P) <= DivCeil(a, P) + DivCeil(b, P)
    BY <2>1, <2>3, DivCeilJoins
  <2>5. DivCeil(a + b, P) \in Nat
    BY <2>1, <2>3, DivCeilJoins
  <2> QED
    BY <2>4, <2>5 DEF a, b
<1>5. /\ estimate(s) = Greatest(1, Greatest(c(s.chars), s.words + p(s.punctuation) + s.non_ascii))
      /\ estimate(t) = Greatest(1, Greatest(c(t.chars), t.words + p(t.punctuation) + t.non_ascii))
      /\ estimate(Join(s, t)) =
            Greatest(1, Greatest(c(s.chars + t.chars),
                                 (s.words + t.words) + p(s.punctuation + t.punctuation)
                                   + (s.non_ascii + t.non_ascii)))
  BY DEF estimate, Join
<1> HIDE DEF c, p
<1>6. estimate(Join(s, t)) <= estimate(s) + estimate(t)
  <2> DEFINE c1 == c(s.chars)  c2 == c(t.chars)  c3 == c(s.chars + t.chars)
             p1 == p(s.punctuation)  p2 == p(t.punctuation)  p3 == p(s.punctuation + t.punctuation)
             w1 == s.words  w2 == t.words  n1 == s.non_ascii  n2 == t.non_ascii
  <2>1. /\ c1 \in Nat /\ c2 \in Nat /\ c3 \in Nat /\ c3 <= c1 + c2
        /\ p1 \in Nat /\ p2 \in Nat /\ p3 \in Nat /\ p3 <= p1 + p2
        /\ w1 \in Nat /\ w2 \in Nat /\ n1 \in Nat /\ n2 \in Nat
    BY <1>1, <1>3, <1>4
  <2>2. /\ estimate(s) = Greatest(1, Greatest(c1, w1 + p1 + n1))
        /\ estimate(t) = Greatest(1, Greatest(c2, w2 + p2 + n2))
        /\ estimate(Join(s, t)) = Greatest(1, Greatest(c3, (w1 + w2) + p3 + (n1 + n2)))
    BY <1>5
  <2> HIDE DEF c1, c2, c3, p1, p2, p3, w1, w2, n1, n2
  <2> QED
    BY <2>1, <2>2 DEF Greatest
<1> QED
  BY <1>2, <1>6

\* What the fixed texts take.
LEMMA FixedTexts ==
    /\ NewLine \in Text /\ estimate(NewLine) <= 1
    /\ base_prompt \in Text
    /\ \A k \in Kinds : LineStart[k] \in Text /\ Title[k] \in Text /\ estimate(Title[k]) <= 7
<1>1. \A c, w, p \in Nat : Counts(c, w, p) \in Text
  BY DEF Counts, Text
<1>2. NewLine \in Text /\ TrustedNote \in Text
  BY <1>1 DEF NewLine, TrustedNote
<1>3. base_prompt \in Text
  BY <1>2, EstimateJoins, ContextAssumption DEF base_prompt
<1>4. ASSUME NEW c \in 0..21, NEW w \in 0..2, NEW p \in 0..1
      PROVE  estimate(Counts(c, w, p)) <= 7 /\ (c = 1 /\ w = 0 /\ p = 0 => estimate(Counts(c, w, p)) <= 1)
  <2>1. estimate(Counts(c, w, p)) = Greatest(1, Greatest(DivCeil(c * 10, CharsPerTokenX10[Profile]),
                                                 w + DivCeil(p, PunctuationDivisor[Profile]) + 0))
    BY DEF estimate, Counts
  <2> DEFINE C == CharsPerTokenX10[Profile]  P == PunctuationDivisor[Profile]
             a == DivCeil(c * 10, C)  b == DivCeil(p, P)
  <2>2. a <= 7 /\ (c = 1 => a <= 1) /\ a \in Nat
    <3>1. C \in {32, 34, 38, 40}
      BY Divisors
    <3> HIDE DEF C
    <3> QED
      BY <3>1 DEF DivCeil
  <2>3. b <= 1 /\ (p = 0 => b = 0) /\ b \in Nat
    <3>1. P \in {1, 2, 3}
      BY Divisors
    <3> HIDE DEF P
    <3> QED
      BY <3>1 DEF DivCeil
  <2> HIDE DEF a, b
  <2> QED
    BY <2>1, <2>2, <2>3 DEF Greatest, a, b
<1>5. estimate(NewLine) <= 1
  BY <1>4 DEF NewLine
<1>6. ASSUME NEW k \in Kinds PROVE LineStart[k] \in Text /\ Title[k] \in Text /\ estimate(Title[k]) <= 7
  <2>1. \E c \in 0..21, w \in 0..2, p \in 0..1 : Title[k] = Counts(c, w, p)
    BY DEF Kinds, Title
  <2>2. \E c \in Nat, w \in Nat, p \in Nat : LineStart[k] = Counts(c, w, p)
    BY DEF Kinds, LineStart
  <2> QED
    BY <1>1, <1>4, <2>1, <2>2
<1> QED
  BY <1>2, <1>3, <1>5, <1>6

-----------------------------------------------------------------------------
(* What a request is built from.                                           *)

\* The rows and messages that were read.
IsInput(x) ==
    /\ x.summary \in Seq(Row) /\ x.event \in Seq(Row) /\ x.memory \in Seq(Row)
    /\ x.character \in Seq(Row) /\ x.fact \in Seq(Row) /\ x.location \in Seq(Row)
    /\ x.messages \in Seq(Message)
    /\ DOMAIN x = DOMAIN NothingRead

IsCandidate(x) ==
    /\ x.kind \in Kinds /\ x.text \in Text /\ x.priority \in Int
    /\ x.tokens \in Nat /\ x.tokens = estimate(x.text) + 4
    /\ x.index[1] = Section[x.kind] /\ x.index[2] \in Nat

\* The rows of a kind are listed up to a limit.
LEMMA ListedRows ==
    ASSUME NEW x, IsInput(x), NEW k \in Kinds
    PROVE  /\ Listed(x[k], k) \in Seq(Row)
           /\ DOMAIN Listed(x[k], k) = 1..Len(Listed(x[k], k))
<1> DEFINE s == x[k]
<1>1. s \in Seq(Row)
  BY DEF IsInput, Kinds
<1> HIDE DEF s
<1>2. \A n \in Nat : SubSeq(s, 1, Least(n, Len(s))) \in Seq(Row)
  <2>1. ASSUME NEW n \in Nat PROVE SubSeq(s, 1, Least(n, Len(s))) \in Seq(Row)
    <3>1. Least(n, Len(s)) \in Nat /\ Least(n, Len(s)) <= Len(s)
      BY <1>1 DEF Least
    <3> DEFINE m == Least(n, Len(s))
    <3> HIDE DEF m
    <3>2. m \in Nat /\ m <= Len(s)
      BY <3>1 DEF m
    <3>3. SubSeq(s, 1, m) \in Seq(Row)
      BY <1>1, <3>2
    <3> QED
      BY <3>3 DEF m
  <2> QED
    BY <2>1
<1>3. Listed(s, k) \in Seq(Row)
  <2>1. SubSeq(s, 1, Least(MemoryLimit, Len(s))) \in Seq(Row)
        /\ SubSeq(s, 1, Least(CharacterLimit, Len(s))) \in Seq(Row)
    BY <1>2, ContextAssumption
  <2> QED
    BY <1>1, <2>1 DEF Listed
<1> DEFINE l == Listed(s, k)
<1> HIDE DEF l
<1>4. l \in Seq(Row) /\ DOMAIN l = 1..Len(l)
  BY <1>3 DEF l
<1> QED
  BY <1>4 DEF l, s

\* The rank of a row of each kind.
LEMMA PriorityIs == ASSUME NEW k \in Kinds, NEW w \in Int PROVE Priority(k, w) \in Int
<1>1. Clamp(w, 1, 5) \in Int /\ Clamp(w, 0, 100) \in Int
  BY DEF Clamp, Greatest, Least
<1> HIDE DEF Clamp
<1>2. 600 + Clamp(w, 1, 5) * 10 \in Int /\ 700 + Clamp(w, 0, 100) \in Int /\ 550 + Clamp(w, 0, 100) \in Int
  BY <1>1
<1> QED
  BY <1>2 DEF Priority, Kinds

\* Each row becomes a candidate.
LEMMA CandidateIs ==
    ASSUME NEW k \in Kinds, NEW row \in Row, NEW j \in Nat
    PROVE  /\ IsCandidate(Candidate(k, row, j))
           /\ Candidate(k, row, j).kind = k /\ Candidate(k, row, j).index = <<Section[k], j>>
<1> DEFINE c == Join(row.text, LineStart[k])
<1>1. row.text \in Text /\ row.w \in Int
  BY DEF Row
<1>2. c \in Text
  BY <1>1, FixedTexts, EstimateJoins
<1>3. estimate(c) \in Nat /\ estimate(c) + 4 \in Nat
  BY <1>2, EstimateIs
<1>4. Priority(k, row.w) \in Int
  BY <1>1, PriorityIs
<1>5. Candidate(k, row, j) = [kind |-> k, text |-> c, id |-> row.id, priority |-> Priority(k, row.w),
                              tokens |-> estimate(c) + 4, index |-> <<Section[k], j>>]
  BY DEF Candidate, CandidateTokens
<1> HIDE DEF c
<1> QED
  BY <1>2, <1>3, <1>4, <1>5 DEF IsCandidate

\* Of a kind there are as many as are listed.
OfKind(x, k) == {Candidate(k, Listed(x[k], k)[j], j) : j \in DOMAIN Listed(x[k], k)}

\* The candidates are those of the six kinds.
LEMMA CandidatesAre ==
    ASSUME NEW x, IsInput(x)
    PROVE  /\ \A y \in candidates(x) : IsCandidate(y)
           /\ \A y, z \in candidates(x) : y.index = z.index => y = z
           /\ \A y \in candidates(x) : y.index = <<y.index[1], y.index[2]>>
           /\ IsFiniteSet(candidates(x))
<1>0. candidates(x) = UNION {OfKind(x, k) : k \in Kinds}
  BY DEF candidates, OfKind
<1>1. ASSUME NEW y \in candidates(x)
      PROVE \E k \in Kinds, j \in Nat :
               /\ y = Candidate(k, Listed(x[k], k)[j], j)
               /\ IsCandidate(y) /\ y.kind = k /\ y.index = <<Section[k], j>>
  <2>1. PICK k \in Kinds : y \in OfKind(x, k)
    BY <1>0
  <2>2. PICK j \in DOMAIN Listed(x[k], k) : y = Candidate(k, Listed(x[k], k)[j], j)
    BY <2>1 DEF OfKind
  <2>3. j \in Nat /\ Listed(x[k], k)[j] \in Row
    BY ListedRows
  <2> QED
    BY <2>2, <2>3, CandidateIs
<1>2. \A y \in candidates(x) : IsCandidate(y)
  BY <1>1
<1>3. ASSUME NEW y \in candidates(x), NEW z \in candidates(x), y.index = z.index PROVE y = z
  <2>1. PICK k \in Kinds, j \in Nat :
               /\ y = Candidate(k, Listed(x[k], k)[j], j)
               /\ y.index = <<Section[k], j>>
    BY <1>1
  <2>2. PICK l \in Kinds, i \in Nat :
               /\ z = Candidate(l, Listed(x[l], l)[i], i)
               /\ z.index = <<Section[l], i>>
    BY <1>1
  <2>3. Section[k] = Section[l] /\ i = j
    BY <1>3, <2>1, <2>2
  <2>4. k = l
    BY <2>3 DEF Section, Kinds
  <2> QED
    BY <2>1, <2>2, <2>3, <2>4
<1>4. \A y \in candidates(x) : y.index = <<y.index[1], y.index[2]>>
  <2>1. ASSUME NEW y \in candidates(x) PROVE y.index = <<y.index[1], y.index[2]>>
    <3>1. PICK k \in Kinds, j \in Nat : y.index = <<Section[k], j>>
      BY <1>1
    <3> QED
      BY <3>1
  <2> QED
    BY <2>1
<1>5. ASSUME NEW k \in Kinds PROVE IsFiniteSet(OfKind(x, k))
  <2> DEFINE l == Listed(x[k], k)  f == [j \in 1..Len(l) |-> Candidate(k, l[j], j)]
  <2>1. Len(l) \in Nat /\ DOMAIN l = 1..Len(l)
    BY ListedRows
  <2>2. IsFiniteSet(1..Len(l))
    BY <2>1, FS_Interval
  <2>3. f \in Surjection(1..Len(l), OfKind(x, k))
    <3>1. OfKind(x, k) = {Candidate(k, l[j], j) : j \in 1..Len(l)}
      BY <2>1 DEF OfKind
    <3> HIDE DEF l
    <3> QED
      BY <3>1 DEF Surjection
  <2> HIDE DEF f, l
  <2> QED
    BY <2>2, <2>3, FS_Surjection
<1>6. IsFiniteSet(candidates(x))
  <2>1. candidates(x) = OfKind(x, "summary") \cup (OfKind(x, "event") \cup (OfKind(x, "memory") \cup
                        (OfKind(x, "character") \cup (OfKind(x, "fact") \cup OfKind(x, "location")))))
    BY <1>0 DEF Kinds
  <2>2. /\ IsFiniteSet(OfKind(x, "summary")) /\ IsFiniteSet(OfKind(x, "event")) /\ IsFiniteSet(OfKind(x, "memory"))
        /\ IsFiniteSet(OfKind(x, "character")) /\ IsFiniteSet(OfKind(x, "fact")) /\ IsFiniteSet(OfKind(x, "location"))
    BY <1>5 DEF Kinds
  <2>3. IsFiniteSet(OfKind(x, "fact") \cup OfKind(x, "location"))
    BY <2>2, FS_Union
  <2>4. IsFiniteSet(OfKind(x, "character") \cup (OfKind(x, "fact") \cup OfKind(x, "location")))
    BY <2>2, <2>3, FS_Union
  <2>5. IsFiniteSet(OfKind(x, "memory") \cup (OfKind(x, "character") \cup (OfKind(x, "fact") \cup OfKind(x, "location"))))
    BY <2>2, <2>4, FS_Union
  <2>6. IsFiniteSet(OfKind(x, "event") \cup (OfKind(x, "memory") \cup
                        (OfKind(x, "character") \cup (OfKind(x, "fact") \cup OfKind(x, "location")))))
    BY <2>2, <2>5, FS_Union
  <2> QED
    <3>1. IsFiniteSet(OfKind(x, "summary") \cup (OfKind(x, "event") \cup (OfKind(x, "memory") \cup
                        (OfKind(x, "character") \cup (OfKind(x, "fact") \cup OfKind(x, "location"))))))
      BY <2>2, <2>6, FS_Union
    <3> QED
      BY <2>1, <3>1
<1> QED
  BY <1>2, <1>3, <1>4, <1>6

\* The candidates are ordered by their rank, their size and then their place.
LEMMA RankingIsOrder ==
    ASSUME NEW x, IsInput(x)
    PROVE  IsOrder(candidates(x), Ranking(candidates(x)))
<1> DEFINE S == candidates(x)
<1>1. ASSUME NEW y \in S
      PROVE  y.priority \in Int /\ y.tokens \in Int /\ y.index[1] \in Int /\ y.index[2] \in Int
  <2>1. IsCandidate(y)
    BY CandidatesAre
  <2>2. \A k \in Kinds : Section[k] \in Int
    BY DEF Section, Kinds
  <2> QED
    BY <2>1, <2>2 DEF IsCandidate
<1>2. IsFiniteSet(S)
  BY CandidatesAre
<1>3. \A y, z \in S : <<y, z>> \in Ranking(S) <=> Outranks(y, z)
  BY DEF Ranking
<1>4. ASSUME NEW y \in S PROVE ~ Outranks(y, y)
  BY <1>1 DEF Outranks, Inserted
<1>5. ASSUME NEW y \in S, NEW z \in S, NEW u \in S, Outranks(y, z), Outranks(z, u) PROVE Outranks(y, u)
  <2>1. /\ y.priority \in Int /\ y.tokens \in Int /\ y.index[1] \in Int /\ y.index[2] \in Int
        /\ z.priority \in Int /\ z.tokens \in Int /\ z.index[1] \in Int /\ z.index[2] \in Int
        /\ u.priority \in Int /\ u.tokens \in Int /\ u.index[1] \in Int /\ u.index[2] \in Int
    BY <1>1
  <2> QED
    BY <1>5, <2>1 DEF Outranks, Inserted
<1>6. ASSUME NEW y \in S, NEW z \in S, y # z PROVE Outranks(y, z) \/ Outranks(z, y)
  <2>1. /\ y.priority \in Int /\ y.tokens \in Int /\ y.index[1] \in Int /\ y.index[2] \in Int
        /\ z.priority \in Int /\ z.tokens \in Int /\ z.index[1] \in Int /\ z.index[2] \in Int
    BY <1>1
  <2>2. ~ (y.index[1] = z.index[1] /\ y.index[2] = z.index[2])
    BY <1>6, CandidatesAre
  <2> QED
    BY <2>1, <2>2 DEF Outranks, Inserted
<1> HIDE DEF S
<1> QED
  BY <1>2, <1>3, <1>4, <1>5, <1>6 DEF IsOrder, S

\* They are looked at in that order, each once.
LEMMA RankedCandidates ==
    ASSUME NEW x, IsInput(x)
    PROVE  /\ ranked_candidates(x) \in Seq(candidates(x))
           /\ DOMAIN ranked_candidates(x) = 1..Len(ranked_candidates(x))
           /\ \A y \in candidates(x) : \E j \in DOMAIN ranked_candidates(x) : ranked_candidates(x)[j] = y
           /\ \A i, j \in DOMAIN ranked_candidates(x) :
                 i < j => Outranks(ranked_candidates(x)[i], ranked_candidates(x)[j])
<1> DEFINE S == candidates(x)  R == Ranking(S)  r == ranked_candidates(x)
<1>1. IsOrder(S, R)
  BY RankingIsOrder
<1>2. r = Sorted(S, R)
  BY DEF ranked_candidates
<1>3. \A y, z : <<y, z>> \in R => Outranks(y, z)
  BY DEF Ranking
<1> HIDE DEF S, R, r
<1>4. /\ r \in Seq(S) /\ Len(r) = Cardinality(S) /\ DOMAIN r = 1..Cardinality(S)
      /\ \A y \in S : \E j \in 1..Cardinality(S) : r[j] = y
      /\ \A i, j \in 1..Cardinality(S) : i < j => <<r[i], r[j]>> \in R
  <2>1. /\ r \in Seq(S) /\ Len(r) = Cardinality(S) /\ DOMAIN r = 1..Cardinality(S)
        /\ \A i, j \in 1..Cardinality(S) : i < j => <<r[i], r[j]>> \in R
    BY <1>1, <1>2, SortedIs
  <2>2. ASSUME NEW y \in S PROVE \E j \in 1..Cardinality(S) : r[j] = y
    <3>1. Rank(S, R, y) + 1 \in 1..Cardinality(S) /\ r[Rank(S, R, y) + 1] = y
      BY <1>1, <1>2, SortedIs
    <3> QED
      BY <3>1
  <2> QED
    BY <2>1, <2>2
<1>5. \A i, j \in DOMAIN r : i < j => Outranks(r[i], r[j])
  BY <1>3, <1>4
<1> QED
  BY <1>4, <1>5 DEF S, r

-----------------------------------------------------------------------------
(* The messages of a request.                                              *)

Half == max_prompt_tokens \div 2

\* What a prompt may take is a number, and so is its half.
LEMMA Budget == max_prompt_tokens \in Nat /\ Half \in Nat /\ max_prompt_tokens >= 2 * Half
                /\ max_prompt_tokens <= 2 * Half + 1
<1>1. max_prompt_tokens \in Nat
  BY ContextAssumption DEF max_prompt_tokens, Greatest
<1> QED
  BY <1>1 DEF Half

\* The last message is looked at first.
Latest(m) == Reverse(Newest(m))

\* The position of message i of n in it, and what it is estimated at.
FromEnd(n, i) == n - i + 1

\* The newest messages, from the last one on.
LEMMA LatestIs ==
    ASSUME NEW m \in Seq(Message)
    PROVE  /\ Newest(m) \in Seq(Message) /\ Len(Newest(m)) = Least(MessageLimit, Len(m))
           /\ Latest(m) \in Seq(Message) /\ Len(Latest(m)) = Least(MessageLimit, Len(m))
           /\ \A k \in 1..Len(Latest(m)) : FromEnd(Len(m), k) \in 1..Len(m) /\ Latest(m)[k] = m[FromEnd(Len(m), k)]
           /\ \A i \in 1..Len(m) :
                 Len(m) - i < MessageLimit =>
                    FromEnd(Len(m), i) \in 1..Len(Latest(m)) /\ Latest(m)[FromEnd(Len(m), i)] = m[i]
<1> DEFINE N == Len(m)  a == Greatest(1, N - MessageLimit + 1)  K == Least(MessageLimit, N)
           s == Newest(m)  l == Latest(m)
<1>1. N \in Nat /\ MessageLimit \in Nat /\ MessageLimit >= 1
  BY ContextAssumption
<1>2. a \in Nat /\ a >= 1 /\ a <= N + 1 /\ K \in Nat /\ K <= N /\ K <= MessageLimit /\ N - a + 1 = K
      /\ (K < N => K = MessageLimit)
  <2> HIDE DEF N
  <2> QED
    BY <1>1 DEF Greatest, Least
<1>3. s = SubSeq(m, a, N)
  BY DEF Newest
<1> HIDE DEF a, K, N
<1>4. s \in Seq(Message) /\ Len(s) = K /\ \A k \in 1..K : s[k] = m[a + k - 1]
  <2>1. m \in Seq(Message) /\ N = Len(m)
    BY DEF N
  <2>2. SubSeq(m, a, N) \in Seq(Message) /\ Len(SubSeq(m, a, N)) = N - a + 1
        /\ \A k \in 1..(N - a + 1) : SubSeq(m, a, N)[k] = m[a + k - 1]
    BY <1>1, <1>2, <2>1
  <2> QED
    BY <1>2, <1>3, <2>2
<1>5. l = [i \in 1..Len(s) |-> s[(Len(s) - i) + 1]]
  BY DEF Latest, Reverse
<1> HIDE DEF s, l
<1>6. l \in Seq(Message) /\ Len(l) = K
  <2>1. \A i \in 1..K : (K - i) + 1 \in 1..K
    BY <1>2
  <2>2. \A i \in 1..K : s[(K - i) + 1] \in Message
    BY <1>4, <2>1
  <2>3. l = [i \in 1..K |-> s[(K - i) + 1]]
    BY <1>4, <1>5
  <2> QED
    BY <1>2, <2>2, <2>3
<1>7. ASSUME NEW k \in 1..K PROVE FromEnd(N, k) \in 1..N /\ l[k] = m[FromEnd(N, k)]
  <2>1. l[k] = s[(K - k) + 1] /\ (K - k) + 1 \in 1..K
    BY <1>2, <1>4, <1>5
  <2>2. s[(K - k) + 1] = m[a + ((K - k) + 1) - 1]
    BY <1>4, <2>1
  <2>3. a + ((K - k) + 1) - 1 = FromEnd(N, k) /\ FromEnd(N, k) \in 1..N
    BY <1>1, <1>2 DEF FromEnd
  <2> QED
    BY <2>1, <2>2, <2>3
<1>8. ASSUME NEW i \in 1..N, N - i < MessageLimit
      PROVE  FromEnd(N, i) \in 1..K /\ l[FromEnd(N, i)] = m[i]
  <2>1. FromEnd(N, i) \in 1..K /\ FromEnd(N, FromEnd(N, i)) = i
    BY <1>1, <1>2, <1>8 DEF FromEnd
  <2> QED
    BY <1>7, <2>1
<1> QED
  BY <1>4, <1>6, <1>7, <1>8 DEF N, K, s, l

\* The estimates of messages are numbers.
LEMMA MessageTokensAre ==
    ASSUME NEW m \in Seq(Message)
    PROVE  /\ MessageTokens(m) \in Seq(Nat) /\ Len(MessageTokens(m)) = Len(m)
           /\ \A i \in 1..Len(m) : MessageTokens(m)[i] = estimate(m[i].text)
<1>1. ASSUME NEW i \in 1..Len(m) PROVE estimate(m[i].text) \in Nat
  <2>1. m[i] \in Message
    OBVIOUS
  <2>2. m[i].text \in Text
    BY <2>1 DEF Message
  <2> QED
    BY <2>2, EstimateIs
<1>2. MessageTokens(m) = [i \in 1..Len(m) |-> estimate(m[i].text)]
  BY DEF MessageTokens
<1> QED
  BY <1>1, <1>2

\* What fits of the newest is in the request, in its order.
Chosen(m)   == Fit(MessageTokens(Latest(m)), Half)
IsChosen(m, j) == IsTaken(MessageTokens(Latest(m)), Half, j)

\* The messages selected are messages that were read, those whose estimates fit into
\* half of the budget, from the last one on.
LEMMA SelectedMessages ==
    ASSUME NEW m \in Seq(Message)
    PROVE  LET kept == select_recent_messages(m)
           IN  /\ kept \in Seq(Message)
               /\ Total(MessageTokens(kept)) \in Nat /\ Total(MessageTokens(kept)) <= Half
               /\ \A j \in 1..Len(Latest(m)) : IsChosen(m, j) => Latest(m)[j] \in ToSet(kept)
<1> DEFINE l == Latest(m)  c == MessageTokens(l)  p == Chosen(m)
           t == [k \in DOMAIN p |-> l[p[k]]]  kept == select_recent_messages(m)
<1>1. l \in Seq(Message)
  BY LatestIs
<1>2. c \in Seq(Nat) /\ Len(c) = Len(l) /\ \A i \in 1..Len(l) : c[i] = estimate(l[i].text)
  BY <1>1, MessageTokensAre
<1>3. /\ p \in Seq(1..Len(c)) /\ CostsOf(c, p) \in Seq(Nat) /\ Total(CostsOf(c, p)) <= Half
  BY <1>2, Budget, FitIsInOrder DEF Chosen
<1>4. kept = Reverse(t)
  BY DEF select_recent_messages, Taken, Chosen, Latest, Half
<1> HIDE DEF l, c, p
<1>5. DOMAIN p = 1..Len(p) /\ Len(p) \in Nat /\ \A k \in 1..Len(p) : p[k] \in 1..Len(l)
  BY <1>2, <1>3, SMTT(60)
<1>6. t \in Seq(Message) /\ Len(t) = Len(p) /\ DOMAIN t = 1..Len(p) /\ \A k \in 1..Len(p) : t[k] = l[p[k]]
  <2>1. \A k \in 1..Len(p) : l[p[k]] \in Message
    BY <1>1, <1>5
  <2> QED
    BY <1>5, <2>1
<1> HIDE DEF t, kept
<1>7. kept = [i \in 1..Len(p) |-> t[(Len(p) - i) + 1]]
  BY <1>4, <1>6 DEF Reverse
<1>8. \A i \in 1..Len(p) : (Len(p) - i) + 1 \in 1..Len(p) /\ (Len(p) - ((Len(p) - i) + 1)) + 1 = i
  BY <1>5
<1>9. kept \in Seq(Message) /\ Len(kept) = Len(p)
      /\ \A i \in 1..Len(p) : kept[i] = t[(Len(p) - i) + 1]
  <2>1. \A i \in 1..Len(p) : t[(Len(p) - i) + 1] \in Message
    BY <1>6, <1>8
  <2> QED
    BY <1>5, <1>7, <2>1
<1>10. /\ MessageTokens(kept) \in Seq(Nat) /\ Len(MessageTokens(kept)) = Len(p)
       /\ \A i \in 1..Len(p) : MessageTokens(kept)[i] = estimate(kept[i].text)
  BY <1>9, MessageTokensAre
<1>11. Len(CostsOf(c, p)) = Len(p) /\ \A k \in 1..Len(p) : CostsOf(c, p)[k] = c[p[k]]
  BY <1>5 DEF CostsOf
<1>12. Total(MessageTokens(kept)) = Total(CostsOf(c, p))
  <2> DEFINE u == MessageTokens(kept)  v == CostsOf(c, p)
  <2>1. u \in Seq(Nat) /\ v \in Seq(Nat) /\ Len(u) = Len(p) /\ Len(v) = Len(p)
    BY <1>3, <1>10, <1>11
  <2>2. ASSUME NEW i \in 1..Len(p) PROVE v[i] = u[Len(p) - i + 1]
    <3>1. v[i] = c[p[i]] /\ c[p[i]] = estimate(l[p[i]].text)
      BY <1>2, <1>5, <1>11
    <3>2. Len(p) - i + 1 \in 1..Len(p) /\ (Len(p) - (Len(p) - i + 1)) + 1 = i
      BY <1>5
    <3>3. u[Len(p) - i + 1] = estimate(kept[Len(p) - i + 1].text)
      BY <1>10, <3>2
    <3>4. kept[Len(p) - i + 1] = t[i] /\ t[i] = l[p[i]]
      BY <1>6, <1>9, <3>2
    <3> QED
      BY <3>1, <3>3, <3>4
  <2> HIDE DEF u, v
  <2>3. Total(u) = Total(v)
    BY <2>1, <2>2, TotalFromEnd
  <2> QED
    BY <2>3 DEF u, v
<1>13. Total(MessageTokens(kept)) \in Nat
  BY <1>10, TotalIsNat
<1>14. ASSUME NEW j \in 1..Len(l), IsChosen(m, j) PROVE l[j] \in ToSet(kept)
  <2>1. PICK k \in DOMAIN p : p[k] = j
    BY <1>14 DEF IsChosen, IsTaken, Chosen, p, c, l
  <2>2. k \in 1..Len(p) /\ t[k] = l[j]
    BY <1>5, <1>6, <2>1
  <2>3. (Len(p) - k) + 1 \in 1..Len(p) /\ kept[(Len(p) - k) + 1] = t[k]
    BY <1>8, <1>9, <2>2
  <2>4. DOMAIN kept = 1..Len(p)
    BY <1>9
  <2> QED
    BY <2>2, <2>3, <2>4 DEF ToSet
<1> QED
  BY <1>3, <1>9, <1>12, <1>13, <1>14 DEF kept, l

-----------------------------------------------------------------------------
\* The estimate of what is in a request, or nothing.
Counted(m, kept, k) == IF m[k] \in kept THEN estimate(m[k].text) ELSE 0

\* A message that is left out does not fit beside the newer ones that are kept.
LEMMA LeftOutForNewer ==
    ASSUME NEW m \in Seq(Message), NEW i \in 1..Len(m), Len(m) - i < MessageLimit,
           m[i] \notin ToSet(select_recent_messages(m))
    PROVE  Total([j \in 1..Len(m) - i |-> Counted(m, ToSet(select_recent_messages(m)), i + j)])
             + estimate(m[i].text) > Half
<1> DEFINE N == Len(m)  l == Latest(m)  c == MessageTokens(l)  p == FromEnd(N, i)
           kept == ToSet(select_recent_messages(m))
           newer == [j \in 1..N - i |-> Counted(m, kept, i + j)]
           weights == [k \in 1..p - 1 |-> Counted(m, kept, FromEnd(N, k))]
<1>1. N \in Nat /\ i \in Nat /\ i >= 1 /\ i <= N /\ p \in Nat /\ p - 1 = N - i /\ p >= 1
  BY DEF FromEnd
<1>2. /\ l \in Seq(Message) /\ p \in 1..Len(l) /\ l[p] = m[i] /\ Len(l) \in Nat
      /\ \A k \in 1..Len(l) : FromEnd(N, k) \in 1..N /\ l[k] = m[FromEnd(N, k)]
  BY LatestIs
<1>3. c \in Seq(Nat) /\ Len(c) = Len(l) /\ \A k \in 1..Len(l) : c[k] = estimate(l[k].text)
  BY <1>2, MessageTokensAre
<1>4. \A k \in 1..Len(l) : IsChosen(m, k) => l[k] \in kept
  BY SelectedMessages
<1>5. \A k \in 1..N : Counted(m, kept, k) \in Nat
  <2>1. ASSUME NEW k \in 1..N PROVE estimate(m[k].text) \in Nat
    <3>1. MessageTokens(m) \in Seq(Nat) /\ Len(MessageTokens(m)) = N /\ MessageTokens(m)[k] = estimate(m[k].text)
      BY MessageTokensAre
    <3>2. MessageTokens(m)[k] \in Nat
      BY <3>1
    <3> QED
      BY <3>1, <3>2
  <2> HIDE DEF kept
  <2> QED
    BY <2>1 DEF Counted
<1>6. ~ IsTaken(c, Half, p)
  BY <1>2, <1>4 DEF IsChosen
<1>7. m[i] \in Message
  OBVIOUS
<1> HIDE DEF l, c, kept, p, N
<1>8. weights \in Seq(Nat) /\ Len(weights) = p - 1 /\ newer \in Seq(Nat) /\ Len(newer) = N - i
      /\ (\A k \in 1..p - 1 : weights[k] = Counted(m, kept, FromEnd(N, k)))
      /\ \A j \in 1..N - i : newer[j] = Counted(m, kept, i + j)
  <2>1. \A k \in 1..p - 1 : FromEnd(N, k) \in 1..N
    BY <1>1, <1>2, SMTT(30) DEF FromEnd
  <2>2. \A j \in 1..N - i : i + j \in 1..N
    BY <1>1
  <2> DEFINE a == p - 1  b == N - i
  <2>3. a \in Nat /\ b \in Nat
    BY <1>1
  <2>4. (\A k \in 1..a : Counted(m, kept, FromEnd(N, k)) \in Nat) /\ \A j \in 1..b : Counted(m, kept, i + j) \in Nat
    BY <1>5, <2>1, <2>2
  <2> HIDE DEF a, b
  <2>5. weights = [k \in 1..a |-> Counted(m, kept, FromEnd(N, k))]
        /\ newer = [j \in 1..b |-> Counted(m, kept, i + j)]
    BY DEF a, b
  <2> HIDE DEF weights, newer
  <2>6. weights \in Seq(Nat) /\ Len(weights) = a /\ newer \in Seq(Nat) /\ Len(newer) = b
    BY <2>3, <2>4, <2>5
  <2>7. (\A k \in 1..a : weights[k] = Counted(m, kept, FromEnd(N, k)))
        /\ \A j \in 1..b : newer[j] = Counted(m, kept, i + j)
    BY <2>5
  <2> QED
    BY <2>6, <2>7 DEF a, b
<1> HIDE DEF weights, newer
<1>9. \A k \in 1..p - 1 : IsTaken(c, Half, k) => weights[k] >= c[k]
  <2>1. ASSUME NEW k \in 1..p - 1, IsTaken(c, Half, k) PROVE weights[k] >= c[k]
    <3>1. k \in 1..Len(l)
      BY <1>1, <1>2
    <3>2. IsChosen(m, k)
      BY <2>1 DEF IsChosen, c, l
    <3>3. l[k] \in kept /\ l[k] = m[FromEnd(N, k)] /\ c[k] = estimate(l[k].text)
      BY <1>2, <1>3, <1>4, <3>1, <3>2
    <3>4. weights[k] = c[k] /\ c[k] \in Nat
      <4>1. weights[k] = estimate(m[FromEnd(N, k)].text)
        BY <1>8, <3>3 DEF Counted
      <4>2. c[k] \in Nat
        BY <1>3, <3>1
      <4> QED
        BY <3>3, <4>1, <4>2
    <3> QED
      BY <3>4
  <2> QED
    BY <2>1
<1>10. Total(weights) + c[p] > Half
  <2>1. p \in 1..Len(c) /\ Half \in Nat
    BY <1>2, <1>3, Budget
  <2> QED
    BY <1>3, <1>6, <1>8, <1>9, <2>1, FitLeavesOutOf
<1>11. Total(newer) = Total(weights)
  <2>1. Len(weights) = Len(newer)
    BY <1>1, <1>8
  <2>2. ASSUME NEW k \in 1..Len(weights) PROVE weights[k] = newer[Len(newer) - k + 1]
    <3>1. k \in 1..p - 1 /\ N - i - k + 1 \in 1..N - i /\ i + (N - i - k + 1) = FromEnd(N, k)
      <4>1. N \in Nat /\ i \in Nat /\ i <= N /\ p = N - i + 1 /\ k \in 1..p - 1
        BY <1>1, <1>8
      <4>2. N - i - k + 1 \in 1..N - i /\ i + (N - i - k + 1) = N - k + 1
        BY <4>1
      <4> QED
        BY <4>1, <4>2 DEF FromEnd
    <3>2. newer[N - i - k + 1] = Counted(m, kept, i + (N - i - k + 1))
      BY <1>8, <3>1
    <3> QED
      BY <1>8, <3>1, <3>2
  <2> QED
    BY <1>8, <2>1, <2>2, TotalFromEnd
<1>12. c[p] = estimate(m[i].text)
  BY <1>2, <1>3
<1> QED
  BY <1>10, <1>11, <1>12 DEF newer, kept, N

\* A message that fits together with all that are newer is kept.
LEMMA SentIfAllFit ==
    ASSUME NEW m \in Seq(Message), NEW i \in 1..Len(m), Len(m) - i < MessageLimit,
           Total(MessageTokens(SubSeq(m, i, Len(m)))) <= Half
    PROVE  m[i] \in ToSet(select_recent_messages(m))
<1> DEFINE N == Len(m)  l == Latest(m)  c == MessageTokens(l)  p == FromEnd(N, i)
           s == SubSeq(m, i, N)  d == MessageTokens(s)  e == SubSeq(c, 1, p)
<1>1. N \in Nat /\ i \in Nat /\ i >= 1 /\ i <= N /\ p \in Nat /\ p - 1 = N - i /\ p >= 1 /\ p = N - i + 1
  BY DEF FromEnd
<1>2. /\ l \in Seq(Message) /\ p \in 1..Len(l) /\ l[p] = m[i] /\ Len(l) \in Nat
      /\ \A k \in 1..Len(l) : FromEnd(N, k) \in 1..N /\ l[k] = m[FromEnd(N, k)]
  BY LatestIs
<1>3. c \in Seq(Nat) /\ Len(c) = Len(l) /\ \A k \in 1..Len(l) : c[k] = estimate(l[k].text)
  BY <1>2, MessageTokensAre
<1>4. s \in Seq(Message) /\ Len(s) = p /\ \A k \in 1..p : s[k] = m[i + k - 1]
  <2>1. i \in 1..Len(m) /\ N = Len(m)
    OBVIOUS
  <2> HIDE DEF N, p
  <2> QED
    BY <1>1, <2>1
<1>5. Total(d) <= Half
  OBVIOUS
<1> HIDE DEF s
<1>6. d \in Seq(Nat) /\ Len(d) = p /\ \A k \in 1..p : d[k] = estimate(s[k].text)
  BY <1>4, MessageTokensAre
<1> HIDE DEF l, c, p, N, d
<1>7. e \in Seq(Nat) /\ Len(e) = p /\ \A k \in 1..p : e[k] = c[k]
  BY <1>1, <1>2, <1>3, SMTT(60)
<1> HIDE DEF e
<1>8. Total(d) = Total(e)
  <2>1. ASSUME NEW k \in 1..p PROVE e[k] = d[p - k + 1]
    <3>1. p - k + 1 \in 1..p /\ i + (p - k + 1) - 1 = FromEnd(N, k) /\ k \in 1..Len(l)
      <4>1. N \in Nat /\ i \in Nat /\ i <= N /\ p = N - i + 1 /\ p \in 1..Len(l) /\ Len(l) \in Nat
        BY <1>1, <1>2
      <4>2. p - k + 1 \in 1..p /\ i + (p - k + 1) - 1 = N - k + 1 /\ k \in 1..Len(l)
        BY <4>1
      <4> QED
        BY <4>1, <4>2 DEF FromEnd
    <3>2. d[p - k + 1] = estimate(m[FromEnd(N, k)].text)
      BY <1>4, <1>6, <3>1
    <3>3. e[k] = estimate(l[k].text)
      BY <1>3, <1>7, <3>1
    <3> QED
      BY <1>2, <3>1, <3>2, <3>3
  <2> QED
    BY <1>6, <1>7, <2>1, TotalFromEnd
<1>9. IsTaken(c, Half, p)
  <2>1. p \in 1..Len(c) /\ Half \in Nat /\ Total(SubSeq(c, 1, p)) <= Half
    BY <1>2, <1>3, <1>5, <1>8, Budget DEF e
  <2> QED
    BY <1>3, <2>1, FitTakesAll
<1>10. IsChosen(m, p)
  BY <1>9 DEF IsChosen, c, l
<1> QED
  BY <1>2, <1>10, SelectedMessages DEF l

-----------------------------------------------------------------------------
(* The rows of a request.                                                  *)

\* What is left for the rows beside the messages that are kept.
Left(x) == Greatest(0, SystemBudget(select_recent_messages(x.messages)) - estimate(base_prompt))

\* The estimates of ranked candidates are numbers.
LEMMA RowTokensAre ==
    ASSUME NEW r, DOMAIN r = 1..Len(r), Len(r) \in Nat, \A i \in 1..Len(r) : IsCandidate(r[i])
    PROVE  /\ RowTokens(r) \in Seq(Nat) /\ Len(RowTokens(r)) = Len(r)
           /\ \A i \in 1..Len(r) : RowTokens(r)[i] = r[i].tokens
<1>1. RowTokens(r) = [i \in 1..Len(r) |-> r[i].tokens]
  BY DEF RowTokens
<1>2. \A i \in 1..Len(r) : r[i].tokens \in Nat
  BY DEF IsCandidate
<1> QED
  BY <1>1, <1>2

\* What remains is a number, and together with the messages and the base prompt
\* within the budget unless it is nothing.
LEMMA LeftIs ==
    ASSUME NEW x, IsInput(x)
    PROVE  LET use == Total(MessageTokens(select_recent_messages(x.messages)))
           IN  /\ use \in Nat /\ use <= Half
               /\ Left(x) \in Nat
               /\ Left(x) + use + estimate(base_prompt) >= max_prompt_tokens
               /\ \/ Left(x) + use + estimate(base_prompt) = max_prompt_tokens
                  \/ Left(x) = 0 /\ estimate(base_prompt) > Half
                  \/ Left(x) = 0 /\ use + estimate(base_prompt) <= max_prompt_tokens
<1> DEFINE use == Total(MessageTokens(select_recent_messages(x.messages)))  b == estimate(base_prompt)
<1>1. use \in Nat /\ use <= Half
  BY SelectedMessages DEF IsInput
<1>2. b \in Nat /\ b >= 1
  BY FixedTexts, EstimateIs
<1>3. Left(x) = Greatest(0, Greatest(0, max_prompt_tokens - use) - b)
  BY DEF Left, SystemBudget
<1> HIDE DEF use, b
<1>4. /\ Left(x) \in Nat /\ Left(x) + use + b >= max_prompt_tokens
      /\ \/ Left(x) + use + b = max_prompt_tokens
         \/ Left(x) = 0 /\ b > Half
         \/ Left(x) = 0 /\ use + b <= max_prompt_tokens
  BY <1>1, <1>2, <1>3, Budget DEF Greatest
<1> QED
  BY <1>1, <1>4 DEF use, b

\* The rows selected are candidates whose estimates fit into what is left; a
\* candidate is left out only where it does not fit beside those of a better rank.
BetterRow(y, x) == y.priority > x.priority \/ (y.priority = x.priority /\ y.tokens <= x.tokens)
MaskedTokens(rows, y) == [k \in DOMAIN rows |-> IF BetterRow(rows[k], y) THEN rows[k].tokens ELSE 0]

\* The same, about the rows that are built.
LEMMA SelectedRows ==
    ASSUME NEW x, IsInput(x)
    PROVE  LET rows == build(x).rows
           IN  /\ DOMAIN rows = 1..Len(rows) /\ Len(rows) \in Nat
               /\ \A k \in 1..Len(rows) : rows[k] \in candidates(x) /\ IsCandidate(rows[k])
               /\ Total(RowTokens(rows)) \in Nat /\ Total(RowTokens(rows)) <= Left(x)
               /\ \A y \in candidates(x) \ ToSet(rows) :
                     Total(MaskedTokens(rows, y)) + y.tokens > Left(x)
<1> DEFINE S == candidates(x)  r == ranked_candidates(x)  c == RowTokens(r)  left == Left(x)
           p == Fit(c, left)  rows == build(x).rows
<1>1. /\ r \in Seq(S) /\ DOMAIN r = 1..Len(r) /\ Len(r) \in Nat
      /\ \A y \in S : \E j \in DOMAIN r : r[j] = y
      /\ \A i, j \in DOMAIN r : i < j => Outranks(r[i], r[j])
  <2>1. r \in Seq(S)
    BY RankedCandidates
  <2> HIDE DEF r, S
  <2>2. Len(r) \in Nat
    BY <2>1
  <2> QED
    BY <2>1, <2>2, RankedCandidates DEF r, S
<1>2. left \in Nat
  BY LeftIs
<1>3. rows = [k \in DOMAIN p |-> r[p[k]]]
  BY DEF build, Taken, Left
<1>4. \A y \in S : IsCandidate(y) /\ y.tokens \in Nat
  BY CandidatesAre DEF IsCandidate
<1> HIDE DEF S, r, left
<1>5. \A i \in 1..Len(r) : r[i] \in S /\ IsCandidate(r[i])
  BY <1>1, <1>4
<1>6. c \in Seq(Nat) /\ Len(c) = Len(r) /\ \A i \in 1..Len(r) : c[i] = r[i].tokens
  BY <1>1, <1>5, RowTokensAre
<1> HIDE DEF c
<1>7. /\ p \in Seq(1..Len(c)) /\ CostsOf(c, p) \in Seq(Nat) /\ Total(CostsOf(c, p)) <= left
  BY <1>2, <1>6, FitIsInOrder
<1> HIDE DEF p
<1>8. DOMAIN p = 1..Len(p) /\ Len(p) \in Nat /\ \A k \in 1..Len(p) : p[k] \in 1..Len(r)
  BY <1>6, <1>7
<1> HIDE DEF rows
<1>9. DOMAIN rows = 1..Len(p) /\ Len(rows) = Len(p) /\ \A k \in 1..Len(p) : rows[k] = r[p[k]]
  BY <1>3, <1>8
<1>10. \A k \in 1..Len(rows) : rows[k] \in S /\ IsCandidate(rows[k])
  BY <1>5, <1>8, <1>9
<1>11. RowTokens(rows) = CostsOf(c, p)
  <2>1. \A k \in 1..Len(p) : rows[k].tokens = c[p[k]]
    BY <1>6, <1>8, <1>9
  <2> QED
    BY <1>8, <1>9, <2>1 DEF RowTokens, CostsOf
<1>12. Total(RowTokens(rows)) \in Nat /\ Total(RowTokens(rows)) <= left
  BY <1>7, <1>11, TotalIsNat
<1>13. ASSUME NEW y \in S \ ToSet(rows)
       PROVE  Total(MaskedTokens(rows, y)) + y.tokens > left
  <2>1. PICK j \in 1..Len(r) : r[j] = y
    BY <1>1
  <2>2. ~ IsTaken(c, left, j)
    <3>1. SUFFICES ASSUME NEW k \in DOMAIN p, p[k] = j PROVE FALSE
      BY DEF IsTaken, p
    <3>2. rows[k] = y /\ k \in DOMAIN rows
      BY <1>8, <1>9, <2>1, <3>1
    <3> QED
      BY <3>2 DEF ToSet
  <2>3. PICK m \in 0..Len(p) :
           /\ \A k \in 1..m : p[k] < j
           /\ [k \in 1..m |-> c[p[k]]] \in Seq(Nat)
           /\ Total([k \in 1..m |-> c[p[k]]]) + c[j] > left
    BY <1>2, <1>6, <2>1, <2>2, FitLeavesOut DEF p
  <2> DEFINE s == [k \in 1..m |-> c[p[k]]]  t == MaskedTokens(rows, y)
  <2>4. t \in Seq(Nat) /\ Len(t) = Len(p)
        /\ \A k \in 1..Len(p) : t[k] = IF BetterRow(rows[k], y) THEN rows[k].tokens ELSE 0
    <3>1. t = [k \in 1..Len(p) |-> IF BetterRow(rows[k], y) THEN rows[k].tokens ELSE 0]
      BY <1>9 DEF MaskedTokens
    <3>2. \A k \in 1..Len(p) : rows[k].tokens \in Nat
      BY <1>9, <1>10 DEF IsCandidate
    <3> HIDE DEF t
    <3>3. \A k \in 1..Len(p) : (IF BetterRow(rows[k], y) THEN rows[k].tokens ELSE 0) \in Nat
      BY <3>2
    <3> QED
      BY <1>8, <3>1, <3>3
  <2>5. m \in Nat /\ m <= Len(p) /\ Len(s) = m /\ \A k \in 1..m : k \in 1..Len(p) /\ s[k] = c[p[k]]
    BY <1>8
  <2>6. \A k \in 1..m : s[k] <= t[k]
    <3>1. ASSUME NEW k \in 1..m PROVE s[k] <= t[k]
      <4>1. k \in 1..Len(p) /\ s[k] = c[p[k]] /\ p[k] < j /\ p[k] \in 1..Len(r) /\ rows[k] = r[p[k]]
        BY <1>8, <1>9, <2>3, <2>5
      <4>2. Outranks(rows[k], y)
        BY <1>1, <2>1, <4>1
      <4>3. IsCandidate(rows[k]) /\ IsCandidate(y)
        BY <1>4, <1>9, <1>10, <4>1
      <4>4. BetterRow(rows[k], y)
        BY <4>2, <4>3 DEF Outranks, BetterRow, IsCandidate
      <4>5. t[k] = rows[k].tokens
        BY <2>4, <4>1, <4>4
      <4>6. s[k] = rows[k].tokens /\ rows[k].tokens \in Nat
        BY <1>6, <4>1, <4>3 DEF IsCandidate
      <4> QED
        BY <4>5, <4>6
    <3> QED
      BY <3>1
  <2>7. s \in Seq(Nat)
    BY <2>3
  <2>8. Total(s) + c[j] > left
    BY <2>3
  <2> HIDE DEF s, t
  <2>9. Total(s) <= Total(t)
    BY <2>4, <2>5, <2>6, <2>7, TotalGrows
  <2>10. Total(s) \in Nat /\ Total(t) \in Nat /\ c[j] = y.tokens /\ y.tokens \in Nat
    BY <1>4, <1>6, <2>1, <2>4, <2>7, TotalIsNat
  <2> QED
    BY <1>2, <2>8, <2>9, <2>10 DEF t
<1> QED
  BY <1>8, <1>9, <1>10, <1>12, <1>13 DEF rows, S, left

-----------------------------------------------------------------------------
(* The prompt as it is kept.                                               *)

\* What row n adds: its line, and the title if it is the first of its kind.
Line(rows, n)  == Join(rows[n].text, NewLine)
Known(rows, n) == \E m \in 1..n - 1 : rows[m].kind = rows[n].kind
Added(rows, n) == IF Known(rows, n) THEN Line(rows, n) ELSE Join(Title[rows[n].kind], Line(rows, n))
KindsOf(rows, n) == {rows[m].kind : m \in 1..n}

IsRows(rows) == DOMAIN rows = 1..Len(rows) /\ Len(rows) \in Nat /\ \A k \in 1..Len(rows) : IsCandidate(rows[k])

IsRendered(text, rows) ==
    /\ text \in [0..Len(rows) -> Text] /\ text[0] = base_prompt
    /\ \A n \in 1..Len(rows) : text[n] = Join(text[n - 1], Added(rows, n))
    /\ render_sections(rows) = text[Len(rows)]

\* What a row adds takes at most what is counted for it, and four more with a title.
LEMMA AddedTokens ==
    ASSUME NEW rows, IsRows(rows), NEW n \in 1..Len(rows)
    PROVE  /\ Added(rows, n) \in Text /\ rows[n].tokens \in Nat
           /\ estimate(Added(rows, n)) <= rows[n].tokens + (IF Known(rows, n) THEN 0 ELSE 4)
<1> DEFINE t == rows[n].text  k == rows[n].kind  line == Line(rows, n)  title == Title[k]
<1>1. t \in Text /\ k \in Kinds /\ rows[n].tokens \in Nat /\ rows[n].tokens = estimate(t) + 4
  BY DEF IsRows, IsCandidate
<1>2. estimate(t) \in Nat
  BY <1>1, EstimateIs
<1>3. NewLine \in Text /\ estimate(NewLine) <= 1 /\ estimate(NewLine) \in Nat
  BY FixedTexts, EstimateIs
<1>4. title \in Text /\ estimate(title) <= 7 /\ estimate(title) \in Nat
  BY <1>1, FixedTexts, EstimateIs
<1>5. line \in Text /\ estimate(line) <= estimate(t) + estimate(NewLine)
  BY <1>1, <1>3, EstimateJoins DEF Line
<1>6. estimate(line) \in Nat
  BY <1>5, EstimateIs
<1> HIDE DEF line, title
<1>7. Join(title, line) \in Text /\ estimate(Join(title, line)) <= estimate(title) + estimate(line)
  BY <1>4, <1>5, EstimateJoins
<1>8. estimate(Join(title, line)) \in Nat
  BY <1>7, EstimateIs
<1>9. Added(rows, n) = IF Known(rows, n) THEN line ELSE Join(title, line)
  BY DEF Added, line, title
<1>10. CASE Known(rows, n)
  <2>1. Added(rows, n) = line
    BY <1>9, <1>10
  <2>2. estimate(line) <= rows[n].tokens
    BY <1>1, <1>2, <1>3, <1>5, <1>6
  <2> QED
    BY <1>1, <1>5, <1>10, <2>1, <2>2
<1>11. CASE ~ Known(rows, n)
  <2>1. Added(rows, n) = Join(title, line)
    BY <1>9, <1>11
  <2>2. estimate(Join(title, line)) <= rows[n].tokens + 4
    BY <1>1, <1>2, <1>3, <1>4, <1>5, <1>6, <1>7, <1>8
  <2> QED
    BY <1>1, <1>7, <1>11, <2>1, <2>2
<1> QED
  BY <1>10, <1>11

\* The prompt is put together row by row.
LEMMA RenderedIs == ASSUME NEW rows, IsRows(rows) PROVE \E text : IsRendered(text, rows)
<1> DEFINE N == Len(rows)
           Add(n) == [x \in Text |-> Join(x, Added(rows, n))]
           step == [n \in 1..N |-> Add(n)]
<1>0. N \in Nat /\ base_prompt \in Text /\ \A n \in 1..N : Added(rows, n) \in Text
  BY FixedTexts, AddedTokens DEF IsRows
<1> HIDE DEF N
<1>1. step \in Seq([Text -> Text]) /\ Len(step) = N
  <2>1. \A n \in 1..N : Add(n) \in [Text -> Text]
    BY <1>0, EstimateJoins
  <2> HIDE DEF Add
  <2> QED
    BY <1>0, <2>1
<1>2. PICK f : IsRecursion(f, Text, base_prompt, step)
  <2> HIDE DEF step
  <2> QED
    BY <1>0, <1>1, Recursion
<1>3. f \in [0..N -> Text] /\ f[0] = base_prompt /\ \A n \in 1..N : f[n] = step[n][f[n - 1]]
  <2> HIDE DEF step
  <2> QED
    BY <1>1, <1>2 DEF IsRecursion
<1>4. \A n \in 1..N : n - 1 \in 0..N /\ n \in 0..N /\ n # 0
  BY <1>0
<1>5. \A n \in 1..N : f[n] = Join(f[n - 1], Added(rows, n))
  <2>1. \A n \in 1..N : f[n - 1] \in Text
    BY <1>3, <1>4
  <2> QED
    BY <1>3, <2>1
<1> HIDE DEF step
<1>6. f = [n \in 0..N |-> IF n = 0 THEN base_prompt ELSE Join(f[n - 1], Added(rows, n))]
  <2>1. \A n \in 0..N : f[n] = IF n = 0 THEN base_prompt ELSE Join(f[n - 1], Added(rows, n))
    BY <1>0, <1>3, <1>5
  <2> QED
    BY <1>3, <2>1
<1> DEFINE text == CHOOSE g : g = [n \in 0..N |-> IF n = 0 THEN base_prompt ELSE Join(g[n - 1], Added(rows, n))]
<1>7. text = [n \in 0..N |-> IF n = 0 THEN base_prompt ELSE Join(text[n - 1], Added(rows, n))]
  BY <1>6
<1>8. render_sections(rows) = text[N]
  BY DEF render_sections, Added, Known, Line, N
<1> HIDE DEF text
<1>9. text[0] = base_prompt /\ \A n \in 1..N : text[n] = Join(text[n - 1], Added(rows, n))
  BY <1>0, <1>4, <1>7
<1> DEFINE S == {n \in 0..N : text[n] \in Text}
<1>10. 0 \in S
  BY <1>0, <1>9
<1>11. ASSUME NEW n \in 0..(N - 1), n \in S PROVE n + 1 \in S
  <2>1. n + 1 \in 1..N /\ (n + 1) - 1 = n /\ text[n] \in Text /\ n + 1 \in 0..N
    BY <1>0, <1>11
  <2>2. text[n + 1] = Join(text[n], Added(rows, n + 1))
    BY <1>9, <2>1
  <2> QED
    BY <1>0, <2>1, <2>2, EstimateJoins
<1> HIDE DEF S
<1>12. \A n \in 0..N : n \in S
  BY <1>0, <1>10, <1>11, UpTo
<1>13. text \in [0..N -> Text]
  BY <1>7, <1>12 DEF S
<1>14. IsRendered(text, rows)
  BY <1>8, <1>9, <1>13 DEF IsRendered, N
<1> QED
  BY <1>14

\* The prompt takes at most what is counted for its rows, and four for each title.
LEMMA RenderedTokens ==
    ASSUME NEW rows, IsRows(rows)
    PROVE  /\ estimate(render_sections(rows)) \in Nat
           /\ Cardinality({x.kind : x \in ToSet(rows)}) \in Nat
           /\ estimate(render_sections(rows))
                <= estimate(base_prompt) + Total(RowTokens(rows)) + 4 * Cardinality({x.kind : x \in ToSet(rows)})
<1> DEFINE N == Len(rows)  c == RowTokens(rows)  b == estimate(base_prompt)
           K(n) == Cardinality(KindsOf(rows, n))
<1>1. N \in Nat /\ DOMAIN rows = 1..N
  BY DEF IsRows
<1>2. c \in Seq(Nat) /\ Len(c) = N /\ \A i \in 1..N : c[i] = rows[i].tokens
  BY RowTokensAre DEF IsRows
<1> HIDE DEF N, c
<1>3. PICK text : IsRendered(text, rows)
  BY RenderedIs
<1>4. PICK f : IsTotal(f, c)
  BY <1>2, TotalIs
<1>5. /\ text \in [0..N -> Text] /\ text[0] = base_prompt
      /\ (\A n \in 1..N : text[n] = Join(text[n - 1], Added(rows, n)))
      /\ render_sections(rows) = text[N]
  BY <1>3 DEF IsRendered, N
<1>6. f \in [0..N -> Nat] /\ f[0] = 0 /\ (\A n \in 1..N : f[n] = f[n - 1] + c[n]) /\ Total(c) = f[N]
  BY <1>2, <1>4 DEF IsTotal
<1>7. b \in Nat
  BY FixedTexts, EstimateIs
<1>8. \A n \in 0..N : estimate(text[n]) \in Nat
  BY <1>5, EstimateIs
<1> HIDE DEF b
<1> DEFINE S == {n \in 0..N : /\ IsFiniteSet(KindsOf(rows, n))
                              /\ estimate(text[n]) <= b + f[n] + 4 * K(n)}
<1>9. 0 \in S
  <2>1. KindsOf(rows, 0) = {}
    BY DEF KindsOf
  <2>2. IsFiniteSet(KindsOf(rows, 0)) /\ K(0) = 0
    BY <2>1, FS_EmptySet
  <2>3. estimate(text[0]) = b
    BY <1>5 DEF b
  <2> QED
    BY <1>1, <1>6, <1>7, <2>2, <2>3
<1>10. ASSUME NEW n \in 0..(N - 1), n \in S PROVE n + 1 \in S
  <2>1. n + 1 \in 1..N /\ (n + 1) - 1 = n /\ n \in 0..N /\ n + 1 \in 0..N
    BY <1>1
  <2>2. IsFiniteSet(KindsOf(rows, n)) /\ estimate(text[n]) <= b + f[n] + 4 * K(n)
    BY <1>10
  <2>3. K(n) \in Nat
    BY <2>2, FS_CardinalityType
  <2>4. KindsOf(rows, n + 1) = KindsOf(rows, n) \cup {rows[n + 1].kind}
    <3>1. 1..n + 1 = (1..n) \cup {n + 1}
      BY <2>1
    <3> QED
      BY <3>1 DEF KindsOf
  <2>5. Known(rows, n + 1) <=> rows[n + 1].kind \in KindsOf(rows, n)
    BY <2>1 DEF Known, KindsOf
  <2>6. /\ IsFiniteSet(KindsOf(rows, n + 1))
        /\ K(n + 1) = IF Known(rows, n + 1) THEN K(n) ELSE K(n) + 1
    BY <2>2, <2>4, <2>5, FS_AddElement
  <2>7. /\ Added(rows, n + 1) \in Text /\ rows[n + 1].tokens \in Nat
        /\ estimate(Added(rows, n + 1)) <= rows[n + 1].tokens + (IF Known(rows, n + 1) THEN 0 ELSE 4)
    BY <2>1, AddedTokens DEF N
  <2>8. text[n + 1] = Join(text[n], Added(rows, n + 1)) /\ text[n] \in Text
    BY <1>5, <2>1
  <2>9. estimate(text[n + 1]) <= estimate(text[n]) + estimate(Added(rows, n + 1))
    BY <2>7, <2>8, EstimateJoins
  <2>10. f[n + 1] = f[n] + rows[n + 1].tokens /\ f[n] \in Nat /\ f[n + 1] \in Nat
    BY <1>2, <1>6, <2>1
  <2>11. estimate(Added(rows, n + 1)) \in Nat /\ estimate(text[n]) \in Nat /\ estimate(text[n + 1]) \in Nat
    BY <1>8, <2>1, <2>7, EstimateIs
  <2>12. estimate(text[n + 1]) <= b + f[n + 1] + 4 * K(n + 1)
    <3> DEFINE e0 == estimate(text[n])  e1 == estimate(text[n + 1])  a == estimate(Added(rows, n + 1))
               t == rows[n + 1].tokens  f0 == f[n]  f1 == f[n + 1]  k0 == K(n)  k1 == K(n + 1)
               more == Known(rows, n + 1)
    <3>1. /\ e0 \in Nat /\ e1 \in Nat /\ a \in Nat /\ t \in Nat /\ f0 \in Nat /\ f1 \in Nat /\ k0 \in Nat
          /\ e0 <= b + f0 + 4 * k0 /\ e1 <= e0 + a /\ f1 = f0 + t
          /\ a <= t + (IF more THEN 0 ELSE 4) /\ k1 = IF more THEN k0 ELSE k0 + 1
      BY <2>2, <2>3, <2>6, <2>7, <2>9, <2>10, <2>11
    <3> HIDE DEF e0, e1, a, t, f0, f1, k0, k1, more
    <3>2. CASE more
      <4>1. a <= t /\ k1 = k0
        BY <3>1, <3>2
      <4>2. e1 <= b + f1 + 4 * k1
        BY <1>7, <3>1, <4>1
      <4> QED
        BY <4>2 DEF e1, f1, k1
    <3>3. CASE ~ more
      <4>1. a <= t + 4 /\ k1 = k0 + 1
        BY <3>1, <3>3
      <4>2. e1 <= b + f1 + 4 * k1
        BY <1>7, <3>1, <4>1
      <4> QED
        BY <4>2 DEF e1, f1, k1
    <3> QED
      BY <3>2, <3>3
  <2> QED
    BY <2>1, <2>6, <2>12
<1> HIDE DEF S
<1>11. \A n \in 0..N : n \in S
  BY <1>1, <1>9, <1>10, UpTo
<1>12. N \in 0..N
  BY <1>1
<1>13. IsFiniteSet(KindsOf(rows, N)) /\ estimate(text[N]) <= b + f[N] + 4 * K(N)
  BY <1>11, <1>12 DEF S
<1>14. KindsOf(rows, N) = {x.kind : x \in ToSet(rows)}
  BY <1>1 DEF KindsOf, ToSet
<1>15. Cardinality(KindsOf(rows, N)) \in Nat
  BY <1>13, FS_CardinalityType
<1> QED
  BY <1>5, <1>6, <1>8, <1>12, <1>13, <1>14, <1>15 DEF c, b

-----------------------------------------------------------------------------
(* The search.                                                             *)

\* The memory of a session: chunks with ids of their own.
IsMemory(M) ==
    /\ M \subseteq Chunk /\ IsFiniteSet(M)
    /\ \A c, d \in M : c.id = d.id => c = d

\* What queries have found in it.
IsFound(found, M) ==
    /\ found \subseteq [chunk: M, score: Int] /\ IsFiniteSet(found)
    /\ \A x \in found : x.chunk.own

\* A finite set of numbers has a greatest.
LEMMA MaxIs ==
    ASSUME NEW S, S \subseteq Int, IsFiniteSet(S), S # {}
    PROVE  Max(S) \in S /\ \A y \in S : Max(S) >= y
<1> DEFINE R == {p \in S \X S : p[1] > p[2]}
<1>1. \A x, y \in S : <<x, y>> \in R <=> x > y
  OBVIOUS
<1>2. IsOrder(S, R)
  <2> HIDE DEF R
  <2> QED
    BY <1>1 DEF IsOrder
<1>3. 0 \in 0..(Cardinality(S) - 1)
  <2>1. Cardinality(S) \in Nat /\ Cardinality(S) # 0
    BY FS_CardinalityType, FS_EmptySet
  <2> QED
    BY <2>1
<1>4. PICK x \in S : Rank(S, R, x) = 0
  <2> HIDE DEF R
  <2> QED
    BY <1>2, <1>3, RankIsOnto
<1>5. Before(S, R, x) = {}
  <2>1. IsFiniteSet(Before(S, R, x))
    <3> HIDE DEF R
    <3> QED
      BY <1>2, RankGrows
  <2> QED
    BY <1>4, <2>1, FS_EmptySet DEF Rank
<1>6. \A y \in S : x >= y
  <2>1. ASSUME NEW y \in S PROVE x >= y
    <3>1. ~ (y > x)
      BY <1>1, <1>5 DEF Before
    <3>2. x \in Int /\ y \in Int
      OBVIOUS
    <3> QED
      BY <3>1, <3>2
  <2> QED
    BY <2>1
<1> QED
  BY <1>6 DEF Max

\* A chunk that was found has a best score.
LEMMA BestScoreIs ==
    ASSUME NEW M, NEW found, IsFound(found, M), NEW x \in found
    PROVE  BestScore(found, x.chunk) \in Int /\ BestScore(found, x.chunk) >= x.score
<1> DEFINE F == {y \in found : y.chunk = x.chunk}  S == {y.score : y \in F}  f == [y \in F |-> y.score]
<1>1. F \subseteq found /\ IsFiniteSet(F)
  BY FS_Subset DEF IsFound
<1>2. f \in Surjection(F, S)
  BY DEF Surjection
<1>3. IsFiniteSet(S)
  <2> HIDE DEF f, S, F
  <2> QED
    BY <1>1, <1>2, FS_Surjection
<1>4. S \subseteq Int /\ x.score \in S
  BY DEF IsFound
<1>5. BestScore(found, x.chunk) = Max(S)
  BY DEF BestScore
<1> HIDE DEF S
<1>6. Max(S) \in S /\ \A y \in S : Max(S) >= y
  BY <1>3, <1>4, MaxIs
<1> QED
  BY <1>4, <1>5, <1>6

\* A chunk is one hit, with a score as good as any it was found with.
LEMMA HitsAre ==
    ASSUME NEW M, IsMemory(M), NEW found, IsFound(found, M), NEW blank \in BOOLEAN
    PROVE  /\ \A h \in HitsOf(found, blank) :
                 h \in [chunk: M, score: Int] /\ h.chunk.own /\ h.chunk.id \in Nat
           /\ \A h, g \in HitsOf(found, blank) : h.chunk = g.chunk => h = g
           /\ \A x \in found :
                 (x.score > 0 \/ blank) =>
                    \E h \in HitsOf(found, blank) : h.chunk = x.chunk /\ h.score >= x.score
           /\ IsFiniteSet(HitsOf(found, blank))
<1> DEFINE H == HitsOf(found, blank)
           F == {y \in found : BestScore(found, y.chunk) > 0 \/ blank}
           Hit(x) == [chunk |-> x.chunk, score |-> BestScore(found, x.chunk)]
           f == [x \in F |-> Hit(x)]
<1>1. H = {Hit(x) : x \in F}
  BY DEF HitsOf
<1>2. F \subseteq found /\ IsFiniteSet(F)
  BY FS_Subset DEF IsFound
<1>3. \A x \in found : x \in [chunk: M, score: Int] /\ x.chunk.own /\ x.chunk \in M /\ x.score \in Int
  BY DEF IsFound
<1>4. \A x \in M : x.id \in Nat
  BY DEF IsMemory, Chunk
<1>5. f \in Surjection(F, H)
  BY <1>1 DEF Surjection
<1>6. IsFiniteSet(H)
  <2> HIDE DEF f, H, F
  <2> QED
    BY <1>2, <1>5, FS_Surjection
<1> HIDE DEF F, H, f
<1>7. ASSUME NEW h \in H PROVE h \in [chunk: M, score: Int] /\ h.chunk.own /\ h.chunk.id \in Nat
  <2>1. PICK x \in F : h = Hit(x)
    BY <1>1
  <2>2. x \in found
    BY <1>2
  <2>3. BestScore(found, x.chunk) \in Int
    BY <2>2, BestScoreIs
  <2> QED
    BY <1>3, <1>4, <2>1, <2>2, <2>3
<1>8. \A h, g \in H : h.chunk = g.chunk => h = g
  BY <1>1
<1>9. ASSUME NEW x \in found, x.score > 0 \/ blank PROVE \E h \in H : h.chunk = x.chunk /\ h.score >= x.score
  <2>1. BestScore(found, x.chunk) \in Int /\ BestScore(found, x.chunk) >= x.score
    BY BestScoreIs
  <2>2. x.score \in Int
    BY <1>3
  <2>3. BestScore(found, x.chunk) > 0 \/ blank
    BY <1>9, <2>1, <2>2
  <2>4. x \in F
    BY <2>3 DEF F
  <2>5. Hit(x) \in H
    BY <1>1, <2>4
  <2>6. Hit(x).chunk = x.chunk /\ Hit(x).score = BestScore(found, x.chunk)
    OBVIOUS
  <2> QED
    BY <2>1, <2>5, <2>6
<1> QED
  BY <1>6, <1>7, <1>8, <1>9 DEF H

\* Hits are ordered by their score, newer chunks first.
LEMMA HitsOrder ==
    ASSUME NEW M, IsMemory(M), NEW found, IsFound(found, M), NEW blank \in BOOLEAN
    PROVE  IsOrder(HitsOf(found, blank), BestHitFirst(HitsOf(found, blank)))
<1> DEFINE H == HitsOf(found, blank)
<1>1. /\ \A h \in H : h.score \in Int /\ h.chunk.id \in Nat /\ h.chunk \in M
      /\ \A h, g \in H : h.chunk = g.chunk => h = g
      /\ IsFiniteSet(H)
  BY HitsAre
<1>2. \A h, g \in H : h # g => h.chunk.id # g.chunk.id
  BY <1>1 DEF IsMemory
<1> HIDE DEF H
<1>3. \A h, g \in H : <<h, g>> \in BestHitFirst(H) <=>
         (h.score > g.score \/ (h.score = g.score /\ h.chunk.id > g.chunk.id))
  BY DEF BestHitFirst, Newer
<1>4. \A h \in H : <<h, h>> \notin BestHitFirst(H)
  BY <1>1, <1>3
<1>5. ASSUME NEW h \in H, NEW g \in H, NEW e \in H, <<h, g>> \in BestHitFirst(H), <<g, e>> \in BestHitFirst(H)
      PROVE  <<h, e>> \in BestHitFirst(H)
  <2>1. h.score \in Int /\ g.score \in Int /\ e.score \in Int
        /\ h.chunk.id \in Nat /\ g.chunk.id \in Nat /\ e.chunk.id \in Nat
    BY <1>1
  <2>2. h.score > g.score \/ (h.score = g.score /\ h.chunk.id > g.chunk.id)
    BY <1>3, <1>5
  <2>3. g.score > e.score \/ (g.score = e.score /\ g.chunk.id > e.chunk.id)
    BY <1>3, <1>5
  <2>4. h.score > e.score \/ (h.score = e.score /\ h.chunk.id > e.chunk.id)
    BY <2>1, <2>2, <2>3
  <2> QED
    BY <1>3, <2>4
<1>6. ASSUME NEW h \in H, NEW g \in H, h # g
      PROVE  <<h, g>> \in BestHitFirst(H) \/ <<g, h>> \in BestHitFirst(H)
  <2>1. h.score \in Int /\ g.score \in Int /\ h.chunk.id \in Nat /\ g.chunk.id \in Nat
        /\ h.chunk.id # g.chunk.id
    BY <1>1, <1>2, <1>6
  <2>2. \/ h.score > g.score \/ (h.score = g.score /\ h.chunk.id > g.chunk.id)
        \/ g.score > h.score \/ (g.score = h.score /\ g.chunk.id > h.chunk.id)
    BY <2>1
  <2> QED
    BY <1>3, <2>2
<1> QED
  BY <1>1, <1>4, <1>5, <1>6 DEF IsOrder, H

\* The limit of a listing.
LEMMA LimitIs ==
    ASSUME NEW limit \in Nat
    PROVE  /\ normalize_limit(limit) \in Nat /\ normalize_limit(limit) >= 1
           /\ memory_candidate_limit(limit) \in Nat /\ memory_candidate_limit(limit) >= 1
<1>1. normalize_limit(limit) \in Nat /\ normalize_limit(limit) >= 1
  BY MemorySearchAssumption DEF normalize_limit, Least
<1>2. normalize_limit(limit) * PerHit \in Nat
  BY <1>1, MemorySearchAssumption
<1>3. Least(MaxCandidates, normalize_limit(limit) * PerHit) \in Nat
  BY <1>2, MemorySearchAssumption DEF Least
<1>4. MinCandidates \in Nat /\ MinCandidates >= 1
  BY MemorySearchAssumption
<1>5. memory_candidate_limit(limit) = Greatest(MinCandidates, Least(MaxCandidates, normalize_limit(limit) * PerHit))
  BY DEF memory_candidate_limit
<1>6. memory_candidate_limit(limit) \in Nat /\ memory_candidate_limit(limit) >= 1
  BY <1>3, <1>4, <1>5 DEF Greatest
<1> QED
  BY <1>1, <1>6

\* r has up to n of the hits H, each once and the best first; where one is missing, or
\* a number of them, those in r score as well.
IsRanked(r, H, n) ==
    /\ r \in Seq(H) /\ DOMAIN r = 1..Len(r) /\ Len(r) = Least(n, Cardinality(H))
    /\ \A i, j \in DOMAIN r : r[i].chunk = r[j].chunk => i = j
    /\ \A i, j \in DOMAIN r : i < j => r[i].score >= r[j].score
    /\ \A h \in H : \/ \E i \in DOMAIN r : r[i] = h
                    \/ Len(r) >= n /\ \A i \in 1..n : r[i].score >= h.score
    /\ \A v \in Int, G \in SUBSET H :
          (\A h \in G : h.score >= v) =>
             /\ Len(r) >= Least(n, Cardinality(G))
             /\ \A i \in DOMAIN r : i <= Cardinality(G) => r[i].score >= v

\* The best hits are returned.
LEMMA RankedHits ==
    ASSUME NEW M, IsMemory(M), NEW found, IsFound(found, M), NEW blank \in BOOLEAN, NEW limit \in Nat
    PROVE  IsRanked(rank_memory_candidates(found, blank, limit), HitsOf(found, blank), normalize_limit(limit))
<1> DEFINE H == HitsOf(found, blank)  R == BestHitFirst(H)  t == Sorted(H, R)
           N == Cardinality(H)  n == normalize_limit(limit)  m == Least(n, N)
           r == rank_memory_candidates(found, blank, limit)
<1>1. IsOrder(H, R) /\ IsFiniteSet(H)
  BY HitsOrder, HitsAre
<1>2. /\ \A h \in H : h.score \in Int
      /\ \A h, g \in H : h.chunk = g.chunk => h = g
  BY HitsAre
<1>3. n \in Nat /\ n >= 1
  BY LimitIs
<1>4. r = SubSeq(t, 1, m)
  BY DEF rank_memory_candidates
<1>5. \A h, g : <<h, g>> \in R => h \in H /\ g \in H /\ (h.score > g.score \/ h.score = g.score)
  BY DEF BestHitFirst
<1> HIDE DEF H, R
<1>6. /\ N \in Nat /\ t \in Seq(H) /\ Len(t) = N /\ DOMAIN t = 1..N
      /\ \A i \in 1..N : t[i] \in H /\ Rank(H, R, t[i]) = i - 1
      /\ \A x \in H : Rank(H, R, x) + 1 \in 1..N /\ t[Rank(H, R, x) + 1] = x
      /\ \A i, j \in 1..N : i < j => <<t[i], t[j]>> \in R
      /\ \A i, j \in 1..N : t[i] = t[j] => i = j
  BY <1>1, SortedIs
<1> HIDE DEF t, N, n, r
<1>7. m \in Nat /\ m <= N /\ m <= n /\ (m < N => m = n)
  BY <1>3, <1>6 DEF Least
<1> HIDE DEF m
<1>8. /\ r \in Seq(H) /\ Len(r) = m /\ DOMAIN r = 1..m
      /\ \A i \in 1..m : i \in 1..N /\ r[i] = t[i]
  BY <1>4, <1>6, <1>7, SMTT(60)
<1>9. \A i, j \in 1..N : i < j => t[i].score >= t[j].score
  <2>1. ASSUME NEW i \in 1..N, NEW j \in 1..N, i < j PROVE t[i].score >= t[j].score
    <3>1. <<t[i], t[j]>> \in R
      BY <1>6, <2>1
    <3>2. t[i].score \in Int /\ t[j].score \in Int
      BY <1>2, <1>6
    <3> QED
      BY <1>5, <3>1, <3>2
  <2> QED
    BY <2>1
<1>10. ASSUME NEW i \in DOMAIN r, NEW j \in DOMAIN r, r[i].chunk = r[j].chunk PROVE i = j
  <2>1. i \in 1..N /\ j \in 1..N /\ r[i] = t[i] /\ r[j] = t[j] /\ t[i] \in H /\ t[j] \in H
    BY <1>6, <1>8
  <2>2. t[i] = t[j]
    BY <1>2, <1>10, <2>1
  <2> QED
    BY <1>6, <2>1, <2>2
<1>11. ASSUME NEW i \in DOMAIN r, NEW j \in DOMAIN r, i < j PROVE r[i].score >= r[j].score
  BY <1>8, <1>9, <1>11
<1>12. ASSUME NEW h \in H, \A i \in DOMAIN r : r[i] # h
       PROVE  Len(r) >= n /\ \A i \in 1..n : r[i].score >= h.score
  <2> DEFINE k == Rank(H, R, h) + 1
  <2>1. k \in 1..N /\ t[k] = h
    BY <1>6
  <2> HIDE DEF k
  <2>2. k > m
    <3>1. k \notin 1..m
      BY <1>8, <1>12, <2>1
    <3> QED
      BY <1>6, <1>7, <2>1, <3>1
  <2>3. m = n
    BY <1>6, <1>7, <2>1, <2>2
  <2>4. ASSUME NEW i \in 1..n PROVE r[i].score >= h.score
    <3>0. i \in 1..m /\ k \in 1..N /\ k \in Int /\ i \in Int
      BY <1>3, <2>1, <2>3
    <3>1. i \in 1..N /\ i < k /\ r[i] = t[i]
      BY <1>7, <1>8, <2>2, <3>0
    <3> QED
      BY <1>9, <2>1, <3>1
  <2> QED
    BY <1>3, <1>8, <2>3, <2>4
<1>13. ASSUME NEW v \in Int, NEW T \in SUBSET H, \A h \in T : h.score >= v
       PROVE  /\ Len(r) >= Least(n, Cardinality(T))
              /\ \A i \in DOMAIN r : i <= Cardinality(T) => r[i].score >= v
  <2>1. IsFiniteSet(T) /\ Cardinality(T) <= N /\ Cardinality(T) \in Nat
    BY <1>1, FS_Subset, FS_CardinalityType DEF N
  <2>2. Len(r) >= Least(n, Cardinality(T))
    BY <1>3, <1>6, <1>7, <1>8, <2>1 DEF Least, m
  <2>3. ASSUME NEW i \in DOMAIN r, i <= Cardinality(T) PROVE r[i].score >= v
    <3>1. i \in 1..N /\ r[i] = t[i] /\ t[i] \in H /\ t[i].score \in Int /\ Rank(H, R, t[i]) = i - 1
      BY <1>2, <1>6, <1>8
    <3>2. SUFFICES ASSUME t[i].score < v PROVE FALSE
      BY <3>1
    <3>3. T \subseteq Before(H, R, t[i])
      <4>1. ASSUME NEW h \in T PROVE <<h, t[i]>> \in R
        <5>1. h \in H /\ h.score \in Int /\ h.score >= v
          BY <1>2, <1>13
        <5>2. <<t[i], h>> \notin R
          BY <1>5, <3>1, <3>2, <5>1
        <5>3. h # t[i]
          BY <3>1, <3>2, <5>1
        <5> QED
          BY <1>1, <3>1, <5>1, <5>2, <5>3 DEF IsOrder
      <4> QED
        BY <4>1 DEF Before
    <3>4. IsFiniteSet(Before(H, R, t[i]))
      BY <1>1, <3>1, RankGrows
    <3>5. Cardinality(T) <= Rank(H, R, t[i])
      BY <3>3, <3>4, FS_Subset DEF Rank
    <3> QED
      BY <1>6, <2>1, <2>3, <3>1, <3>5
  <2> QED
    BY <2>2, <2>3
<1>14. \A h \in H : \/ \E i \in DOMAIN r : r[i] = h
                    \/ Len(r) >= n /\ \A i \in 1..n : r[i].score >= h.score
  BY <1>12
<1>15. DOMAIN r = 1..Len(r) /\ Len(r) = m
  BY <1>8
<1> QED
  BY <1>8, <1>10, <1>11, <1>13, <1>14, <1>15 DEF IsRanked, H, r, n, m, N

-----------------------------------------------------------------------------
\* A chunk scored.
LEMMA ScoredIs ==
    ASSUME NEW M, IsMemory(M), NEW c \in M, NEW lexical \in Int
    PROVE  /\ Scored(c, lexical) \in [chunk: M, score: Int] /\ Scored(c, lexical).chunk = c
           /\ Scored(c, lexical).score >= lexical
           /\ c.id \in Nat /\ c.bm25 \in Int /\ c.own \in BOOLEAN
           /\ \A blank \in BOOLEAN : lexical_score(c, blank) \in Int
<1>1. c \in Chunk
  BY DEF IsMemory
<1>2. c.cosine \in Int /\ c.terms \in Int /\ c.bm25 \in Int /\ c.id \in Nat /\ c.own \in BOOLEAN
  <2>1. c.cosine \in -100..100 /\ c.terms \in 0..100 /\ c.bm25 \in Int /\ c.id \in Nat /\ c.own \in BOOLEAN
    BY <1>1 DEF Chunk
  <2> QED
    BY <2>1
<1>3. cosine_similarity(c) \in Int
  BY <1>2 DEF cosine_similarity
<1>4. Greatest(cosine_similarity(c), lexical) \in Int /\ Greatest(cosine_similarity(c), lexical) >= lexical
  BY <1>3 DEF Greatest
<1>5. \A blank \in BOOLEAN : lexical_score(c, blank) \in Int
  BY <1>2 DEF lexical_score
<1> QED
  BY <1>2, <1>4, <1>5 DEF Scored

\* Chunks of the session, each with a score, are found in it.
LEMMA FoundIs ==
    ASSUME NEW M, IsMemory(M), NEW T, T \subseteq M, \A c \in T : c.own,
           NEW f, DOMAIN f = T, \A c \in T : \E lexical \in Int : f[c] = Scored(c, lexical)
    PROVE  IsFound({f[c] : c \in T}, M)
<1> DEFINE found == {f[c] : c \in T}
<1>1. IsFiniteSet(T)
  BY FS_Subset DEF IsMemory
<1>2. ASSUME NEW c \in T PROVE f[c] \in [chunk: M, score: Int] /\ f[c].chunk = c
  <2>1. c \in M
    OBVIOUS
  <2>2. PICK lexical \in Int : f[c] = Scored(c, lexical)
    OBVIOUS
  <2> QED
    BY <2>1, <2>2, ScoredIs
<1> DEFINE g == [c \in T |-> f[c]]
<1>3. g \in Surjection(T, found)
  BY DEF Surjection
<1>4. IsFiniteSet(found)
  <2> HIDE DEF g, found
  <2> QED
    BY <1>1, <1>3, FS_Surjection
<1>5. \A x \in found : x.chunk.own
  BY <1>2
<1>6. found \subseteq [chunk: M, score: Int]
  BY <1>2
<1> QED
  BY <1>4, <1>5, <1>6 DEF IsFound

\* Found by two queries.
LEMMA FoundByBoth ==
    ASSUME NEW M, NEW F, NEW G, IsFound(F, M), IsFound(G, M)
    PROVE  IsFound(F \cup G, M)
<1>1. IsFiniteSet(F \cup G)
  BY FS_Union DEF IsFound
<1> QED
  BY <1>1 DEF IsFound

\* A larger memory.
LEMMA FoundInMore ==
    ASSUME NEW M, NEW N, M \subseteq N, NEW F, IsFound(F, M)
    PROVE  IsFound(F, N)
BY DEF IsFound

\* What each query returns is found in the memory.
LEMMA QueriesFind ==
    ASSUME NEW M, IsMemory(M), NEW blank \in BOOLEAN, NEW n \in Nat, NEW found
    PROVE  /\ IsFound(NearestQuery(M, blank, n), M)
           /\ IsFound(TextQuery(M, blank, n, found), M)
           /\ IsFound(NewestQuery(M, blank, n, found), M)
<1>0. IsFound({}, M)
  BY FS_EmptySet DEF IsFound
<1>1. IsFound(NearestQuery(M, blank, n), M)
  <2> DEFINE T == Top(Near(M), NearestFirst(Near(M)), n)  f == [c \in T |-> Scored(c, lexical_score(c, blank))]
  <2>1. T \subseteq M /\ \A c \in T : c.own
    BY DEF Top, Near
  <2> HIDE DEF T
  <2>2. \A c \in T : \E lexical \in Int : f[c] = Scored(c, lexical)
    <3>1. ASSUME NEW c \in T PROVE \E lexical \in Int : f[c] = Scored(c, lexical)
      <4>1. c \in M
        BY <2>1
      <4>2. lexical_score(c, blank) \in Int
        BY <4>1, ScoredIs
      <4> QED
        BY <4>2
    <3> QED
      BY <3>1
  <2>3. DOMAIN f = T
    OBVIOUS
  <2>4. {f[c] : c \in T} = {Scored(c, lexical_score(c, blank)) : c \in T}
    OBVIOUS
  <2> HIDE DEF f
  <2>5. IsFound({f[c] : c \in T}, M)
    BY <2>1, <2>2, <2>3, FoundIs
  <2> QED
    BY <1>0, <2>4, <2>5 DEF NearestQuery, T
<1>2. IsFound(TextQuery(M, blank, n, found), M)
  <2> DEFINE T == Top(Matching(M), BestTextFirst(Matching(M)), n)  f == [c \in T |-> Scored(c, c.bm25)]
  <2>1. T \subseteq M /\ \A c \in T : c.own
    BY DEF Top, Matching
  <2> HIDE DEF T
  <2>2. \A c \in T : \E lexical \in Int : f[c] = Scored(c, lexical)
    <3>1. ASSUME NEW c \in T PROVE \E lexical \in Int : f[c] = Scored(c, lexical)
      <4>1. c \in M
        BY <2>1
      <4>2. c.bm25 \in Int
        <5>1. 0 \in Int
          OBVIOUS
        <5> QED
          BY <4>1, <5>1, ScoredIs
      <4> QED
        BY <4>2
    <3> QED
      BY <3>1
  <2>3. DOMAIN f = T
    OBVIOUS
  <2>4. {f[c] : c \in T} = {Scored(c, c.bm25) : c \in T}
    OBVIOUS
  <2> HIDE DEF f
  <2>5. IsFound({f[c] : c \in T}, M)
    BY <2>1, <2>2, <2>3, FoundIs
  <2> QED
    BY <1>0, <2>4, <2>5 DEF TextQuery, T
<1>3. IsFound(NewestQuery(M, blank, n, found), M)
  <2> DEFINE T == Top(OfSession(M), NewestFirst(OfSession(M)), n)  f == [c \in T |-> Scored(c, lexical_score(c, blank))]
  <2>1. T \subseteq M /\ \A c \in T : c.own
    BY DEF Top, OfSession
  <2> HIDE DEF T
  <2>2. \A c \in T : \E lexical \in Int : f[c] = Scored(c, lexical)
    <3>1. ASSUME NEW c \in T PROVE \E lexical \in Int : f[c] = Scored(c, lexical)
      <4>1. c \in M
        BY <2>1
      <4>2. lexical_score(c, blank) \in Int
        BY <4>1, ScoredIs
      <4> QED
        BY <4>2
    <3> QED
      BY <3>1
  <2>3. DOMAIN f = T
    OBVIOUS
  <2>4. {f[c] : c \in T} = {Scored(c, lexical_score(c, blank)) : c \in T}
    OBVIOUS
  <2> HIDE DEF f
  <2>5. IsFound({f[c] : c \in T}, M)
    BY <2>1, <2>2, <2>3, FoundIs
  <2> QED
    BY <1>0, <2>4, <2>5 DEF NewestQuery, T
<1> QED
  BY <1>1, <1>2, <1>3

\* A chunk is found with the score of its text, or as many as n others score as well.
Reached(found, c, n) ==
    \/ \E x \in found : x.chunk = c /\ x.score >= c.bm25
    \/ \E T : /\ IsFiniteSet(T) /\ Cardinality(T) = n
              /\ \A d \in T : \E x \in found : x.chunk = d /\ x.score >= c.bm25

\* What was reached remains so when more is found.
LEMMA ReachedInMore ==
    ASSUME NEW F, NEW G, F \subseteq G, NEW c, NEW n, Reached(F, c, n)
    PROVE  Reached(G, c, n)
<1>1. CASE \E x \in F : x.chunk = c /\ x.score >= c.bm25
  BY <1>1 DEF Reached
<1>2. CASE \E T : /\ IsFiniteSet(T) /\ Cardinality(T) = n
                  /\ \A d \in T : \E x \in F : x.chunk = d /\ x.score >= c.bm25
  <2>1. PICK T : /\ IsFiniteSet(T) /\ Cardinality(T) = n
                 /\ \A d \in T : \E x \in F : x.chunk = d /\ x.score >= c.bm25
    BY <1>2
  <2>2. \A d \in T : \E x \in G : x.chunk = d /\ x.score >= c.bm25
    BY <2>1
  <2> QED
    BY <2>1, <2>2 DEF Reached
<1> QED
  BY <1>1, <1>2 DEF Reached

\* The text query reaches every chunk that its words match.
LEMMA TextReaches ==
    ASSUME NEW M, IsMemory(M), NEW n \in Nat, NEW found, NEW c \in M, c.own, c.match
    PROVE  Reached(TextQuery(M, FALSE, n, found), c, n)
<1> DEFINE S == Matching(M)  R == BestTextFirst(S)  T == Top(S, R, n)  F == TextQuery(M, FALSE, n, found)
<1>1. F = {Scored(d, d.bm25) : d \in T}
  BY DEF TextQuery
<1>2. S \subseteq M /\ c \in S /\ IsFiniteSet(S)
  BY FS_Subset DEF Matching, IsMemory
<1>3. \A d, e \in S : <<d, e>> \in R <=> (d.bm25 > e.bm25 \/ (d.bm25 = e.bm25 /\ d.id > e.id))
  BY DEF BestTextFirst, Newer
<1> HIDE DEF F, S, R
<1>4. ASSUME NEW d \in S
      PROVE  d \in M /\ d.id \in Nat /\ d.bm25 \in Int /\ Scored(d, d.bm25).chunk = d /\ Scored(d, d.bm25).score >= d.bm25
             /\ Scored(d, d.bm25).score \in Int
  <2>1. d \in M /\ 0 \in Int
    BY <1>2
  <2>2. d.bm25 \in Int /\ d.id \in Nat
    BY <2>1, ScoredIs
  <2>3. Scored(d, d.bm25) \in [chunk: M, score: Int] /\ Scored(d, d.bm25).chunk = d
        /\ Scored(d, d.bm25).score >= d.bm25
    <3> DEFINE l == d.bm25
    <3>1. d \in M /\ l \in Int
      BY <2>1, <2>2
    <3> HIDE DEF l
    <3>2. Scored(d, l) \in [chunk: M, score: Int] /\ Scored(d, l).chunk = d /\ Scored(d, l).score >= l
      BY <3>1, ScoredIs
    <3> QED
      BY <3>2 DEF l
  <2> QED
    BY <2>1, <2>2, <2>3
<1>5. \A d, e \in S : d # e => d.id # e.id
  BY <1>2 DEF IsMemory
<1>6. IsOrder(S, R)
  <2>1. \A d \in S : <<d, d>> \notin R
    BY <1>3, <1>4
  <2>2. ASSUME NEW d \in S, NEW e \in S, NEW g \in S, <<d, e>> \in R, <<e, g>> \in R PROVE <<d, g>> \in R
    <3>1. d.bm25 \in Int /\ e.bm25 \in Int /\ g.bm25 \in Int /\ d.id \in Nat /\ e.id \in Nat /\ g.id \in Nat
      BY <1>4
    <3>2. d.bm25 > e.bm25 \/ (d.bm25 = e.bm25 /\ d.id > e.id)
      BY <1>3, <2>2
    <3>3. e.bm25 > g.bm25 \/ (e.bm25 = g.bm25 /\ e.id > g.id)
      BY <1>3, <2>2
    <3>4. d.bm25 > g.bm25 \/ (d.bm25 = g.bm25 /\ d.id > g.id)
      BY <3>1, <3>2, <3>3
    <3> QED
      BY <1>3, <3>4
  <2>3. ASSUME NEW d \in S, NEW e \in S, d # e PROVE <<d, e>> \in R \/ <<e, d>> \in R
    <3>1. d.bm25 \in Int /\ e.bm25 \in Int /\ d.id \in Nat /\ e.id \in Nat /\ d.id # e.id
      BY <1>4, <1>5, <2>3
    <3>2. \/ d.bm25 > e.bm25 \/ (d.bm25 = e.bm25 /\ d.id > e.id)
          \/ e.bm25 > d.bm25 \/ (e.bm25 = d.bm25 /\ e.id > d.id)
      BY <3>1
    <3> QED
      BY <1>3, <3>2
  <2> QED
    BY <1>2, <2>1, <2>2, <2>3 DEF IsOrder
<1>7. T \subseteq S
  BY DEF Top
<1> HIDE DEF T
<1>8. CASE c \in T
  <2>1. Scored(c, c.bm25) \in F
    BY <1>1, <1>8
  <2> QED
    BY <1>2, <1>4, <2>1 DEF Reached, F
<1>9. CASE c \notin T
  <2>1. IsFiniteSet(T) /\ Cardinality(T) = n /\ \A d \in T : <<d, c>> \in R
    BY <1>2, <1>6, <1>9, TopIsFull DEF T
  <2>2. ASSUME NEW d \in T PROVE \E x \in F : x.chunk = d /\ x.score >= c.bm25
    <3>1. d \in S /\ d.bm25 \in Int /\ c.bm25 \in Int /\ Scored(d, d.bm25).chunk = d
          /\ Scored(d, d.bm25).score >= d.bm25 /\ Scored(d, d.bm25).score \in Int
      BY <1>2, <1>4, <1>7
    <3>2. d.bm25 >= c.bm25
      <4>1. <<d, c>> \in R
        BY <2>1
      <4>2. d.bm25 > c.bm25 \/ d.bm25 = c.bm25
        BY <1>2, <1>3, <3>1, <4>1
      <4> QED
        BY <3>1, <4>2
    <3>3. Scored(d, d.bm25) \in F
      BY <1>1
    <3>4. Scored(d, d.bm25).score >= c.bm25
      BY <3>1, <3>2
    <3> QED
      BY <3>1, <3>3, <3>4
  <2> QED
    BY <2>1, <2>2 DEF Reached, F
<1> QED
  BY <1>8, <1>9

\* The last query finds something where there is something.
LEMMA NewestFinds ==
    ASSUME NEW M, IsMemory(M), NEW blank \in BOOLEAN, NEW n \in Nat, n >= 1, NEW c \in M, c.own
    PROVE  NewestQuery(M, blank, n, {}) # {}
<1> DEFINE S == OfSession(M)  R == NewestFirst(S)
<1>1. S \subseteq M /\ c \in S /\ IsFiniteSet(S)
  BY FS_Subset DEF OfSession, IsMemory
<1>2. \A d, e \in S : <<d, e>> \in R <=> d.id > e.id
  BY DEF NewestFirst, Newer
<1>3. NewestQuery(M, blank, n, {}) = {Scored(d, lexical_score(d, blank)) : d \in Top(S, R, n)}
  BY DEF NewestQuery
<1> HIDE DEF S, R
<1>4. \A d \in S : d.id \in Nat
  <2>1. 0 \in Int
    OBVIOUS
  <2> QED
    BY <1>1, <2>1, ScoredIs
<1>5. \A d, e \in S : d # e => d.id # e.id
  BY <1>1 DEF IsMemory
<1>6. IsOrder(S, R)
  BY <1>1, <1>2, <1>4, <1>5 DEF IsOrder
<1>7. 0 \in 0..(Cardinality(S) - 1)
  <2>1. Cardinality(S) \in Nat /\ Cardinality(S) # 0
    BY <1>1, FS_CardinalityType, FS_EmptySet
  <2> QED
    BY <2>1
<1>8. PICK d \in S : Rank(S, R, d) = 0
  BY <1>6, <1>7, RankIsOnto
<1>9. d \in Top(S, R, n)
  BY <1>8 DEF Top, Rank, Before
<1> QED
  BY <1>3, <1>9

\* A chunk that was reached is a hit, unless hits that score as well fill the limit.
LEMMA ReachedIsShown ==
    ASSUME NEW M, IsMemory(M), NEW found, IsFound(found, M), NEW blank \in BOOLEAN, NEW limit \in Nat,
           NEW n \in Nat, NEW c \in M, Reached(found, c, n), c.bm25 > 0
    PROVE  LET r == rank_memory_candidates(found, blank, limit)
               full == Least(normalize_limit(limit), n)
           IN  \/ \E i \in DOMAIN r : r[i].chunk = c /\ r[i].score >= c.bm25
               \/ Len(r) >= full /\ \A i \in 1..full : r[i].score >= c.bm25
<1> DEFINE r == rank_memory_candidates(found, blank, limit)  m == normalize_limit(limit)
           full == Least(m, n)  H == HitsOf(found, blank)  v == c.bm25
<1>1. m \in Nat /\ m >= 1
  BY LimitIs
<1>2. full \in Nat /\ full <= m /\ full <= n
  BY <1>1 DEF Least
<1>3. v \in Int /\ v > 0
  <2>1. 0 \in Int
    OBVIOUS
  <2> QED
    BY <2>1, ScoredIs
<1>4. /\ \A h \in H : h.score \in Int
      /\ \A x \in found : x.score > 0 => \E h \in H : h.chunk = x.chunk /\ h.score >= x.score
      /\ IsFiniteSet(H)
  BY HitsAre
<1>5. \A x \in found : x.score \in Int
  BY DEF IsFound
<1>a. IsRanked(r, H, m)
  BY RankedHits
<1> HIDE DEF r, m, full, H, v
<1>6. /\ DOMAIN r = 1..Len(r) /\ r \in Seq(H)
      /\ \A h \in H : \/ \E i \in DOMAIN r : r[i] = h
                      \/ Len(r) >= m /\ \A i \in 1..m : r[i].score >= h.score
      /\ \A u \in Int, G \in SUBSET H :
            (\A h \in G : h.score >= u) =>
               /\ Len(r) >= Least(m, Cardinality(G))
               /\ \A i \in DOMAIN r : i <= Cardinality(G) => r[i].score >= u
  BY <1>a DEF IsRanked
<1>7. Len(r) \in Nat /\ \A i \in DOMAIN r : r[i].score \in Int
  BY <1>4, <1>6
<1>8. ASSUME NEW x \in found, x.score >= v PROVE \E h \in H : h.chunk = x.chunk /\ h.score >= v
  <2>1. x.score > 0
    BY <1>3, <1>5, <1>8
  <2>2. PICK h \in H : h.chunk = x.chunk /\ h.score >= x.score
    BY <1>4, <2>1
  <2>3. h.score \in Int /\ x.score \in Int
    BY <1>4, <1>5
  <2>4. h.score >= v
    BY <1>3, <1>8, <2>2, <2>3
  <2> QED
    BY <2>2, <2>4
<1>9. CASE \E x \in found : x.chunk = c /\ x.score >= v
  <2>1. PICK h \in H : h.chunk = c /\ h.score >= v
    BY <1>8, <1>9
  <2>2. CASE \E i \in DOMAIN r : r[i] = h
    BY <2>1, <2>2 DEF r, v
  <2>3. CASE Len(r) >= m /\ \A i \in 1..m : r[i].score >= h.score
    <3>1. Len(r) >= full
      BY <1>1, <1>2, <1>7, <2>3
    <3>2. ASSUME NEW i \in 1..full PROVE r[i].score >= v
      <4>1. i \in 1..m /\ i \in 1..Len(r)
        BY <1>1, <1>2, <1>7, <3>1
      <4>2. r[i].score >= h.score /\ r[i].score \in Int /\ h.score \in Int
        BY <1>4, <1>6, <1>7, <2>3, <4>1
      <4> QED
        BY <1>3, <2>1, <4>2
    <3> QED
      BY <3>1, <3>2 DEF r, full, m, v
  <2> QED
    BY <1>6, <2>2, <2>3
<1>10. CASE \E T : /\ IsFiniteSet(T) /\ Cardinality(T) = n
                   /\ \A d \in T : \E x \in found : x.chunk = d /\ x.score >= v
  <2>1. PICK T : /\ IsFiniteSet(T) /\ Cardinality(T) = n
                 /\ \A d \in T : \E x \in found : x.chunk = d /\ x.score >= v
    BY <1>10
  <2> DEFINE G == {h \in H : h.score >= v}
             f == [d \in T |-> CHOOSE h \in G : h.chunk = d]
  <2>2. IsFiniteSet(G) /\ G \in SUBSET H
    BY <1>4, FS_Subset
  <2>3. \A d \in T : \E h \in G : h.chunk = d
    BY <1>8, <2>1
  <2>4. \A d \in T : f[d] \in G /\ f[d].chunk = d
    <3> HIDE DEF G
    <3> QED
      BY <2>3
  <2>5. f \in Injection(T, G)
    <3>1. f \in [T -> G]
      <4> HIDE DEF G
      <4> QED
        BY <2>4
    <3> QED
      BY <2>4, <3>1 DEF Injection, IsInjective
  <2>6. n <= Cardinality(G) /\ Cardinality(G) \in Nat
    <3> HIDE DEF f, G
    <3> QED
      BY <2>1, <2>2, <2>5, FS_Injection, FS_CardinalityType
  <2>7. Len(r) >= Least(m, Cardinality(G)) /\ \A i \in DOMAIN r : i <= Cardinality(G) => r[i].score >= v
    <3>1. \A h \in G : h.score >= v
      OBVIOUS
    <3> HIDE DEF G
    <3> QED
      BY <1>3, <1>6, <2>2, <3>1
  <2> HIDE DEF G
  <2>8. Len(r) >= full
    BY <1>1, <1>2, <1>7, <2>6, <2>7 DEF Least, full
  <2>9. ASSUME NEW i \in 1..full PROVE r[i].score >= v
    <3>1. i \in DOMAIN r /\ i <= Cardinality(G)
      BY <1>2, <1>6, <1>7, <2>6, <2>8
    <3> QED
      BY <2>7, <3>1
  <2> QED
    BY <2>8, <2>9 DEF r, full, m, v
<1> QED
  BY <1>9, <1>10 DEF Reached, v

-----------------------------------------------------------------------------
(* What each read returns.                                                 *)

Parts   == {"summary", "event", "memory", "character", "fact", "location", "messages", "found", "known", "hits"}
Listings == {"summary", "event", "character", "fact", "location"}
Queries  == {"nearest", "text", "newest"}
ReadKinds == Listings \cup Queries \cup {"embed", "messages"}

\* When the search of a process has asked its second query, and its last one.
TextAt(p)   == IF p \in Turns THEN 5 ELSE 3
NewestAt(p) == IF p \in Turns THEN 6 ELSE 4

\* The reads of a process, in their order.
LEMMA ReadsAre ==
    ASSUME NEW p \in Procs
    PROVE  /\ Len(Reads(p)) = (IF p \in Turns THEN 10 ELSE 4)
           /\ \A n \in 0..Len(Reads(p)) - 1 :
                 /\ Reads(p)[n + 1] \in ReadKinds
                 /\ Reads(p)[n + 1] = "nearest" => n + 1 < TextAt(p)
                 /\ Reads(p)[n + 1] = "text" <=> n + 1 = TextAt(p)
                 /\ Reads(p)[n + 1] = "newest" <=> n + 1 = NewestAt(p)
           /\ p \in Turns =>
                 /\ Reads(p)[1] = "embed" /\ Reads(p)[2] = "summary" /\ Reads(p)[3] = "event"
                 /\ Reads(p)[4] = "nearest" /\ Reads(p)[5] = "text" /\ Reads(p)[6] = "newest"
                 /\ Reads(p)[7] = "character" /\ Reads(p)[8] = "fact" /\ Reads(p)[9] = "location"
                 /\ Reads(p)[10] = "messages"
<1> DEFINE long == <<"embed", "summary", "event", "nearest", "text", "newest",
                     "character", "fact", "location", "messages">>
           short == <<"embed", "nearest", "text", "newest">>
<1>1. /\ Len(long) = 10 /\ long[1] = "embed" /\ long[2] = "summary" /\ long[3] = "event" /\ long[4] = "nearest"
      /\ long[5] = "text" /\ long[6] = "newest" /\ long[7] = "character" /\ long[8] = "fact"
      /\ long[9] = "location" /\ long[10] = "messages"
  OBVIOUS
<1>2. Len(short) = 4 /\ short[1] = "embed" /\ short[2] = "nearest" /\ short[3] = "text" /\ short[4] = "newest"
  OBVIOUS
<1>3. Reads(p) = IF p \in Turns THEN long ELSE short
  BY DEF Reads
<1> HIDE DEF long, short
<1>4. CASE p \in Turns
  <2>1. Reads(p) = long
    BY <1>3, <1>4
  <2>2. ASSUME NEW n \in 0..9
        PROVE n + 1 \in {1, 2, 3, 4, 5, 6, 7, 8, 9, 10}
    OBVIOUS
  <2>3. TextAt(p) = 5 /\ NewestAt(p) = 6
    BY <1>4 DEF TextAt, NewestAt
  <2>4. ASSUME NEW n \in 0..9
        PROVE /\ long[n + 1] \in ReadKinds
              /\ long[n + 1] = "nearest" => n + 1 < TextAt(p)
              /\ long[n + 1] = "text" <=> n + 1 = TextAt(p)
              /\ long[n + 1] = "newest" <=> n + 1 = NewestAt(p)
    BY <1>1, <2>2, <2>3 DEF ReadKinds, Listings, Queries
  <2>5. Len(Reads(p)) = 10 /\ Len(Reads(p)) - 1 = 9 /\ Reads(p)[10] = "messages"
        /\ Reads(p)[1] = "embed" /\ Reads(p)[2] = "summary" /\ Reads(p)[3] = "event"
        /\ Reads(p)[4] = "nearest" /\ Reads(p)[5] = "text" /\ Reads(p)[6] = "newest"
        /\ Reads(p)[7] = "character" /\ Reads(p)[8] = "fact" /\ Reads(p)[9] = "location"
    BY <1>1, <2>1
  <2>6. \A n \in 0..Len(Reads(p)) - 1 :
           /\ Reads(p)[n + 1] \in ReadKinds
           /\ Reads(p)[n + 1] = "nearest" => n + 1 < TextAt(p)
           /\ Reads(p)[n + 1] = "text" <=> n + 1 = TextAt(p)
           /\ Reads(p)[n + 1] = "newest" <=> n + 1 = NewestAt(p)
    BY <2>1, <2>4, <2>5
  <2> QED
    BY <1>4, <2>5, <2>6
<1>5. CASE p \notin Turns
  <2>1. Reads(p) = short
    BY <1>3, <1>5
  <2>2. ASSUME NEW n \in 0..3
        PROVE n + 1 \in {1, 2, 3, 4}
    OBVIOUS
  <2>3. TextAt(p) = 3 /\ NewestAt(p) = 4
    BY <1>5 DEF TextAt, NewestAt
  <2>4. ASSUME NEW n \in 0..3
        PROVE /\ short[n + 1] \in ReadKinds
              /\ short[n + 1] = "nearest" => n + 1 < TextAt(p)
              /\ short[n + 1] = "text" <=> n + 1 = TextAt(p)
              /\ short[n + 1] = "newest" <=> n + 1 = NewestAt(p)
    BY <1>2, <2>2, <2>3 DEF ReadKinds, Listings, Queries
  <2>5. Len(Reads(p)) = 4 /\ Len(Reads(p)) - 1 = 3
    BY <1>2, <2>1
  <2> QED
    BY <1>5, <2>1, <2>4, <2>5
<1> QED
  BY <1>4, <1>5

\* What a query adds to what was found.
More(p, k, old) ==
    LET n == memory_candidate_limit(Limit(p))
    IN  CASE k = "nearest" -> NearestQuery(store.memory, Blank(p), n)
          [] k = "text"    -> TextQuery(store.memory, Blank(p), n, old.found)
          [] k = "newest"  -> NewestQuery(store.memory, Blank(p), n, old.found)
RowsOf(hits) == [i \in DOMAIN hits |-> RowOf(hits[i])]

\* r is what a process has read when its read k has returned.
IsReturned(p, k, old, r) ==
    LET hits == rank_memory_candidates(old.found \cup More(p, k, old), Blank(p), Limit(p))
    IN  /\ DOMAIN r = Parts
        /\ k = "embed" => r = old
        /\ k \in Listings => r[k] = store[k] /\ \A f \in Parts : f # k => r[f] = old[f]
        /\ k = "messages" => /\ r.messages = AddQuestion(p, Newest(store.messages))
                             /\ \A f \in Parts : f # "messages" => r[f] = old[f]
        /\ k \in Queries => /\ r.found = old.found \cup More(p, k, old)
                            /\ \A f \in Parts \ {"found", "known", "hits", "memory"} : r[f] = old[f]
        /\ k = "nearest" => r.known = store.memory /\ r.hits = old.hits /\ r.memory = old.memory
        /\ k = "text" => r.known = old.known /\ r.hits = old.hits /\ r.memory = old.memory
        /\ k = "newest" => r.known = old.known /\ r.hits = hits /\ r.memory = RowsOf(hits)

\* A read changes what it returns and nothing else.
LEMMA ReturnedIs ==
    ASSUME NEW p \in Procs, NEW k \in ReadKinds, NEW old, DOMAIN old = Parts
    PROVE  IsReturned(p, k, old, Returned(p, k, old))
<1> DEFINE r == Returned(p, k, old)
           hits == rank_memory_candidates(old.found \cup More(p, k, old), Blank(p), Limit(p))
<1>1. CASE k = "embed"
  <2>1. r = old
    BY <1>1 DEF Returned
  <2> QED
    BY <1>1, <2>1 DEF IsReturned, Listings, Queries
<1>2. CASE k \in Listings
  <2>1. r = [old EXCEPT ![k] = store[k]]
    BY <1>2 DEF Returned, Listings
  <2>2. k \in Parts /\ k \notin Queries /\ k # "embed" /\ k # "messages"
    BY <1>2 DEF Listings, Parts, Queries
  <2>3. DOMAIN r = Parts /\ r[k] = store[k] /\ \A f \in Parts : f # k => r[f] = old[f]
    BY <2>1, <2>2
  <2> QED
    BY <2>2, <2>3 DEF IsReturned, Queries
<1>3. CASE k = "messages"
  <2>1. r = [old EXCEPT !.messages = AddQuestion(p, Newest(store.messages))]
    BY <1>3 DEF Returned
  <2>2. DOMAIN r = Parts /\ r.messages = AddQuestion(p, Newest(store.messages))
        /\ \A f \in Parts : f # "messages" => r[f] = old[f]
    BY <2>1 DEF Parts
  <2> QED
    BY <1>3, <2>2 DEF IsReturned, Listings, Queries
<1>4. CASE k \in Queries
  <2>1. r = [old EXCEPT !.found = @ \cup More(p, k, old),
                        !.known = IF k = "nearest" THEN store.memory ELSE @,
                        !.hits  = IF k = "newest" THEN hits ELSE @,
                        !.memory = IF k = "newest" THEN RowsOf(hits) ELSE @]
    BY <1>4 DEF Returned, Search, More, RowsOf, Queries
  <2> HIDE DEF hits, r
  <2>2. /\ DOMAIN r = Parts
        /\ r.found = old.found \cup More(p, k, old)
        /\ r.known = (IF k = "nearest" THEN store.memory ELSE old.known)
        /\ r.hits = (IF k = "newest" THEN hits ELSE old.hits)
        /\ r.memory = (IF k = "newest" THEN RowsOf(hits) ELSE old.memory)
        /\ \A f \in Parts \ {"found", "known", "hits", "memory"} : r[f] = old[f]
    BY <2>1 DEF Parts
  <2>3. k \notin Listings /\ k # "embed" /\ k # "messages"
    BY <1>4 DEF Listings, Queries
  <2> QED
    BY <2>2, <2>3 DEF IsReturned, hits, r
<1> QED
  BY <1>1, <1>2, <1>3, <1>4 DEF ReadKinds

-----------------------------------------------------------------------------
(* The invariant.                                                          *)

Counters ==
    /\ DOMAIN read = Procs /\ read = [p \in Procs |-> read[p]]
    /\ \A p \in Procs : read[p] \in {Idle, Failed, Built} \cup 0..Len(Reads(p))
    /\ DOMAIN input = Procs /\ DOMAIN request = Procs
    /\ writes \in 0..MaxWrites /\ faults \in 0..MaxFaults /\ quiet \in BOOLEAN

\* A message with the id of the question is the question.
OwnIsQuestion(m) == \A i \in DOMAIN m : m[i].id = "question" => m[i] = Own(Question)

StoreTyped ==
    /\ store \in Store
    /\ \E s \in InitialStores : store.memory \subseteq s.memory \cup {NewChunk}
    /\ OwnIsQuestion(store.messages)

InputTyped(p) ==
    /\ IsInput(input[p])
    /\ IsFound(input[p].found, store.memory) /\ input[p].known \subseteq store.memory
    /\ OwnIsQuestion(input[p].messages)
    /\ Len(input[p].messages) <= MessageLimit + (IF p = "preview" THEN 1 ELSE 0)

SearchDone(p) ==
    /\ read[p] >= TextAt(p) /\ ~ Blank(p) =>
          \A c \in input[p].known :
             c.own /\ c.match => Reached(input[p].found, c, memory_candidate_limit(Limit(p)))
    /\ read[p] >= NewestAt(p) =>
          /\ input[p].hits = rank_memory_candidates(input[p].found, Blank(p), Limit(p))
          /\ \A c \in input[p].known : c.own => input[p].found # {}

RequestDone(p) == read[p] = Built /\ p \in Turns => request[p] = build(input[p])

ContextInv ==
    /\ Counters /\ StoreTyped
    /\ \A p \in Procs : InputTyped(p) /\ SearchDone(p) /\ RequestDone(p)

\* The session's chunks are a memory, each with a row.
LEMMA MemoryOfSession ==
    ASSUME StoreTyped
    PROVE  IsMemory(store.memory) /\ \A c \in store.memory : ChunkRow[c.id] \in Message
<1>1. PICK s \in InitialStores : store.memory \subseteq s.memory \cup {NewChunk}
  BY DEF StoreTyped
<1> DEFINE M == s.memory \cup {NewChunk}
<1>2. /\ IsFiniteSet(s.memory)
      /\ \A c \in M : /\ ChunkRow[c.id] \in Message
                      /\ \A d \in M : c.id = d.id => c = d
  BY ContextAssumption
<1>3. IsFiniteSet(M)
  BY <1>2, FS_AddElement
<1>4. store.memory \subseteq M /\ store.memory \subseteq Chunk
  BY <1>1 DEF StoreTyped, Store
<1> HIDE DEF M
<1>5. IsFiniteSet(store.memory)
  BY <1>3, <1>4, FS_Subset
<1> QED
  BY <1>2, <1>4, <1>5 DEF IsMemory

\* A process searches with a limit.
LEMMA LimitOf ==
    ASSUME NEW p \in Procs
    PROVE  Limit(p) \in Nat /\ Blank(p) \in BOOLEAN
           /\ memory_candidate_limit(Limit(p)) \in Nat /\ memory_candidate_limit(Limit(p)) >= 1
<1>1. Limit(p) \in Nat
  BY ContextAssumption DEF Limit
<1> QED
  BY <1>1, LimitIs DEF Blank

\* What a query adds is found in the session's memory, and the rows of the hits are rows.
LEMMA MoreIsFound ==
    ASSUME StoreTyped, NEW p \in Procs, NEW k \in Queries, NEW old, IsFound(old.found, store.memory)
    PROVE  /\ IsFound(old.found \cup More(p, k, old), store.memory)
           /\ RowsOf(rank_memory_candidates(old.found \cup More(p, k, old), Blank(p), Limit(p))) \in Seq(Row)
<1> DEFINE M == store.memory  n == memory_candidate_limit(Limit(p))  F == old.found \cup More(p, k, old)
           hits == rank_memory_candidates(F, Blank(p), Limit(p))
<1>1. IsMemory(M) /\ \A c \in M : ChunkRow[c.id] \in Message
  BY MemoryOfSession
<1>2. Limit(p) \in Nat /\ Blank(p) \in BOOLEAN /\ n \in Nat
  BY LimitOf
<1>3. IsFound(More(p, k, old), M)
  <2>1. /\ IsFound(NearestQuery(M, Blank(p), n), M)
        /\ IsFound(TextQuery(M, Blank(p), n, old.found), M)
        /\ IsFound(NewestQuery(M, Blank(p), n, old.found), M)
    BY <1>1, <1>2, QueriesFind
  <2> QED
    BY <2>1 DEF More, Queries
<1>4. IsFound(F, M)
  BY <1>3, FoundByBoth
<1> HIDE DEF F, M
<1>5. IsRanked(hits, HitsOf(F, Blank(p)), normalize_limit(Limit(p)))
  BY <1>1, <1>2, <1>4, RankedHits
<1>6. \A h \in HitsOf(F, Blank(p)) : h.chunk \in M /\ h.score \in Int
  BY <1>1, <1>2, <1>4, HitsAre
<1> HIDE DEF hits
<1>7. hits \in Seq(HitsOf(F, Blank(p))) /\ DOMAIN hits = 1..Len(hits)
  BY <1>5 DEF IsRanked
<1> DEFINE H == HitsOf(F, Blank(p))
<1> HIDE DEF H
<1>8. \A i \in 1..Len(hits) : hits[i] \in H
  BY <1>7 DEF H
<1>9. ASSUME NEW i \in 1..Len(hits) PROVE RowOf(hits[i]) \in Row
  <2>1. hits[i].chunk \in M /\ hits[i].score \in Int
    BY <1>6, <1>8 DEF H
  <2>2. ChunkRow[hits[i].chunk.id] \in Message
    BY <1>1, <2>1
  <2> QED
    BY <2>1, <2>2 DEF RowOf, Row, Message
<1>10. Len(hits) \in Nat
  BY <1>7
<1>11. RowsOf(hits) \in Seq(Row)
  BY <1>7, <1>9, <1>10 DEF RowsOf
<1> QED
  BY <1>4, <1>11 DEF F, M, hits

\* A message with another id, and the question itself, may be added.
LEMMA QuestionStaysOwn ==
    ASSUME NEW m \in Seq(Message), OwnIsQuestion(m), NEW x \in Message,
           x.id # "question" \/ x = Own(Question)
    PROVE  Append(m, x) \in Seq(Message) /\ OwnIsQuestion(Append(m, x)) /\ Len(Append(m, x)) = Len(m) + 1
<1> DEFINE a == Append(m, x)
<1>1. a \in Seq(Message) /\ Len(a) = Len(m) + 1 /\ a[Len(m) + 1] = x /\ DOMAIN a = 1..Len(m) + 1
      /\ \A i \in 1..Len(m) : a[i] = m[i]
  OBVIOUS
<1>2. DOMAIN m = 1..Len(m) /\ Len(m) \in Nat
  OBVIOUS
<1> HIDE DEF a
<1>3. ASSUME NEW i \in DOMAIN a, a[i].id = "question" PROVE a[i] = Own(Question)
  <2>1. i \in 1..Len(m) \/ i = Len(m) + 1
    BY <1>1, <1>2
  <2> QED
    BY <1>1, <1>2, <1>3, <2>1 DEF OwnIsQuestion
<1> QED
  BY <1>1, <1>3 DEF a, OwnIsQuestion

\* So may the newest messages be read.
LEMMA NewestStaysOwn ==
    ASSUME NEW m \in Seq(Message), OwnIsQuestion(m)
    PROVE  /\ Newest(m) \in Seq(Message) /\ OwnIsQuestion(Newest(m)) /\ Len(Newest(m)) <= MessageLimit
<1> DEFINE s == Newest(m)  a == Greatest(1, Len(m) - MessageLimit + 1)
<1>1. s \in Seq(Message) /\ Len(s) = Least(MessageLimit, Len(m))
  BY LatestIs
<1>2. a \in Nat /\ a >= 1
  BY ContextAssumption DEF Greatest
<1>3. s = SubSeq(m, a, Len(m))
  BY DEF Newest
<1> HIDE DEF a
<1>4. \A i \in 1..Len(s) : a + i - 1 \in 1..Len(m) /\ s[i] = m[a + i - 1]
  <2>1. Len(SubSeq(m, a, Len(m))) = IF a <= Len(m) THEN Len(m) - a + 1 ELSE 0
    BY <1>2
  <2>2. \A i \in 1..Len(SubSeq(m, a, Len(m))) :
           a + i - 1 \in 1..Len(m) /\ SubSeq(m, a, Len(m))[i] = m[a + i - 1]
    BY <1>2, <2>1
  <2> QED
    BY <1>3, <2>2
<1> HIDE DEF s
<1>5. DOMAIN s = 1..Len(s) /\ DOMAIN m = 1..Len(m)
  BY <1>1
<1>6. OwnIsQuestion(s)
  BY <1>4, <1>5 DEF OwnIsQuestion
<1>7. Len(s) <= MessageLimit
  BY <1>1, ContextAssumption DEF Least
<1> QED
  BY <1>1, <1>6, <1>7 DEF s

-----------------------------------------------------------------------------
(* The invariant is preserved.                                             *)

\* The reads that are done are a number, or a process waits, has failed or is done.
LEMMA ReadRange ==
    ASSUME Counters, NEW p \in Procs
    PROVE  read[p] \in Int /\ read[p] >= -2 /\ read[p] <= 11 /\ read[p] # -3
           /\ Len(Reads(p)) \in {10, 4} /\ TextAt(p) \in {5, 3} /\ NewestAt(p) \in {6, 4} /\ TextAt(p) < NewestAt(p)
           /\ NewestAt(p) <= Len(Reads(p))
<1>1. Len(Reads(p)) = (IF p \in Turns THEN 10 ELSE 4)
  BY ReadsAre
<1>2. read[p] \in {-1, -2, 11} \cup 0..Len(Reads(p))
  BY DEF Counters, Idle, Failed, Built
<1> QED
  BY <1>1, <1>2 DEF TextAt, NewestAt

\* What one process does leaves the others as they are.
Same(p) == read'[p] = read[p] /\ input'[p] = input[p] /\ request'[p] = request[p]

\* So it does when the memory only grows.
LEMMA SameIsKept ==
    ASSUME NEW p \in Procs, InputTyped(p), SearchDone(p), RequestDone(p), Same(p),
           store.memory \subseteq store'.memory
    PROVE  InputTyped(p)' /\ SearchDone(p)' /\ RequestDone(p)'
<1>1. InputTyped(p)'
  BY FoundInMore DEF InputTyped, Same
<1>2. SearchDone(p)'
  BY DEF SearchDone, Same
<1>3. RequestDone(p)'
  BY DEF RequestDone, Same
<1> QED
  BY <1>1, <1>2, <1>3

\* Another process with nothing new in the store.
LEMMA OthersAreKept ==
    ASSUME ContextInv, StoreTyped', Counters', NEW p \in Procs, store.memory \subseteq store'.memory,
           \A q \in Procs : q # p => Same(q),
           InputTyped(p)', SearchDone(p)', RequestDone(p)'
    PROVE  ContextInv'
<1>1. \A q \in Procs : q # p => InputTyped(q)' /\ SearchDone(q)' /\ RequestDone(q)'
  BY SameIsKept DEF ContextInv
<1> QED
  BY <1>1 DEF ContextInv

\* The empty sequence has no question.
LEMMA NothingIsRead == IsInput(NothingRead) /\ DOMAIN NothingRead = Parts
BY DEF IsInput, NothingRead, Parts

\* It holds at first.
LEMMA ContextStarts == Init => ContextInv
<1> SUFFICES ASSUME Init PROVE ContextInv
  OBVIOUS
<1>1. Counters
  <2>1. \A p \in Procs : read[p] = Idle /\ read[p] \in {Idle, Failed, Built} \cup 0..Len(Reads(p))
    BY DEF Init
  <2>2. writes \in 0..MaxWrites /\ faults \in 0..MaxFaults
    BY ContextAssumption DEF Init
  <2> QED
    BY <2>1, <2>2 DEF Init, Counters
<1>2. StoreTyped
  <2>1. store \in InitialStores /\ store \in Store
    BY ContextAssumption DEF Init
  <2>2. \A i \in DOMAIN store.messages : store.messages[i].id # "question"
    BY <2>1, ContextAssumption
  <2> QED
    BY <2>1, <2>2 DEF StoreTyped, OwnIsQuestion
<1>3. ASSUME NEW p \in Procs PROVE InputTyped(p) /\ SearchDone(p) /\ RequestDone(p)
  <2>1. input[p] = NothingRead /\ read[p] = -1
    BY DEF Init, Idle
  <2>2. IsFound({}, store.memory)
    BY FS_EmptySet DEF IsFound
  <2>3. /\ NothingRead.found = {} /\ NothingRead.known = {} /\ NothingRead.messages = <<>>
    BY DEF NothingRead
  <2>4. OwnIsQuestion(<<>>) /\ Len(<<>>) = 0
    BY DEF OwnIsQuestion
  <2>5. InputTyped(p)
    BY <2>1, <2>2, <2>3, <2>4, NothingIsRead, ContextAssumption DEF InputTyped
  <2>6. SearchDone(p)
    BY <2>1 DEF SearchDone, TextAt, NewestAt
  <2>7. RequestDone(p)
    BY <2>1 DEF RequestDone, Built
  <2> QED
    BY <2>5, <2>6, <2>7
<1> QED
  BY <1>1, <1>2, <1>3 DEF ContextInv

\* The question has a text.
LEMMA OwnIsMessage == Own(Question) \in Message
BY ContextAssumption DEF Own, Message

\* Starting stores at most the question.
LEMMA StartKeeps ==
    ASSUME ContextInv, NEW p \in Procs, Start(p)
    PROVE  ContextInv'
<1>0. Counters /\ StoreTyped /\ InputTyped(p) /\ SearchDone(p) /\ RequestDone(p)
  BY DEF ContextInv
<1>1. /\ read' = [read EXCEPT ![p] = 0] /\ input' = input /\ request' = request /\ writes' = writes
      /\ faults' = faults
  BY DEF Start
<1>2. Len(Reads(p)) \in Nat
  BY <1>0, ReadRange
<1>3. Counters'
  <2>1. DOMAIN read' = Procs /\ \A q \in Procs : read'[q] \in {Idle, Failed, Built} \cup 0..Len(Reads(q))
    BY <1>0, <1>1, <1>2 DEF Counters
  <2>2. quiet' \in BOOLEAN
    <3>1. p \in {"turn", "preview", "search"} /\ quiet \in BOOLEAN
      BY <1>0 DEF Procs, Turns, Counters
    <3>2. quiet' = CASE p = "preview" -> read["turn"] = Idle
                     [] p = "turn"    -> quiet /\ read["preview"] = Built
                     [] p = "search"  -> quiet
      BY DEF Start
    <3>3. CASE p = "preview"
      <4>1. quiet' = (read["turn"] = Idle)
        BY <3>2, <3>3
      <4> QED
        BY <4>1
    <3>4. CASE p = "turn"
      <4>1. quiet' = (quiet /\ read["preview"] = Built)
        BY <3>2, <3>4
      <4> QED
        BY <4>1
    <3>5. CASE p = "search"
      <4>1. quiet' = quiet
        BY <3>2, <3>5
      <4> QED
        BY <3>1, <4>1
    <3> QED
      BY <3>1, <3>3, <3>4, <3>5
  <2> QED
    BY <1>0, <1>1, <2>1, <2>2 DEF Counters
<1>4. StoreTyped' /\ store'.memory = store.memory
  <2>1. CASE p = "turn"
    <3>1. store' = [store EXCEPT !.messages = Append(@, Own(Question))]
      BY <2>1 DEF Start
    <3>2. store.messages \in Seq(Message) /\ OwnIsQuestion(store.messages)
      BY <1>0 DEF StoreTyped, Store
    <3>3. Append(store.messages, Own(Question)) \in Seq(Message) /\ OwnIsQuestion(Append(store.messages, Own(Question)))
      BY <3>2, OwnIsMessage, QuestionStaysOwn
    <3>4. store' \in Store /\ store'.memory = store.memory /\ store'.messages = Append(store.messages, Own(Question))
      <4> DEFINE a == Append(store.messages, Own(Question))
      <4>1. store' = [store EXCEPT !.messages = a] /\ a \in Seq(Message)
        BY <3>1, <3>3
      <4> HIDE DEF a
      <4>2. store' \in Store /\ store'.memory = store.memory /\ store'.messages = a
        BY <1>0, <4>1 DEF StoreTyped, Store
      <4> QED
        BY <4>2 DEF a
    <3> QED
      BY <1>0, <3>3, <3>4 DEF StoreTyped
  <2>2. CASE p # "turn"
    <3>1. store' = store
      BY <2>2 DEF Start
    <3> QED
      BY <1>0, <3>1 DEF StoreTyped
  <2> QED
    BY <2>1, <2>2
<1>5. \A q \in Procs : q # p => Same(q)
  BY <1>0, <1>1 DEF Same, Counters
<1>6. read'[p] = 0
  BY <1>0, <1>1 DEF Counters
<1>7. InputTyped(p)'
  BY <1>0, <1>1, <1>4 DEF InputTyped
<1>8. SearchDone(p)' /\ RequestDone(p)'
  BY <1>6 DEF SearchDone, RequestDone, TextAt, NewestAt, Built
<1> QED
  BY <1>3, <1>4, <1>5, <1>7, <1>8, OthersAreKept

\* What others write are messages, rows and the new chunk.
LEMMA WriteKeeps ==
    ASSUME ContextInv, Write
    PROVE  ContextInv'
<1>0. Counters /\ StoreTyped
  BY DEF ContextInv
<1>1. /\ read' = read /\ input' = input /\ request' = request /\ faults' = faults /\ quiet' = FALSE
      /\ writes < MaxWrites /\ writes' = writes + 1
  BY DEF Write
<1>2. Counters'
  <2>1. writes' \in 0..MaxWrites
    BY <1>0, <1>1, ContextAssumption DEF Counters
  <2> QED
    BY <1>0, <1>1, <2>1 DEF Counters
<1>3. PICK t \in NewTexts :
          \/ store' = [store EXCEPT !.messages = Append(@, [id |-> "other", text |-> t])]
          \/ store' = [store EXCEPT !.event = Append(@, [id |-> "new", text |-> t, w |-> 5])]
          \/ store' = [store EXCEPT !.memory = @ \cup {NewChunk}]
          \/ store' = [store EXCEPT !.summary = <<[id |-> "summary", text |-> t, w |-> 0]>>]
  BY DEF Write
<1>4. t \in Text /\ store \in Store /\ OwnIsQuestion(store.messages)
  BY <1>0, ContextAssumption DEF StoreTyped
<1>5. PICK s \in InitialStores : store.memory \subseteq s.memory \cup {NewChunk}
  BY <1>0 DEF StoreTyped
<1> DEFINE m == Append(store.messages, [id |-> "other", text |-> t])
           e == Append(store.event, [id |-> "new", text |-> t, w |-> 5])
           u == <<[id |-> "summary", text |-> t, w |-> 0]>>
<1>6. m \in Seq(Message) /\ OwnIsQuestion(m)
  <2>1. [id |-> "other", text |-> t] \in Message /\ store.messages \in Seq(Message)
    <3>1. "other" \in RowIds
      BY ContextAssumption
    <3> QED
      BY <1>4, <3>1 DEF Message, Store
  <2>2. [id |-> "other", text |-> t].id # "question"
    OBVIOUS
  <2> QED
    BY <1>4, <2>1, <2>2, QuestionStaysOwn
<1>7. e \in Seq(Row) /\ u \in Seq(Row)
  <2>1. /\ [id |-> "new", text |-> t, w |-> 5] \in Row /\ [id |-> "summary", text |-> t, w |-> 0] \in Row
        /\ store.event \in Seq(Row)
    <3>1. "new" \in RowIds /\ "summary" \in RowIds
      BY ContextAssumption
    <3> QED
      BY <1>4, <3>1 DEF Row, Store
  <2> QED
    BY <2>1
<1>8. \/ store' = [store EXCEPT !.messages = m] \/ store' = [store EXCEPT !.event = e]
      \/ store' = [store EXCEPT !.memory = @ \cup {NewChunk}] \/ store' = [store EXCEPT !.summary = u]
  BY <1>3
<1> HIDE DEF m, e, u
<1>9. NewChunk \in Chunk
  BY ContextAssumption
<1>10. ASSUME store' = [store EXCEPT !.messages = m] PROVE StoreTyped'
  <2>1. store' \in Store /\ store'.memory = store.memory /\ store'.messages = m
    BY <1>4, <1>6, <1>10 DEF Store
  <2> QED
    BY <1>5, <1>6, <2>1 DEF StoreTyped
<1>11. ASSUME store' = [store EXCEPT !.event = e] PROVE StoreTyped'
  <2>1. store' \in Store /\ store'.memory = store.memory /\ store'.messages = store.messages
    BY <1>4, <1>7, <1>11 DEF Store
  <2> QED
    BY <1>4, <1>5, <2>1 DEF StoreTyped
<1>12. ASSUME store' = [store EXCEPT !.memory = @ \cup {NewChunk}] PROVE StoreTyped'
  <2>1. store' \in Store /\ store'.memory = store.memory \cup {NewChunk} /\ store'.messages = store.messages
    BY <1>4, <1>9, <1>12 DEF Store
  <2> QED
    BY <1>4, <1>5, <2>1 DEF StoreTyped
<1>13. ASSUME store' = [store EXCEPT !.summary = u] PROVE StoreTyped'
  <2>1. store' \in Store /\ store'.memory = store.memory /\ store'.messages = store.messages
    BY <1>4, <1>7, <1>13 DEF Store
  <2> QED
    BY <1>4, <1>5, <2>1 DEF StoreTyped
<1>14. StoreTyped' /\ store.memory \subseteq store'.memory
  <2>1. store.memory \subseteq store'.memory
    BY <1>4, <1>8 DEF Store
  <2> QED
    BY <1>8, <1>10, <1>11, <1>12, <1>13, <2>1
<1>15. \A q \in Procs : Same(q)
  BY <1>1 DEF Same
<1>16. \A q \in Procs : InputTyped(q)' /\ SearchDone(q)' /\ RequestDone(q)'
  BY <1>14, <1>15, SameIsKept DEF ContextInv
<1> QED
  BY <1>2, <1>14, <1>16 DEF ContextInv

\* Building a request.
LEMMA BuildKeeps ==
    ASSUME ContextInv, NEW p \in Procs, Build(p)
    PROVE  ContextInv'
<1>0. Counters /\ StoreTyped /\ InputTyped(p) /\ SearchDone(p) /\ RequestDone(p)
  BY DEF ContextInv
<1>1. /\ read[p] = Len(Reads(p)) /\ read' = [read EXCEPT ![p] = Built]
      /\ request' = (IF p \in Turns THEN [request EXCEPT ![p] = build(input[p])] ELSE request)
      /\ store' = store /\ input' = input /\ writes' = writes /\ faults' = faults /\ quiet' = quiet
  BY DEF Build
<1>2. read'[p] = Built /\ (\A q \in Procs : q # p => Same(q)) /\ DOMAIN request' = Procs
      /\ (p \in Turns => request'[p] = build(input[p])) /\ DOMAIN read' = Procs
  <2>1. DOMAIN read = Procs /\ DOMAIN request = Procs
    BY <1>0 DEF Counters
  <2> QED
    BY <1>1, <2>1 DEF Same
<1>3. Counters'
  <2>1. \A q \in Procs : read'[q] \in {Idle, Failed, Built} \cup 0..Len(Reads(q))
    <3>1. ASSUME NEW q \in Procs PROVE read'[q] \in {Idle, Failed, Built} \cup 0..Len(Reads(q))
      <4>1. q # p => read'[q] = read[q]
        BY <1>2 DEF Same
      <4> QED
        BY <1>0, <1>2, <4>1 DEF Counters
    <3> QED
      BY <3>1
  <2> QED
    BY <1>0, <1>1, <1>2, <2>1 DEF Counters
<1>4. StoreTyped' /\ InputTyped(p)'
  BY <1>0, <1>1 DEF StoreTyped, InputTyped
<1>5. read[p] >= NewestAt(p) /\ read[p] >= TextAt(p)
  BY <1>0, <1>1, ReadRange
<1>6. SearchDone(p)'
  BY <1>0, <1>1, <1>5 DEF SearchDone
<1>7. RequestDone(p)'
  BY <1>1, <1>2 DEF RequestDone
<1> QED
  BY <1>1, <1>2, <1>3, <1>4, <1>6, <1>7, OthersAreKept

\* A read that fails ends its process.
LEMMA FailureKeeps ==
    ASSUME ContextInv, NEW p \in Procs, ReadFails(p)
    PROVE  ContextInv'
<1>0. Counters /\ StoreTyped /\ InputTyped(p) /\ SearchDone(p) /\ RequestDone(p)
  BY DEF ContextInv
<1>1. /\ read' = [read EXCEPT ![p] = Failed] /\ faults < MaxFaults /\ faults' = faults + 1
      /\ store' = store /\ input' = input /\ request' = request /\ writes' = writes /\ quiet' = quiet
  BY DEF ReadFails
<1>2. read'[p] = -2 /\ (\A q \in Procs : q # p => Same(q)) /\ DOMAIN read' = Procs
  <2>1. DOMAIN read = Procs
    BY <1>0 DEF Counters
  <2> QED
    BY <1>1, <2>1 DEF Same, Failed
<1>3. Counters'
  <2>1. \A q \in Procs : read'[q] \in {Idle, Failed, Built} \cup 0..Len(Reads(q))
    <3>1. ASSUME NEW q \in Procs PROVE read'[q] \in {Idle, Failed, Built} \cup 0..Len(Reads(q))
      <4>1. q # p => read'[q] = read[q]
        BY <1>2 DEF Same
      <4> QED
        BY <1>0, <1>2, <4>1 DEF Counters, Failed
    <3> QED
      BY <3>1
  <2>2. faults' \in 0..MaxFaults
    BY <1>0, <1>1, ContextAssumption DEF Counters
  <2> QED
    BY <1>0, <1>1, <1>2, <2>1, <2>2 DEF Counters
<1>4. StoreTyped' /\ InputTyped(p)'
  BY <1>0, <1>1 DEF StoreTyped, InputTyped
<1>5. SearchDone(p)' /\ RequestDone(p)'
  BY <1>2 DEF SearchDone, RequestDone, TextAt, NewestAt, Built
<1> QED
  BY <1>1, <1>2, <1>3, <1>4, <1>5, OthersAreKept

-----------------------------------------------------------------------------
\* What a read returns has the types of what is read.
LEMMA ReturnedIsTyped ==
    ASSUME StoreTyped, NEW p \in Procs, InputTyped(p), NEW k \in ReadKinds,
           NEW r, r = Returned(p, k, input[p])
    PROVE  /\ IsInput(r) /\ IsFound(r.found, store.memory) /\ r.known \subseteq store.memory
           /\ OwnIsQuestion(r.messages)
           /\ Len(r.messages) <= MessageLimit + (IF p = "preview" THEN 1 ELSE 0)
<1> DEFINE old == input[p]
<1>1. /\ IsInput(old) /\ IsFound(old.found, store.memory) /\ old.known \subseteq store.memory
      /\ OwnIsQuestion(old.messages)
      /\ Len(old.messages) <= MessageLimit + (IF p = "preview" THEN 1 ELSE 0)
  BY DEF InputTyped
<1>2. DOMAIN old = Parts
  BY <1>1, NothingIsRead DEF IsInput
<1>3. store \in Store
  BY DEF StoreTyped
<1> HIDE DEF old
<1>4. r = Returned(p, k, old)
  BY DEF old
<1>a. IsReturned(p, k, old, r)
  BY <1>2, <1>4, ReturnedIs
<1>5. DOMAIN r = Parts
  BY <1>a DEF IsReturned
<1>6. CASE k = "embed"
  <2>1. r = old
    BY <1>a, <1>6 DEF IsReturned
  <2> QED
    BY <1>1, <2>1
<1>7. CASE k \in Listings
  <2>1. r[k] = store[k] /\ \A f \in Parts : f # k => r[f] = old[f]
    BY <1>a, <1>7 DEF IsReturned
  <2>2. store[k] \in Seq(Row) /\ k \in {"summary", "event", "character", "fact", "location"}
    BY <1>3, <1>7 DEF Listings, Store
  <2>3. IsInput(r) /\ r.found = old.found /\ r.known = old.known /\ r.messages = old.messages
    BY <1>1, <1>5, <2>1, <2>2, NothingIsRead DEF IsInput, Parts
  <2> QED
    BY <1>1, <2>3
<1>8. CASE k = "messages"
  <2>1. r.messages = AddQuestion(p, Newest(store.messages))
        /\ \A f \in Parts : f # "messages" => r[f] = old[f]
    BY <1>a, <1>8 DEF IsReturned
  <2>2. store.messages \in Seq(Message) /\ OwnIsQuestion(store.messages)
    BY <1>3 DEF StoreTyped, Store
  <2>3. /\ Newest(store.messages) \in Seq(Message) /\ OwnIsQuestion(Newest(store.messages))
        /\ Len(Newest(store.messages)) <= MessageLimit
    BY <2>2, NewestStaysOwn
  <2> DEFINE m == Newest(store.messages)
  <2> HIDE DEF m
  <2>4. /\ Append(m, Own(Question)) \in Seq(Message) /\ OwnIsQuestion(Append(m, Own(Question)))
        /\ Len(Append(m, Own(Question))) = Len(m) + 1
    BY <2>3, OwnIsMessage, QuestionStaysOwn DEF m
  <2>5. Len(m) \in Nat /\ MessageLimit \in Nat
    BY <2>3, ContextAssumption DEF m
  <2>6. r.messages \in Seq(Message) /\ OwnIsQuestion(r.messages)
        /\ Len(r.messages) <= MessageLimit + (IF p = "preview" THEN 1 ELSE 0)
    <3>1. r.messages = IF p = "preview" THEN Append(m, Own(Question)) ELSE m
      BY <2>1 DEF AddQuestion, m
    <3>2. CASE p = "preview"
      BY <2>3, <2>4, <2>5, <3>1, <3>2 DEF m
    <3>3. CASE p # "preview"
      BY <2>3, <2>5, <3>1, <3>3 DEF m
    <3> QED
      BY <3>2, <3>3
  <2>7. IsInput(r) /\ r.found = old.found /\ r.known = old.known
    BY <1>1, <1>5, <2>1, <2>6, NothingIsRead DEF IsInput, Parts
  <2> QED
    BY <1>1, <2>6, <2>7
<1>9. CASE k \in Queries
  <2>1. /\ r.found = old.found \cup More(p, k, old)
        /\ \A f \in Parts \ {"found", "known", "hits", "memory"} : r[f] = old[f]
    BY <1>a, <1>9 DEF IsReturned
  <2>2. r.known = store.memory \/ r.known = old.known
    BY <1>a, <1>9 DEF IsReturned, Queries
  <2>3. r.memory = old.memory
        \/ r.memory = RowsOf(rank_memory_candidates(old.found \cup More(p, k, old), Blank(p), Limit(p)))
    BY <1>a, <1>9 DEF IsReturned, Queries
  <2>4. /\ IsFound(old.found \cup More(p, k, old), store.memory)
        /\ RowsOf(rank_memory_candidates(old.found \cup More(p, k, old), Blank(p), Limit(p))) \in Seq(Row)
    BY <1>1, <1>9, MoreIsFound
  <2>5. r.memory \in Seq(Row)
    BY <1>1, <2>3, <2>4 DEF IsInput
  <2>6. IsInput(r) /\ r.messages = old.messages
    BY <1>1, <1>5, <2>1, <2>5, NothingIsRead DEF IsInput, Parts
  <2> QED
    BY <1>1, <2>1, <2>2, <2>4, <2>6
<1> QED
  BY <1>6, <1>7, <1>8, <1>9 DEF ReadKinds

\* A read changes what was found only where it is a query.
LEMMA ReturnedFinds ==
    ASSUME NEW p \in Procs, NEW k \in ReadKinds, NEW old, DOMAIN old = Parts,
           NEW r, r = Returned(p, k, old)
    PROVE  /\ old.found \subseteq r.found /\ (k # "nearest" => r.known = old.known)
           /\ k \notin Queries => r.found = old.found /\ r.known = old.known /\ r.hits = old.hits
<1>a. IsReturned(p, k, old, r)
  BY ReturnedIs
<1>1. CASE k = "embed"
  <2>1. r = old
    BY <1>a, <1>1 DEF IsReturned
  <2> QED
    BY <2>1
<1>2. CASE k \in Listings \cup {"messages"}
  <2>1. \A f \in Parts : f # k => r[f] = old[f]
    BY <1>a, <1>2 DEF IsReturned, Listings, Parts
  <2>2. r.found = old.found /\ r.known = old.known /\ r.hits = old.hits
    BY <1>2, <2>1 DEF Listings, Parts
  <2> QED
    BY <2>2
<1>3. CASE k \in Queries
  <2>1. r.found = old.found \cup More(p, k, old)
    BY <1>a, <1>3 DEF IsReturned
  <2>2. k # "nearest" => r.known = old.known
    BY <1>a, <1>3 DEF IsReturned, Queries
  <2> QED
    BY <1>3, <2>1, <2>2
<1> QED
  BY <1>1, <1>2, <1>3 DEF ReadKinds

\* The search of a process goes on with every read.
LEMMA SearchGoesOn ==
    ASSUME Counters, StoreTyped, NEW p \in Procs, InputTyped(p), SearchDone(p), Reading(p), Read(p)
    PROVE  SearchDone(p)'
<1> DEFINE n == read[p]  k == Reads(p)[n + 1]  old == input[p]  r == Returned(p, k, old)
           limit == memory_candidate_limit(Limit(p))  M == store.memory
<1>1. n \in 0..Len(Reads(p)) - 1
  BY DEF Reading
<1>2. k \in ReadKinds /\ (k = "nearest" => n + 1 < TextAt(p)) /\ (k = "text" <=> n + 1 = TextAt(p))
      /\ (k = "newest" <=> n + 1 = NewestAt(p))
  BY <1>1, ReadsAre
<1>3. n \in Int /\ TextAt(p) \in Int /\ NewestAt(p) \in Int /\ TextAt(p) < NewestAt(p)
  <2>1. TextAt(p) \in {5, 3} /\ NewestAt(p) \in {6, 4} /\ TextAt(p) < NewestAt(p) /\ read[p] \in Int
    BY ReadRange
  <2> QED
    BY <2>1
<1>4. DOMAIN old = Parts /\ old.known \subseteq M /\ IsFound(old.found, M)
  BY NothingIsRead DEF InputTyped, IsInput
<1>5. read'[p] = n + 1 /\ input'[p] = r
  BY DEF Read, Counters
<1>6. IsMemory(M)
  BY MemoryOfSession
<1>7. Limit(p) \in Nat /\ Blank(p) \in BOOLEAN /\ limit \in Nat /\ limit >= 1
  BY LimitOf
<1>8. /\ n >= TextAt(p) /\ ~ Blank(p) =>
          \A c \in old.known : c.own /\ c.match => Reached(old.found, c, limit)
      /\ n >= NewestAt(p) =>
          /\ old.hits = rank_memory_candidates(old.found, Blank(p), Limit(p))
          /\ \A c \in old.known : c.own => old.found # {}
  BY DEF SearchDone
<1>9. k \in Queries <=> k \in {"nearest", "text", "newest"}
  BY DEF Queries
<1> HIDE DEF n, k, old, limit, M
<1>a. IsReturned(p, k, old, r)
  BY <1>2, <1>4, ReturnedIs
<1>10. /\ old.found \subseteq r.found /\ (k # "nearest" => r.known = old.known)
       /\ k \notin Queries => r.found = old.found /\ r.known = old.known /\ r.hits = old.hits
  BY <1>2, <1>4, ReturnedFinds
<1>11. ASSUME n + 1 >= TextAt(p), ~ Blank(p), NEW c \in r.known, c.own, c.match
       PROVE  Reached(r.found, c, limit)
  <2>1. k # "nearest"
    BY <1>2, <1>3, <1>11
  <2>2. r.known = old.known /\ c \in M
    BY <1>4, <1>10, <1>11, <2>1
  <2>3. CASE k = "text"
    <3>1. r.found = old.found \cup More(p, k, old)
      BY <1>a, <1>9, <2>3 DEF IsReturned
    <3>2. Blank(p) = FALSE
      BY <1>7, <1>11
    <3>3. More(p, k, old) = TextQuery(M, FALSE, limit, old.found)
      BY <2>3, <3>2 DEF More, M, limit
    <3>4. Reached(TextQuery(M, FALSE, limit, old.found), c, limit)
      BY <1>6, <1>7, <1>11, <2>2, TextReaches
    <3> HIDE DEF r
    <3> QED
      BY <3>1, <3>3, <3>4, ReachedInMore
  <2>4. CASE k # "text"
    <3>1. n >= TextAt(p)
      BY <1>2, <1>3, <1>11, <2>4
    <3>2. Reached(old.found, c, limit)
      BY <1>8, <1>11, <2>2, <3>1
    <3> HIDE DEF r
    <3> QED
      BY <1>10, <3>2, ReachedInMore
  <2> QED
    BY <2>3, <2>4
<1>12. ASSUME n + 1 >= NewestAt(p)
       PROVE  /\ r.hits = rank_memory_candidates(r.found, Blank(p), Limit(p))
              /\ \A c \in r.known : c.own => r.found # {}
  <2>1. k # "nearest" /\ k # "text"
    BY <1>2, <1>3, <1>12
  <2>2. CASE k = "newest"
    <3>1. r.found = old.found \cup More(p, k, old) /\ r.known = old.known
          /\ r.hits = rank_memory_candidates(old.found \cup More(p, k, old), Blank(p), Limit(p))
      <4>1. k \in Queries
        BY <1>9, <2>2
      <4> QED
        BY <1>a, <2>2, <4>1 DEF IsReturned
    <3>2. ASSUME NEW c \in r.known, c.own PROVE r.found # {}
      <4>1. c \in M
        BY <1>4, <3>1, <3>2
      <4>2. CASE old.found # {}
        BY <3>1, <4>2
      <4>3. CASE old.found = {}
        <5>1. More(p, k, old) = NewestQuery(M, Blank(p), limit, {})
          BY <2>2, <4>3 DEF More, M, limit
        <5>2. NewestQuery(M, Blank(p), limit, {}) # {}
          BY <1>6, <1>7, <3>2, <4>1, NewestFinds
        <5> QED
          BY <3>1, <5>1, <5>2
      <4> QED
        BY <4>2, <4>3
    <3> QED
      BY <3>1, <3>2
  <2>3. CASE k # "newest"
    <3>1. n >= NewestAt(p) /\ k \notin Queries
      BY <1>2, <1>3, <1>9, <1>12, <2>1, <2>3
    <3> QED
      BY <1>8, <1>10, <3>1
  <2> QED
    BY <2>2, <2>3
<1> HIDE DEF r
<1>13. r.known = input'[p].known /\ r.found = input'[p].found /\ r.hits = input'[p].hits
  BY <1>5
<1> QED
  BY <1>5, <1>11, <1>12, <1>13 DEF SearchDone, limit

\* Reading.
LEMMA ReadKeeps ==
    ASSUME ContextInv, NEW p \in Procs, Read(p)
    PROVE  ContextInv'
<1>0. Counters /\ StoreTyped /\ InputTyped(p) /\ SearchDone(p) /\ RequestDone(p)
  BY DEF ContextInv
<1> DEFINE n == read[p]  k == Reads(p)[n + 1]  r == Returned(p, k, input[p])
<1>1. /\ n \in 0..Len(Reads(p)) - 1 /\ read' = [read EXCEPT ![p] = @ + 1] /\ input' = [input EXCEPT ![p] = r]
      /\ store' = store /\ request' = request /\ writes' = writes /\ faults' = faults /\ quiet' = quiet
      /\ Reading(p)
  BY DEF Read, Reading
<1> HIDE DEF r
<1>2. read'[p] = n + 1 /\ input'[p] = r /\ (\A q \in Procs : q # p => Same(q))
      /\ DOMAIN read' = Procs /\ DOMAIN input' = Procs
  <2>1. DOMAIN read = Procs /\ DOMAIN input = Procs
    BY <1>0 DEF Counters
  <2> QED
    BY <1>1, <2>1 DEF Same
<1>3. Len(Reads(p)) \in {10, 4}
  BY <1>0, ReadRange
<1>4. n + 1 \in 0..Len(Reads(p)) /\ n + 1 # 11
  <2> HIDE DEF n
  <2>1. CASE Len(Reads(p)) = 10
    BY <1>1, <2>1
  <2>2. CASE Len(Reads(p)) = 4
    BY <1>1, <2>2
  <2> QED
    BY <1>3, <2>1, <2>2
<1>5. Counters'
  <2>1. \A q \in Procs : read'[q] \in {Idle, Failed, Built} \cup 0..Len(Reads(q))
    <3>1. ASSUME NEW q \in Procs PROVE read'[q] \in {Idle, Failed, Built} \cup 0..Len(Reads(q))
      <4>1. q # p => read'[q] = read[q]
        BY <1>2 DEF Same
      <4> QED
        BY <1>0, <1>2, <1>4, <4>1 DEF Counters
    <3> QED
      BY <3>1
  <2> QED
    BY <1>0, <1>1, <1>2, <2>1 DEF Counters
<1>6. k \in ReadKinds
  BY <1>1, ReadsAre
<1>7. /\ IsInput(r) /\ IsFound(r.found, store.memory) /\ r.known \subseteq store.memory
      /\ OwnIsQuestion(r.messages)
      /\ Len(r.messages) <= MessageLimit + (IF p = "preview" THEN 1 ELSE 0)
  <2> HIDE DEF k
  <2> QED
    BY <1>0, <1>6, ReturnedIsTyped DEF r
<1>8. StoreTyped' /\ InputTyped(p)'
  BY <1>0, <1>1, <1>2, <1>7 DEF StoreTyped, InputTyped
<1>9. SearchDone(p)'
  BY <1>0, <1>1, SearchGoesOn
<1>10. RequestDone(p)'
  BY <1>2, <1>4 DEF RequestDone, Built
<1> QED
  BY <1>1, <1>2, <1>5, <1>8, <1>9, <1>10, OthersAreKept

\* Every step preserves the invariant.
LEMMA ContextSteps == ContextInv /\ [Next]_vars => ContextInv'
<1> SUFFICES ASSUME ContextInv, [Next]_vars PROVE ContextInv'
  OBVIOUS
<1>1. ASSUME NEW p \in Procs, Start(p) \/ Read(p) \/ Build(p) \/ ReadFails(p) PROVE ContextInv'
  BY <1>1, StartKeeps, ReadKeeps, BuildKeeps, FailureKeeps
<1>2. ASSUME Write PROVE ContextInv'
  BY <1>2, WriteKeeps
<1>3. ASSUME UNCHANGED vars PROVE ContextInv'
  <2>1. /\ store' = store /\ read' = read /\ input' = input /\ request' = request /\ writes' = writes
        /\ faults' = faults /\ quiet' = quiet
    BY <1>3 DEF vars
  <2>2. \A q \in Procs : Same(q)
    BY <2>1 DEF Same
  <2>3. \A q \in Procs : InputTyped(q)' /\ SearchDone(q)' /\ RequestDone(q)'
    BY <2>1, <2>2, SameIsKept DEF ContextInv
  <2>4. Counters' /\ StoreTyped'
    BY <2>1 DEF ContextInv, Counters, StoreTyped
  <2> QED
    BY <2>3, <2>4 DEF ContextInv
<1> QED
  BY <1>1, <1>2, <1>3 DEF Next, Ended

\* The invariant holds in every state.
THEOREM ContextHolds == Spec => []ContextInv
<1> QED
  BY ContextStarts, ContextSteps, PTL DEF Spec

-----------------------------------------------------------------------------
(* What holds of a request that is built and of a search that is done.     *)

\* What is built is what the lemmas speak of.
LEMMA RequestIs ==
    ASSUME ContextInv, NEW p \in Turns, IsBuilt(p)
    PROVE  /\ p \in Procs /\ IsInput(input[p]) /\ input[p].messages \in Seq(Message)
           /\ OwnIsQuestion(input[p].messages)
           /\ request[p].messages = select_recent_messages(input[p].messages)
           /\ request[p].rows = build(input[p]).rows
<1>1. p \in Procs
  BY DEF Procs
<1>2. request[p] = build(input[p]) /\ IsInput(input[p]) /\ OwnIsQuestion(input[p].messages)
  BY <1>1 DEF ContextInv, RequestDone, InputTyped, IsBuilt
<1>3. build(input[p]).messages = select_recent_messages(input[p].messages)
  BY DEF build
<1> QED
  BY <1>1, <1>2, <1>3 DEF IsInput

\* What is counted of a request, and what is left for its rows.
LEMMA RequestUses ==
    ASSUME ContextInv, NEW p \in Turns, IsBuilt(p)
    PROVE  /\ IsRows(request[p].rows)
           /\ MessagesUse(p) \in Nat /\ RowsUse(p) \in Nat /\ estimate(base_prompt) \in Nat
           /\ Left(input[p]) \in Nat /\ RowsUse(p) <= Left(input[p]) /\ MessagesUse(p) <= Half
           /\ Left(input[p]) + MessagesUse(p) + estimate(base_prompt) >= max_prompt_tokens
           /\ \/ Left(input[p]) + MessagesUse(p) + estimate(base_prompt) = max_prompt_tokens
              \/ Left(input[p]) = 0 /\ estimate(base_prompt) > Half
              \/ Left(input[p]) = 0 /\ MessagesUse(p) + estimate(base_prompt) <= max_prompt_tokens
<1> DEFINE x == input[p]
<1>1. /\ IsInput(x) /\ request[p].messages = select_recent_messages(x.messages)
      /\ request[p].rows = build(x).rows
  BY RequestIs
<1> HIDE DEF x
<1>2. /\ DOMAIN request[p].rows = 1..Len(request[p].rows) /\ Len(request[p].rows) \in Nat
      /\ \A k \in 1..Len(request[p].rows) : IsCandidate(request[p].rows[k])
      /\ Total(RowTokens(request[p].rows)) \in Nat /\ Total(RowTokens(request[p].rows)) <= Left(x)
  BY <1>1, SelectedRows
<1>3. estimate(base_prompt) \in Nat
  BY FixedTexts, EstimateIs
<1>4. MessagesUse(p) = Total(MessageTokens(select_recent_messages(x.messages)))
  BY <1>1 DEF MessagesUse
<1>5. RowsUse(p) = Total(RowTokens(request[p].rows))
  BY DEF RowsUse
<1> QED
  BY <1>1, <1>2, <1>3, <1>4, <1>5, LeftIs DEF IsRows, x

\* Where nothing is left no row is kept: each takes something.
LEMMA NoRoomNoRows ==
    ASSUME NEW rows, IsRows(rows), Total(RowTokens(rows)) = 0
    PROVE  DOMAIN rows = {} /\ Len(rows) = 0
<1> SUFFICES ASSUME Len(rows) # 0 PROVE FALSE
  BY DEF IsRows
<1> DEFINE c == RowTokens(rows)  s == <<rows[1].tokens>>
<1>1. 1 \in 1..Len(rows) /\ Len(rows) \in Nat /\ DOMAIN rows = 1..Len(rows)
  BY DEF IsRows
<1>2. rows[1].tokens \in Nat /\ rows[1].tokens = estimate(rows[1].text) + 4 /\ rows[1].text \in Text
  BY <1>1 DEF IsRows, IsCandidate
<1>3. rows[1].tokens >= 1
  BY <1>2, EstimateIs
<1>4. c \in Seq(Nat) /\ Len(c) = Len(rows) /\ c[1] = rows[1].tokens
  BY <1>1, RowTokensAre DEF IsRows
<1>5. s = Append(<<>>, rows[1].tokens) /\ s \in Seq(Nat) /\ Len(s) = 1 /\ s[1] = rows[1].tokens
  BY <1>2
<1>6. Total(<<>>) \in Nat
  <2>1. <<>> \in Seq(Nat)
    OBVIOUS
  <2> QED
    BY <2>1, TotalIsNat
<1> DEFINE x == rows[1].tokens
<1>7. Total(s) = Total(<<>>) + x
  <2>1. x \in Nat /\ s = Append(<<>>, x) /\ <<>> \in Seq(Nat)
    BY <1>2, <1>5
  <2> HIDE DEF x, s
  <2>2. Total(Append(<<>>, x)) = Total(<<>>) + x
    BY <2>1, TotalOfMore
  <2> QED
    BY <2>1, <2>2
<1> HIDE DEF c, s
<1>8. Total(s) <= Total(c)
  <2>1. Len(s) <= Len(c) /\ c \in Seq(Nat) /\ s \in Seq(Nat)
    BY <1>1, <1>4, <1>5
  <2>2. ASSUME NEW i \in 1..Len(s) PROVE s[i] <= c[i]
    <3>1. i = 1
      BY <1>5
    <3> QED
      BY <1>2, <1>4, <1>5, <3>1
  <2> QED
    BY <2>1, <2>2, TotalGrows
<1> QED
  BY <1>2, <1>3, <1>6, <1>7, <1>8 DEF c

\* The estimates stay within the budget.
LEMMA RequestFits == ContextInv => WithinBudget
<1> SUFFICES ASSUME ContextInv, NEW p \in Turns, IsBuilt(p)
             PROVE  \/ Used(p) <= max_prompt_tokens
                    \/ request[p].rows = <<>> /\ estimate(base_prompt) > max_prompt_tokens \div 2
  BY DEF WithinBudget
<1> DEFINE u == MessagesUse(p)  v == RowsUse(p)  b == estimate(base_prompt)  l == Left(input[p])
<1>1. /\ IsRows(request[p].rows) /\ u \in Nat /\ v \in Nat /\ b \in Nat /\ l \in Nat /\ v <= l
      /\ \/ l + u + b = max_prompt_tokens
         \/ l = 0 /\ b > Half
         \/ l = 0 /\ u + b <= max_prompt_tokens
  BY RequestUses
<1>2. Used(p) = u + v + b
  BY DEF Used
<1>3. l = 0 => v = 0
  BY <1>1
<1>4. v = 0 => request[p].rows = <<>>
  <2>1. v = 0 => DOMAIN request[p].rows = {} /\ Len(request[p].rows) = 0
    BY <1>1, NoRoomNoRows DEF RowsUse
  <2>2. request[p].rows = build(input[p]).rows
    BY RequestIs
  <2>3. build(input[p]).rows \in Seq(candidates(input[p]))
    <3>1. IsInput(input[p])
      BY RequestIs
    <3> DEFINE rows == build(input[p]).rows  S == candidates(input[p])
    <3>2. DOMAIN rows = 1..Len(rows) /\ Len(rows) \in Nat /\ \A k \in 1..Len(rows) : rows[k] \in S
      BY <3>1, SelectedRows
    <3>3. \E p1 : rows = [k \in DOMAIN p1 |-> ranked_candidates(input[p])[p1[k]]]
      BY DEF build, Taken
    <3>4. rows = [k \in DOMAIN rows |-> rows[k]]
      BY <3>3
    <3> HIDE DEF rows, S
    <3>5. rows \in [1..Len(rows) -> S]
      BY <3>2, <3>4
    <3>6. rows \in Seq(S)
      BY <3>2, <3>5
    <3> QED
      BY <3>6 DEF rows, S
  <2> DEFINE s == request[p].rows  S == candidates(input[p])
  <2>4. s \in Seq(S)
    BY <2>2, <2>3
  <2> HIDE DEF s, S
  <2>5. Len(s) = 0 => s = <<>>
    BY <2>4
  <2> QED
    BY <2>1, <2>5 DEF s
<1> HIDE DEF u, v, b, l
<1>5. Half = max_prompt_tokens \div 2 /\ max_prompt_tokens \in Nat
  BY Budget DEF Half
<1>6. CASE l + u + b = max_prompt_tokens
  BY <1>1, <1>2, <1>5, <1>6
<1>7. CASE l = 0 /\ b > Half
  BY <1>3, <1>4, <1>5, <1>7 DEF b
<1>8. CASE l = 0 /\ u + b <= max_prompt_tokens
  BY <1>1, <1>2, <1>3, <1>5, <1>8
<1> QED
  BY <1>1, <1>6, <1>7, <1>8

\* The prompt as it is kept nearly fits.
LEMMA PromptNearlyFits == ContextInv => RenderedNearlyFits
<1> SUFFICES ASSUME ContextInv, NEW p \in Turns, IsBuilt(p), Used(p) <= max_prompt_tokens
             PROVE  estimate(render_sections(request[p].rows)) + MessagesUse(p)
                      <= max_prompt_tokens + 4 * Cardinality({x.kind : x \in ToSet(request[p].rows)})
  BY DEF RenderedNearlyFits
<1> DEFINE rows == request[p].rows  e == estimate(render_sections(rows))  b == estimate(base_prompt)
           v == Total(RowTokens(rows))  u == MessagesUse(p)  k == Cardinality({x.kind : x \in ToSet(rows)})
<1>1. IsRows(rows) /\ u \in Nat /\ v \in Nat /\ b \in Nat
  BY RequestUses DEF RowsUse
<1>2. e \in Nat /\ k \in Nat /\ e <= b + v + 4 * k
  BY <1>1, RenderedTokens
<1>3. u + v + b <= max_prompt_tokens
  BY DEF Used, RowsUse
<1>4. max_prompt_tokens \in Nat
  BY Budget
<1> HIDE DEF rows, e, b, v, u, k
<1>5. e + u <= max_prompt_tokens + 4 * k
  BY <1>1, <1>2, <1>3, <1>4
<1> QED
  BY <1>5 DEF e, u, k, rows

\* Rows are left out for better ones only.
LEMMA WorseAreDropped == ContextInv => DroppedForBetterRanks
<1> SUFFICES ASSUME ContextInv, NEW p \in Turns, IsBuilt(p),
                    NEW x \in candidates(input[p]) \ ToSet(request[p].rows)
             PROVE  Total(MaskedTokens(request[p].rows, x)) + x.tokens + estimate(base_prompt) + MessagesUse(p)
                      > max_prompt_tokens
  BY DEF DroppedForBetterRanks, MaskedTokens, BetterRow
<1> DEFINE t == Total(MaskedTokens(request[p].rows, x))  l == Left(input[p])  u == MessagesUse(p)
           b == estimate(base_prompt)
<1>1. /\ IsRows(request[p].rows) /\ u \in Nat /\ b \in Nat /\ l \in Nat /\ l + u + b >= max_prompt_tokens
  BY RequestUses
<1>2. IsInput(input[p]) /\ request[p].rows = build(input[p]).rows
  BY RequestIs
<1>3. t + x.tokens > l
  BY <1>2, SelectedRows
<1>4. x.tokens \in Nat
  BY <1>2, CandidatesAre DEF IsCandidate
<1>5. t \in Nat
  <2> DEFINE rows == request[p].rows
  <2>1. \A k \in 1..Len(rows) : (IF BetterRow(rows[k], x) THEN rows[k].tokens ELSE 0) \in Nat
    <3>1. \A k \in 1..Len(rows) : rows[k].tokens \in Nat
      BY <1>1 DEF IsRows, IsCandidate
    <3> QED
      BY <3>1
  <2>2. Len(rows) \in Nat /\ DOMAIN rows = 1..Len(rows)
    BY <1>1 DEF IsRows
  <2> HIDE DEF rows
  <2>3. MaskedTokens(rows, x) \in Seq(Nat)
    BY <2>1, <2>2 DEF MaskedTokens
  <2> QED
    BY <2>3, TotalIsNat DEF rows
<1>6. max_prompt_tokens \in Nat
  BY Budget
<1> HIDE DEF t, l, u, b
<1>7. t + x.tokens + b + u > max_prompt_tokens
  BY <1>1, <1>3, <1>4, <1>5, <1>6
<1> QED
  BY <1>7 DEF t, b, u

\* The newest messages are kept.
LEMMA NewestAreSent == ContextInv => NewestMessagesFirst
<1> SUFFICES ASSUME ContextInv, NEW p \in Turns, IsBuilt(p), NEW i \in DOMAIN input[p].messages,
                    input[p].messages[i] \notin ToSet(request[p].messages),
                    Len(input[p].messages) - i < MessageLimit
             PROVE  Total([j \in 1..Len(input[p].messages) - i |->
                             Counted(input[p].messages, ToSet(request[p].messages), i + j)])
                      + estimate(input[p].messages[i].text) > max_prompt_tokens \div 2
  BY DEF NewestMessagesFirst, Counted
<1> DEFINE m == input[p].messages
<1>1. m \in Seq(Message) /\ request[p].messages = select_recent_messages(m)
  BY RequestIs
<1>2. i \in 1..Len(m) /\ Len(m) - i < MessageLimit /\ m[i] \notin ToSet(select_recent_messages(m))
  BY <1>1
<1> HIDE DEF m
<1>3. Total([j \in 1..Len(m) - i |-> Counted(m, ToSet(select_recent_messages(m)), i + j)])
             + estimate(m[i].text) > Half
  BY <1>1, <1>2, LeftOutForNewer
<1> QED
  BY <1>1, <1>3 DEF m, Half

\* The question is kept.
LEMMA QuestionIsAsked == ContextInv => QuestionIsSent
<1> SUFFICES ASSUME ContextInv, NEW p \in Turns, IsBuilt(p), NEW i \in DOMAIN input[p].messages,
                    input[p].messages[i].id = "question",
                    Len(input[p].messages) - i < MessageLimit,
                    Total(MessageTokens(SubSeq(input[p].messages, i, Len(input[p].messages))))
                      <= max_prompt_tokens \div 2
             PROVE  Own(Question) \in ToSet(request[p].messages)
  BY DEF QuestionIsSent
<1> DEFINE m == input[p].messages
<1>1. m \in Seq(Message) /\ request[p].messages = select_recent_messages(m) /\ OwnIsQuestion(m)
  BY RequestIs
<1>2. i \in 1..Len(m) /\ Len(m) - i < MessageLimit /\ Total(MessageTokens(SubSeq(m, i, Len(m)))) <= Half
  BY <1>1 DEF Half
<1>3. m[i] = Own(Question)
  BY <1>1 DEF OwnIsQuestion
<1> HIDE DEF m
<1>4. m[i] \in ToSet(select_recent_messages(m))
  BY <1>1, <1>2, SentIfAllFit
<1> QED
  BY <1>1, <1>3, <1>4

\* The types are kept.
LEMMA ContextTypes == ContextInv => TypeOK
<1> SUFFICES ASSUME ContextInv PROVE TypeOK
  OBVIOUS
<1>1. Counters
  BY DEF ContextInv
<1>2. ASSUME NEW p \in Procs PROVE read[p] \in {Idle, Failed} \cup 0..Built
  <2>1. read[p] \in {-1, -2, 11} \cup 0..Len(Reads(p)) /\ Len(Reads(p)) \in {10, 4}
    BY <1>1, ReadRange DEF Counters, Idle, Failed, Built
  <2>2. read[p] \in {-1, -2} \cup 0..11
    <3>1. CASE Len(Reads(p)) = 10
      BY <2>1, <3>1
    <3>2. CASE Len(Reads(p)) = 4
      BY <2>1, <3>2
    <3> QED
      BY <2>1, <3>1, <3>2
  <2> QED
    BY <2>2 DEF Idle, Failed, Built
<1>3. read \in [Procs -> {Idle, Failed} \cup 0..Built]
  <2>1. read = [p \in Procs |-> read[p]]
    BY <1>1 DEF Counters
  <2> QED
    BY <1>2, <2>1
<1>4. \A p \in Turns : Len(input[p].messages) <= MessageLimit + (IF p = "preview" THEN 1 ELSE 0)
  BY DEF ContextInv, InputTyped, Procs
<1> QED
  BY <1>1, <1>3, <1>4 DEF TypeOK, Counters

\* A search finds what matches.
LEMMA SearchFinds == ContextInv => SearchFindsMatches
<1> SUFFICES ASSUME ContextInv, NEW p \in Procs, IsBuilt(p)
             PROVE LET hits == input[p].hits
                       full == Least(normalize_limit(Limit(p)), memory_candidate_limit(Limit(p)))
                   IN  /\ \A c \in input[p].known :
                             c.own /\ (Blank(p) \/ (c.match /\ c.bm25 > 0)) =>
                               \/ \E i \in DOMAIN hits : hits[i].chunk = c /\ (Blank(p) \/ hits[i].score >= c.bm25)
                               \/ Blank(p) /\ hits # <<>>
                               \/ Len(hits) >= full /\ \A i \in 1..full : hits[i].score >= c.bm25
                       /\ \A i, j \in DOMAIN hits :
                             /\ hits[i].chunk = hits[j].chunk => i = j
                             /\ i < j => hits[i].score >= hits[j].score
                             /\ hits[i].chunk.own
  BY DEF SearchFindsMatches
<1> DEFINE found == input[p].found  hits == input[p].hits  b == Blank(p)  n == normalize_limit(Limit(p))
           m == memory_candidate_limit(Limit(p))  M == store.memory  H == HitsOf(found, b)
<1>1. Counters /\ StoreTyped /\ InputTyped(p) /\ SearchDone(p)
  BY DEF ContextInv
<1>2. read[p] = 11 /\ TextAt(p) \in {5, 3} /\ NewestAt(p) \in {6, 4}
  BY <1>1, ReadRange DEF IsBuilt, Built
<1>3. /\ ~ b => \A c \in input[p].known : c.own /\ c.match => Reached(found, c, m)
      /\ hits = rank_memory_candidates(found, b, Limit(p))
      /\ \A c \in input[p].known : c.own => found # {}
  <2>1. read[p] >= TextAt(p) /\ read[p] >= NewestAt(p)
    BY <1>2
  <2> QED
    BY <1>1, <2>1 DEF SearchDone
<1>4. Limit(p) \in Nat /\ b \in BOOLEAN /\ m \in Nat /\ m >= 1
  BY LimitOf
<1>5. IsMemory(M) /\ IsFound(found, M) /\ input[p].known \subseteq M
  BY <1>1, MemoryOfSession DEF InputTyped
<1>6. n \in Nat /\ n >= 1
  BY <1>4, LimitIs
<1> HIDE DEF found, hits, b, n, m, M, H
<1>7. IsRanked(hits, H, n)
  BY <1>3, <1>4, <1>5, RankedHits DEF H, n
<1>8. /\ \A h \in H : h.chunk.own
      /\ \A x \in found : (x.score > 0 \/ b) => \E h \in H : h.chunk = x.chunk /\ h.score >= x.score
      /\ IsFiniteSet(H)
  BY <1>4, <1>5, HitsAre DEF H
<1>9. /\ hits \in Seq(H) /\ DOMAIN hits = 1..Len(hits) /\ Len(hits) = Least(n, Cardinality(H))
      /\ \A i, j \in DOMAIN hits : hits[i].chunk = hits[j].chunk => i = j
      /\ \A i, j \in DOMAIN hits : i < j => hits[i].score >= hits[j].score
  BY <1>7 DEF IsRanked
<1>10. \A i \in DOMAIN hits : hits[i].chunk.own
  BY <1>8, <1>9
<1>11. ASSUME NEW c \in input[p].known, c.own, b PROVE hits # <<>>
  <2>1. PICK x \in found : TRUE
    BY <1>3, <1>11
  <2>2. H # {}
    BY <1>8, <1>11, <2>1
  <2>3. Cardinality(H) \in Nat /\ Cardinality(H) # 0
    BY <1>8, <2>2, FS_CardinalityType, FS_EmptySet
  <2>4. Len(hits) >= 1
    BY <1>6, <1>9, <2>3 DEF Least
  <2> QED
    BY <2>4
<1>12. ASSUME NEW c \in input[p].known, c.own, ~ b, c.match, c.bm25 > 0
       PROVE  \/ \E i \in DOMAIN hits : hits[i].chunk = c /\ hits[i].score >= c.bm25
              \/ Len(hits) >= Least(n, m) /\ \A i \in 1..Least(n, m) : hits[i].score >= c.bm25
  <2>1. Reached(found, c, m) /\ c \in M
    BY <1>3, <1>5, <1>12
  <2> QED
    BY <1>3, <1>4, <1>5, <1>12, <2>1, ReachedIsShown DEF n
<1> QED
  BY <1>4, <1>9, <1>10, <1>11, <1>12 DEF hits, b, n, m

-----------------------------------------------------------------------------
(* The theorems.                                                           *)

\* What is kept of messages and rows stays within the budget of the prompt, whatever
\* is read and whenever others write.
THEOREM BudgetHolds == Spec => []BudgetIsKept
<1>1. ContextInv => BudgetIsKept
  BY RequestFits, PromptNearlyFits DEF BudgetIsKept
<1> QED
  BY <1>1, ContextHolds, PTL

\* The question, the newest messages and the rows of the best rank are kept.
THEOREM BestHolds == Spec => []BestIsSent
<1>1. ContextInv => BestIsSent
  BY ContextTypes, QuestionIsAsked, NewestAreSent, WorseAreDropped DEF BestIsSent
<1> QED
  BY <1>1, ContextHolds, PTL

\* A search misses no match but for hits that are as good.
THEOREM SearchHolds == Spec => []SearchFindsMatches
<1> QED
  BY SearchFinds, ContextHolds, PTL

-----------------------------------------------------------------------------
(* The preview and the turn.                                               *)

\* What the search of a turn has found in a memory after each of its queries, and
\* the rows it returns.
FoundNear(M) == NearestQuery(M, FALSE, memory_candidate_limit(MemoryLimit))
FoundText(M) == FoundNear(M) \cup TextQuery(M, FALSE, memory_candidate_limit(MemoryLimit), FoundNear(M))
FoundAll(M)  == FoundText(M) \cup NewestQuery(M, FALSE, memory_candidate_limit(MemoryLimit), FoundText(M))
Recalled(M)  == RowsOf(rank_memory_candidates(FoundAll(M), FALSE, MemoryLimit))

\* The n reads of p have found the rows of s and the messages m.
ReadFrom(p, s, m, x, n) ==
    /\ n >= 2 => x.summary = s.summary
    /\ n >= 3 => x.event = s.event
    /\ n <= 3 => x.found = {}
    /\ n = 4 => x.found = FoundNear(s.memory)
    /\ n = 5 => x.found = FoundText(s.memory)
    /\ n >= 6 => x.memory = Recalled(s.memory)
    /\ n >= 7 => x.character = s.character
    /\ n >= 8 => x.fact = s.fact
    /\ n >= 9 => x.location = s.location
    /\ n >= 10 => x.messages = AddQuestion(p, Newest(m))

\* A turn searches with a text.
LEMMA TurnSearch ==
    ASSUME NEW p \in Turns
    PROVE  p \in Procs /\ Blank(p) = FALSE /\ Limit(p) = MemoryLimit
BY DEF Turns, Procs, Blank, Limit

\* Reads that do not search keep what the search has found.
LEMMA ListingGoesOn ==
    ASSUME NEW p \in Turns, NEW x, NEW r, NEW k \in Listings, IsReturned(p, k, x, r)
    PROVE  /\ r[k] = store[k] /\ r.found = x.found /\ r.memory = x.memory
           /\ \A f \in Listings \cup {"found", "memory", "messages"} : f # k => r[f] = x[f]
BY DEF IsReturned, Listings, Parts

\* r is x with what a query of a turn's search adds.
IsQueried(k, x, r) ==
    LET n == memory_candidate_limit(MemoryLimit)
    IN  /\ \A f \in Listings \cup {"messages"} : r[f] = x[f]
        /\ k = "nearest" => r.found = x.found \cup NearestQuery(store.memory, FALSE, n)
        /\ k = "text" => r.found = x.found \cup TextQuery(store.memory, FALSE, n, x.found)
        /\ k = "newest" =>
             r.memory = RowsOf(rank_memory_candidates(
                          x.found \cup NewestQuery(store.memory, FALSE, n, x.found), FALSE, MemoryLimit))

\* A query adds to what was found, and keeps the rest.
LEMMA QueryGoesOn ==
    ASSUME NEW p \in Turns, NEW x, NEW r, NEW k \in Queries, IsReturned(p, k, x, r)
    PROVE  IsQueried(k, x, r)
<1>1. Blank(p) = FALSE /\ Limit(p) = MemoryLimit
  BY TurnSearch
<1>2. \A f \in Listings \cup {"messages"} : r[f] = x[f]
  BY DEF IsReturned, Listings, Parts
<1>3. r.found = x.found \cup More(p, k, x)
  BY DEF IsReturned
<1>4. k = "nearest" => More(p, k, x) = NearestQuery(store.memory, FALSE, memory_candidate_limit(MemoryLimit))
  BY <1>1 DEF More
<1>5. k = "text" => More(p, k, x) = TextQuery(store.memory, FALSE, memory_candidate_limit(MemoryLimit), x.found)
  BY <1>1 DEF More
<1>6. k = "newest" => More(p, k, x) = NewestQuery(store.memory, FALSE, memory_candidate_limit(MemoryLimit), x.found)
  BY <1>1 DEF More
<1>7. k = "newest" => r.memory = RowsOf(rank_memory_candidates(x.found \cup More(p, k, x), FALSE, MemoryLimit))
  BY <1>1 DEF IsReturned
<1> QED
  BY <1>2, <1>3, <1>4, <1>5, <1>6, <1>7 DEF IsQueried

\* One more read of the same rows and messages.
LEMMA ReadsGoOn ==
    ASSUME NEW p \in Turns, NEW n \in 0..9, NEW x, DOMAIN x = Parts, ReadFrom(p, store, store.messages, x, n)
    PROVE  ReadFrom(p, store, store.messages, Returned(p, Reads(p)[n + 1], x), n + 1)
<1> DEFINE k == Reads(p)[n + 1]  r == Returned(p, k, x)
<1>1. p \in Procs /\ Len(Reads(p)) = 10
  BY TurnSearch, ReadsAre
<1>2. k \in ReadKinds
  <2>1. n \in 0..Len(Reads(p)) - 1
    BY <1>1
  <2> QED
    BY <1>1, <2>1, ReadsAre
<1>3. IsReturned(p, k, x, r)
  <2> HIDE DEF k
  <2> QED
    BY <1>1, <1>2, ReturnedIs DEF r
<1>4. n \in {0, 1, 2, 3, 4, 5, 6, 7, 8, 9}
  OBVIOUS
<1>5. /\ n = 0 => k = "embed"
      /\ n = 1 => k = "summary"
      /\ n = 2 => k = "event"
      /\ n = 3 => k = "nearest"
      /\ n = 4 => k = "text"
      /\ n = 5 => k = "newest"
      /\ n = 6 => k = "character"
      /\ n = 7 => k = "fact"
      /\ n = 8 => k = "location"
      /\ n = 9 => k = "messages"
  BY <1>1, ReadsAre
<1> HIDE DEF k, r
<1>6. CASE n = 0
  <2>1. r = x
    BY <1>3, <1>5, <1>6 DEF IsReturned
  <2> QED
    BY <1>6, <2>1 DEF ReadFrom, r, k
<1>7. CASE n \in {1, 2, 6, 7, 8}
  <2>1. /\ n = 1 => k = "summary" /\ k \in Listings
        /\ n = 2 => k = "event" /\ k \in Listings
        /\ n = 6 => k = "character" /\ k \in Listings
        /\ n = 7 => k = "fact" /\ k \in Listings
        /\ n = 8 => k = "location" /\ k \in Listings
    BY <1>5 DEF Listings
  <2>9. k \in Listings
    BY <1>7, <2>1
  <2>2. /\ r[k] = store[k] /\ r.found = x.found /\ r.memory = x.memory
        /\ \A f \in Listings \cup {"found", "memory", "messages"} : f # k => r[f] = x[f]
    BY <1>3, <2>9, ListingGoesOn
  <2>3. ReadFrom(p, store, store.messages, r, n + 1)
    <3> DEFINE m == store.messages
    <3> HIDE DEF m
    <3>1. CASE n = 1
      BY <2>1, <2>2, <3>1 DEF ReadFrom, Listings
    <3>2. CASE n = 2
      BY <2>1, <2>2, <3>2 DEF ReadFrom, Listings
    <3>3. CASE n = 6
      BY <2>1, <2>2, <3>3 DEF ReadFrom, Listings
    <3>4. CASE n = 7
      BY <2>1, <2>2, <3>4 DEF ReadFrom, Listings
    <3>5. CASE n = 8
      BY <2>1, <2>2, <3>5 DEF ReadFrom, Listings
    <3> QED
      BY <1>7, <3>1, <3>2, <3>3, <3>4, <3>5
  <2> QED
    BY <2>3 DEF r, k
<1>8. CASE n \in {3, 4, 5}
  <2>1. /\ n = 3 => k = "nearest" /\ k \in Queries
        /\ n = 4 => k = "text" /\ k \in Queries
        /\ n = 5 => k = "newest" /\ k \in Queries
    BY <1>5 DEF Queries
  <2>9. k \in Queries
    BY <1>8, <2>1
  <2> DEFINE M == store.memory  c == memory_candidate_limit(MemoryLimit)
  <2>10. /\ \A f \in Listings \cup {"messages"} : r[f] = x[f]
         /\ k = "nearest" => r.found = x.found \cup NearestQuery(M, FALSE, c)
         /\ k = "text" => r.found = x.found \cup TextQuery(M, FALSE, c, x.found)
         /\ k = "newest" =>
              r.memory = RowsOf(rank_memory_candidates(x.found \cup NewestQuery(M, FALSE, c, x.found), FALSE, MemoryLimit))
    <3>1. IsQueried(k, x, r)
      BY <1>3, <2>9, QueryGoesOn
    <3> QED
      BY <3>1 DEF IsQueried
  <2>2. \A f \in Listings \cup {"messages"} : r[f] = x[f]
    BY <2>10
  <2>3. x.summary = store.summary /\ x.event = store.event
    BY <1>8 DEF ReadFrom
  <2>4. r.summary = store.summary /\ r.event = store.event
    BY <2>2, <2>3 DEF Listings
  <2>5. n = 3 => r.found = FoundNear(store.memory)
    <3>1. n = 3 => x.found = {}
      BY DEF ReadFrom
    <3> QED
      BY <2>1, <2>10, <3>1 DEF FoundNear
  <2>6. n = 4 => r.found = FoundText(store.memory)
    <3>1. n = 4 => x.found = FoundNear(store.memory)
      BY DEF ReadFrom
    <3> QED
      BY <2>1, <2>10, <3>1 DEF FoundText
  <2>7. n = 5 => r.memory = Recalled(store.memory)
    <3>1. n = 5 => x.found = FoundText(store.memory)
      BY DEF ReadFrom
    <3> QED
      BY <2>1, <2>10, <3>1 DEF Recalled, FoundAll
  <2>8. ReadFrom(p, store, store.messages, r, n + 1)
    BY <1>8, <2>4, <2>5, <2>6, <2>7 DEF ReadFrom
  <2> QED
    BY <2>8 DEF r, k
<1>9. CASE n = 9
  <2>1. r.messages = AddQuestion(p, Newest(store.messages)) /\ \A f \in Parts : f # "messages" => r[f] = x[f]
    BY <1>3, <1>5, <1>9 DEF IsReturned
  <2>2. ReadFrom(p, store, store.messages, r, 10)
    BY <1>9, <2>1 DEF ReadFrom, Parts
  <2> QED
    BY <1>9, <2>2 DEF r, k
<1> QED
  BY <1>4, <1>6, <1>7, <1>8, <1>9

\* The newest messages, by their positions.
LEMMA NewestIs ==
    ASSUME NEW m \in Seq(Message)
    PROVE  /\ Newest(m) \in Seq(Message) /\ Len(Newest(m)) = Least(MessageLimit, Len(m))
           /\ \A i \in 1..Len(Newest(m)) :
                 Len(m) - Len(Newest(m)) + i \in 1..Len(m) /\ Newest(m)[i] = m[Len(m) - Len(Newest(m)) + i]
<1> DEFINE s == Newest(m)  a == Greatest(1, Len(m) - MessageLimit + 1)
<1>1. s \in Seq(Message) /\ Len(s) = Least(MessageLimit, Len(m))
  BY LatestIs
<1>2. a \in Nat /\ a >= 1 /\ Len(m) \in Nat /\ MessageLimit \in Nat
      /\ (IF a <= Len(m) THEN Len(m) - a + 1 ELSE 0) = Least(MessageLimit, Len(m))
  <2>1. MessageLimit \in Nat /\ MessageLimit >= 1
    BY ContextAssumption
  <2>2. Len(m) \in Nat
    OBVIOUS
  <2> DEFINE N == Len(m)
  <2> HIDE DEF N
  <2>3. a = Greatest(1, N - MessageLimit + 1)
    BY DEF N
  <2> HIDE DEF a
  <2>4. a = IF 1 > N - MessageLimit + 1 THEN 1 ELSE N - MessageLimit + 1
    BY <2>3 DEF Greatest
  <2>5. N \in Nat
    BY <2>2 DEF N
  <2>6. a \in Nat /\ a >= 1
    BY <2>1, <2>4, <2>5
  <2>7. (IF a <= N THEN N - a + 1 ELSE 0) = IF MessageLimit < N THEN MessageLimit ELSE N
    BY <2>1, <2>4, <2>5
  <2> QED
    BY <2>1, <2>2, <2>6, <2>7 DEF Least, N
<1>3. s = SubSeq(m, a, Len(m))
  BY DEF Newest
<1> HIDE DEF a
<1>4. \A i \in 1..Len(s) : a + i - 1 \in 1..Len(m) /\ s[i] = m[a + i - 1]
  <2>1. Len(SubSeq(m, a, Len(m))) = IF a <= Len(m) THEN Len(m) - a + 1 ELSE 0
    BY <1>2
  <2>2. \A i \in 1..Len(SubSeq(m, a, Len(m))) :
           a + i - 1 \in 1..Len(m) /\ SubSeq(m, a, Len(m))[i] = m[a + i - 1]
    BY <1>2, <2>1
  <2> QED
    BY <1>3, <2>2
<1> HIDE DEF s
<1>5. ASSUME NEW i \in 1..Len(s) PROVE a + i - 1 = Len(m) - Len(s) + i
  <2>1. Len(s) \in Nat /\ Len(s) = IF a <= Len(m) THEN Len(m) - a + 1 ELSE 0
    BY <1>1, <1>2
  <2>2. Len(s) = Len(m) - a + 1
    BY <2>1
  <2>3. i \in Nat /\ Len(m) \in Nat /\ a \in Nat
    BY <1>2, <2>1
  <2> DEFINE K == Len(s)  N == Len(m)
  <2> HIDE DEF K, N
  <2>5. K \in Nat /\ N \in Nat /\ K = N - a + 1
    BY <2>1, <2>2, <2>3 DEF K, N
  <2>4. a + i - 1 = N - K + i
    BY <2>3, <2>5
  <2> QED
    BY <2>4 DEF K, N
<1>6. \A i \in 1..Len(s) : Len(m) - Len(s) + i \in 1..Len(m) /\ s[i] = m[Len(m) - Len(s) + i]
  BY <1>4, <1>5
<1> QED
  BY <1>1, <1>6 DEF s

\* The newest of the newest are the newest.
LEMMA NewestAgain == ASSUME NEW m \in Seq(Message) PROVE Newest(Newest(m)) = Newest(m)
<1> DEFINE s == Newest(m)  t == Newest(s)
<1>1. s \in Seq(Message) /\ Len(s) = Least(MessageLimit, Len(m))
  BY NewestIs
<1> HIDE DEF s
<1>2. /\ t \in Seq(Message) /\ Len(t) = Least(MessageLimit, Len(s))
      /\ \A i \in 1..Len(t) : t[i] = s[Len(s) - Len(t) + i]
  BY <1>1, NewestIs
<1>3. Len(m) \in Nat /\ MessageLimit \in Nat /\ Len(s) \in Nat
  BY <1>1, ContextAssumption
<1> HIDE DEF t
<1>4. Len(t) = Len(s)
  BY <1>1, <1>2, <1>3 DEF Least
<1>5. \A i \in 1..Len(t) : t[i] = s[i]
  <2>1. \A i \in 1..Len(t) : Len(s) - Len(t) + i = i
    BY <1>3, <1>4
  <2> QED
    BY <1>2, <2>1
<1>6. t = s
  BY <1>1, <1>2, <1>4, <1>5, SeqEqual
<1> QED
  BY <1>6 DEF s, t

\* One more message after the newest, or after all.
LEMMA NewestOfMore ==
    ASSUME NEW m \in Seq(Message), NEW x \in Message
    PROVE  Newest(Append(Newest(m), x)) = Newest(Append(m, x))
<1> DEFINE s == Newest(m)  a == Append(s, x)  b == Append(m, x)  u == Newest(a)  v == Newest(b)
<1>1. /\ s \in Seq(Message) /\ Len(s) = Least(MessageLimit, Len(m))
      /\ \A i \in 1..Len(s) : Len(m) - Len(s) + i \in 1..Len(m) /\ s[i] = m[Len(m) - Len(s) + i]
  BY NewestIs
<1> HIDE DEF s
<1>2. /\ a \in Seq(Message) /\ Len(a) = Len(s) + 1 /\ a[Len(s) + 1] = x /\ \A i \in 1..Len(s) : a[i] = s[i]
  BY <1>1
<1>3. /\ b \in Seq(Message) /\ Len(b) = Len(m) + 1 /\ b[Len(m) + 1] = x /\ \A i \in 1..Len(m) : b[i] = m[i]
  OBVIOUS
<1> HIDE DEF a, b
<1>4. /\ u \in Seq(Message) /\ Len(u) = Least(MessageLimit, Len(a))
      /\ \A i \in 1..Len(u) : u[i] = a[Len(a) - Len(u) + i]
  BY <1>2, NewestIs
<1>5. /\ v \in Seq(Message) /\ Len(v) = Least(MessageLimit, Len(b))
      /\ \A i \in 1..Len(v) : v[i] = b[Len(b) - Len(v) + i]
  BY <1>3, NewestIs
<1>6. Len(m) \in Nat /\ MessageLimit \in Nat /\ MessageLimit >= 1 /\ Len(s) \in Nat
  BY <1>1, ContextAssumption
<1> HIDE DEF u, v
<1>7. Len(u) = Len(v) /\ Len(u) \in Nat /\ Len(u) <= Len(s) + 1 /\ Len(s) <= Len(m)
  BY <1>1, <1>2, <1>3, <1>4, <1>5, <1>6 DEF Least
<1> DEFINE l == Len(u)  K == Len(s)  N == Len(m)
<1>8. ASSUME NEW i \in 1..Len(u) PROVE u[i] = v[i]
  <2>1. l \in Nat /\ K \in Nat /\ N \in Nat /\ l <= K + 1 /\ K <= N /\ i \in 1..l
    BY <1>6, <1>7
  <2>2. u[i] = a[K + 1 - l + i] /\ v[i] = b[N + 1 - l + i]
    <3>1. u[i] = a[Len(a) - Len(u) + i] /\ Len(a) = K + 1
      BY <1>2, <1>4
    <3>2. v[i] = b[Len(b) - Len(v) + i] /\ Len(b) = N + 1 /\ Len(v) = l
      BY <1>3, <1>5, <1>7
    <3> QED
      BY <3>1, <3>2
  <2>3. CASE i = l
    <3>1. K + 1 - l + i = K + 1 /\ N + 1 - l + i = N + 1
      BY <2>1, <2>3
    <3> QED
      BY <1>2, <1>3, <2>2, <3>1
  <2>4. CASE i # l
    <3> DEFINE j == K + 1 - l + i  k == N + 1 - l + i
    <3> HIDE DEF l, K, N
    <3>1. j \in 1..K /\ k \in 1..N /\ N - K + j = k
      BY <2>1, <2>4
    <3> HIDE DEF j, k
    <3>2. a[j] = s[j] /\ s[j] = m[N - K + j] /\ b[k] = m[k]
      BY <1>1, <1>2, <1>3, <3>1 DEF K, N
    <3> QED
      BY <2>2, <3>1, <3>2 DEF j, k
  <2> QED
    BY <2>3, <2>4
<1>9. u = v
  BY <1>4, <1>5, <1>7, <1>8, SeqEqual
<1> QED
  BY <1>9 DEF u, v, a, b, s

\* A request is the same for the same rows and the same newest messages.
LEMMA SameRequest ==
    ASSUME NEW x, NEW y, \A kind \in Kinds : x[kind] = y[kind],
           Newest(x.messages) = Newest(y.messages)
    PROVE  build(x) = build(y)
<1>1. select_recent_messages(x.messages) = select_recent_messages(y.messages)
  BY DEF select_recent_messages
<1>2. candidates(x) = candidates(y)
  <2> DEFINE Of(z, kind) == {Candidate(kind, Listed(z[kind], kind)[j], j) : j \in DOMAIN Listed(z[kind], kind)}
  <2>1. \A kind \in Kinds : Of(x, kind) = Of(y, kind)
    OBVIOUS
  <2>2. candidates(x) = UNION {Of(x, kind) : kind \in Kinds} /\ candidates(y) = UNION {Of(y, kind) : kind \in Kinds}
    BY DEF candidates
  <2> HIDE DEF Of
  <2> QED
    BY <2>1, <2>2
<1>3. ranked_candidates(x) = ranked_candidates(y)
  BY <1>2 DEF ranked_candidates
<1> QED
  BY <1>1, <1>3 DEF build

\* What a preview and the turn after it have read makes the same request.
LEMMA SameReads ==
    ASSUME NEW s, NEW t, NEW m \in Seq(Message), NEW x, NEW y,
           \A f \in Kinds : s[f] = t[f],
           ReadFrom("preview", s, m, x, 10),
           ReadFrom("turn", t, Append(m, Own(Question)), y, 10)
    PROVE  build(x) = build(y)
<1> DEFINE q == Own(Question)
<1>1. /\ x.summary = s.summary /\ x.event = s.event /\ x.memory = Recalled(s.memory)
      /\ x.character = s.character /\ x.fact = s.fact /\ x.location = s.location
      /\ x.messages = Append(Newest(m), q)
  BY DEF ReadFrom, AddQuestion
<1>2. /\ y.summary = t.summary /\ y.event = t.event /\ y.memory = Recalled(t.memory)
      /\ y.character = t.character /\ y.fact = t.fact /\ y.location = t.location
      /\ y.messages = Newest(Append(m, q))
  BY DEF ReadFrom, AddQuestion
<1>3. q \in Message
  BY OwnIsMessage
<1> HIDE DEF q
<1>4. Newest(x.messages) = Newest(Append(m, q))
  BY <1>1, <1>3, NewestOfMore
<1>5. Newest(y.messages) = Newest(Append(m, q))
  <2>1. Append(m, q) \in Seq(Message)
    BY <1>3
  <2> QED
    BY <1>2, <2>1, NewestAgain
<1>6. \A kind \in Kinds : x[kind] = y[kind]
  BY <1>1, <1>2 DEF Kinds
<1> QED
  BY <1>4, <1>5, <1>6, SameRequest

\* How many reads of p have returned.
Returns(p) == IF read[p] = Built THEN 10 ELSE read[p]
Goes(p)   == read[p] \in 0..10 \cup {Built}

\* While quiet, the preview comes first; what it and the turn have read is what the
\* store has, but for the question, which only the turn has stored.
QuietReads ==
    /\ read["turn"] # Idle => read["preview"] = Built
    /\ read["turn"] = Idle /\ Goes("preview") =>
          ReadFrom("preview", store, store.messages, input["preview"], Returns("preview"))
    /\ read["turn"] # Idle =>
          \E m \in Seq(Message) : /\ store.messages = Append(m, Own(Question))
                                  /\ ReadFrom("preview", store, m, input["preview"], 10)
    /\ Goes("turn") => ReadFrom("turn", store, store.messages, input["turn"], Returns("turn"))

\* A turn that has not begun has found nothing.
FoundYet == \A p \in Turns : read[p] = Idle => input[p].found = {}

QuietInv == FoundYet /\ (quiet => QuietReads)

\* Rows are read from a store whatever its messages are.
LEMMA ReadFromSame ==
    ASSUME NEW p, NEW s, NEW t, NEW m, NEW x, NEW n, \A f \in Kinds : s[f] = t[f], ReadFrom(p, s, m, x, n)
    PROVE  ReadFrom(p, t, m, x, n)
BY DEF ReadFrom, Kinds

\* Before its first read a turn has read nothing from any store.
LEMMA ReadFromStart ==
    ASSUME NEW p, NEW s, NEW m, NEW x, x.found = {}
    PROVE  ReadFrom(p, s, m, x, 0)
BY DEF ReadFrom

\* It holds at first.
LEMMA QuietStarts == Init => QuietInv
<1> SUFFICES ASSUME Init PROVE QuietInv
  OBVIOUS
<1>1. \A p \in Turns : p \in Procs
  BY DEF Procs
<1>2. \A p \in Turns : read[p] = Idle /\ input[p] = NothingRead
  BY <1>1 DEF Init
<1>3. NothingRead.found = {}
  BY DEF NothingRead
<1>4. FoundYet
  BY <1>2, <1>3 DEF FoundYet
<1>5. read["turn"] = -1 /\ read["preview"] = -1
  BY <1>2 DEF Turns, Idle
<1>6. ~ Goes("turn") /\ ~ Goes("preview")
  BY <1>5 DEF Goes, Built
<1> QED
  BY <1>4, <1>5, <1>6 DEF QuietInv, QuietReads, Idle

\* A step that changes nothing of the store, the preview and the turn, and is not quieter.
LEMMA QuietStays ==
    ASSUME QuietInv, store' = store, quiet' => quiet,
           \A p \in Turns : read'[p] = read[p] /\ input'[p] = input[p]
    PROVE  QuietInv'
<1>1. FoundYet'
  BY DEF QuietInv, FoundYet
<1>2. /\ read'["turn"] = read["turn"] /\ read'["preview"] = read["preview"]
      /\ input'["turn"] = input["turn"] /\ input'["preview"] = input["preview"]
  BY DEF Turns
<1>3. /\ Goes("turn")' = Goes("turn") /\ Goes("preview")' = Goes("preview")
      /\ Returns("turn")' = Returns("turn") /\ Returns("preview")' = Returns("preview")
  BY <1>2 DEF Goes, Returns
<1>4. QuietReads => QuietReads'
  BY <1>2, <1>3 DEF QuietReads
<1> QED
  BY <1>1, <1>4 DEF QuietInv

\* Starting: the preview before the turn, and the turn after the preview.
LEMMA QuietStart ==
    ASSUME ContextInv, QuietInv, NEW p \in Procs, Start(p)
    PROVE  QuietInv'
<1>0. Counters /\ StoreTyped
  BY DEF ContextInv
<1>1. /\ read[p] = Idle /\ read' = [read EXCEPT ![p] = 0] /\ input' = input
  BY DEF Start
<1>2. read'[p] = 0 /\ \A q \in Procs : q # p => read'[q] = read[q]
  BY <1>0, <1>1 DEF Counters
<1>3. FoundYet'
  <2>1. ASSUME NEW q \in Turns, read'[q] = Idle PROVE input'[q].found = {}
    <3>1. q \in Procs /\ q # p
      BY <1>2, <2>1 DEF Procs, Idle
    <3> QED
      BY <1>1, <1>2, <2>1, <3>1 DEF QuietInv, FoundYet
  <2> QED
    BY <2>1 DEF FoundYet
<1>4. "turn" \in Procs /\ "preview" \in Procs /\ "turn" \in Turns /\ "preview" \in Turns
  BY DEF Procs, Turns
<1>5. CASE p = "preview"
  <2>1. store' = store /\ quiet' = (read["turn"] = Idle)
    BY <1>5 DEF Start
  <2>2. read'["turn"] = read["turn"] /\ read'["preview"] = 0 /\ Returns("preview")' = 0
    BY <1>2, <1>4, <1>5 DEF Returns, Built
  <2>3. input["preview"].found = {}
    BY <1>1, <1>4, <1>5 DEF QuietInv, FoundYet
  <2>4. ReadFrom("preview", store, store.messages, input["preview"], 0)
    BY <2>3, ReadFromStart
  <2>5. quiet' => ~ Goes("turn")' /\ read'["turn"] = Idle
    <3>1. quiet' => read'["turn"] = -1
      BY <2>1, <2>2 DEF Idle
    <3> QED
      BY <3>1 DEF Goes, Idle, Built
  <2>6. quiet' => QuietReads'
    BY <1>1, <2>1, <2>2, <2>4, <2>5 DEF QuietReads
  <2> QED
    BY <1>3, <2>6 DEF QuietInv
<1>6. CASE p = "turn"
  <2> DEFINE m == store.messages
  <2>1. store' = [store EXCEPT !.messages = Append(@, Own(Question))] /\ quiet' = (quiet /\ read["preview"] = Built)
    BY <1>6 DEF Start
  <2>2. read'["preview"] = read["preview"] /\ read'["turn"] = 0 /\ Returns("turn")' = 0
    BY <1>2, <1>4, <1>6 DEF Returns, Built
  <2>3. m \in Seq(Message) /\ store'.messages = Append(m, Own(Question)) /\ \A f \in Kinds : store[f] = store'[f]
    BY <1>0, <2>1 DEF StoreTyped, Store, Kinds
  <2>4. input["turn"].found = {}
    BY <1>1, <1>4, <1>6 DEF QuietInv, FoundYet
  <2>5. ReadFrom("turn", store', store'.messages, input["turn"], 0)
    BY <2>4, ReadFromStart
  <2>6. ASSUME quiet' PROVE QuietReads'
    <3>1. quiet /\ read["preview"] = Built /\ read["turn"] = Idle /\ QuietReads
      BY <1>1, <1>6, <2>1, <2>6 DEF QuietInv
    <3>2. Goes("preview") /\ Returns("preview") = 10
      BY <3>1 DEF Goes, Returns
    <3>3. ReadFrom("preview", store, m, input["preview"], 10)
      BY <3>1, <3>2 DEF QuietReads
    <3> HIDE DEF m
    <3>4. ReadFrom("preview", store', m, input["preview"], 10)
      BY <2>3, <3>3, ReadFromSame
    <3>5. read'["turn"] # Idle /\ read'["preview"] = Built
      BY <2>2, <3>1 DEF Idle
    <3> QED
      BY <1>1, <2>2, <2>3, <2>5, <3>4, <3>5 DEF QuietReads
  <2> QED
    BY <1>3, <2>6 DEF QuietInv
<1>7. CASE p = "search"
  <2>1. store' = store /\ quiet' = quiet
    BY <1>7 DEF Start
  <2>2. \A q \in Turns : read'[q] = read[q] /\ input'[q] = input[q]
    BY <1>1, <1>2, <1>7 DEF Procs, Turns
  <2> QED
    BY <2>1, <2>2, QuietStays
<1> QED
  BY <1>5, <1>6, <1>7 DEF Procs, Turns

\* Reading goes on from the same store.
LEMMA QuietRead ==
    ASSUME ContextInv, QuietInv, NEW p \in Procs, Read(p)
    PROVE  QuietInv'
<1>0. Counters /\ InputTyped(p)
  BY DEF ContextInv
<1> DEFINE n == read[p]  r == Returned(p, Reads(p)[n + 1], input[p])
<1>1. /\ n \in 0..Len(Reads(p)) - 1 /\ read' = [read EXCEPT ![p] = n + 1] /\ input' = [input EXCEPT ![p] = r]
      /\ store' = store /\ quiet' = quiet
  BY DEF Read, Reading
<1> HIDE DEF r
<1>2. /\ read'[p] = n + 1 /\ input'[p] = r
      /\ \A q \in Procs : q # p => read'[q] = read[q] /\ input'[q] = input[q]
  BY <1>0, <1>1 DEF Counters
<1>3. "turn" \in Procs /\ "preview" \in Procs /\ \A q \in Turns : q \in Procs
  BY DEF Procs, Turns
<1>4. CASE p \notin Turns
  <2>1. \A q \in Turns : read'[q] = read[q] /\ input'[q] = input[q]
    BY <1>2, <1>3, <1>4
  <2> QED
    BY <1>1, <2>1, QuietStays
<1>5. CASE p \in Turns
  <2>1. Len(Reads(p)) = 10
    BY <1>5, ReadsAre
  <2>2. n \in 0..9
    BY <1>1, <2>1
  <2>3. read[p] # Idle /\ read[p] # Built /\ Goes(p) /\ Returns(p) = n
    BY <2>2 DEF Idle, Built, Goes, Returns
  <2>4. read'[p] # Idle /\ read'[p] # Built /\ Goes(p)' /\ Returns(p)' = n + 1
    <3> HIDE DEF n
    <3>1. n + 1 \in 1..10
      BY <2>2
    <3> QED
      BY <1>2, <3>1 DEF Idle, Built, Goes, Returns
  <2>5. FoundYet'
    BY <1>2, <1>3, <2>4 DEF QuietInv, FoundYet
  <2>6. DOMAIN input[p] = Parts
    BY <1>0, NothingIsRead DEF InputTyped, IsInput
  <2>7. ReadFrom(p, store, store.messages, input[p], n) => ReadFrom(p, store, store.messages, r, n + 1)
    <3> HIDE DEF n
    <3> QED
      BY <1>5, <2>2, <2>6, ReadsGoOn DEF r
  <2> HIDE DEF n
  <2>8. ASSUME quiet' PROVE QuietReads'
    <3>1. quiet /\ QuietReads
      BY <1>1, <2>8 DEF QuietInv
    <3>2. CASE p = "preview"
      <4>1. read["turn"] = Idle /\ read'["turn"] = Idle
        BY <1>2, <1>3, <2>3, <3>1, <3>2 DEF QuietReads
      <4>2. ReadFrom("preview", store, store.messages, input["preview"], n)
        BY <2>3, <3>1, <3>2, <4>1 DEF QuietReads
      <4>3. ReadFrom("preview", store', store'.messages, input'["preview"], Returns("preview")')
        BY <1>1, <1>2, <2>4, <2>7, <3>2, <4>2
      <4>4. ~ Goes("turn")'
        BY <4>1 DEF Goes, Idle, Built
      <4> QED
        BY <4>1, <4>3, <4>4 DEF QuietReads
    <3>3. CASE p = "turn"
      <4>1. read'["preview"] = read["preview"] /\ input'["preview"] = input["preview"]
        BY <1>2, <1>3, <3>3
      <4>2. read["preview"] = Built
        BY <2>3, <3>1, <3>3 DEF QuietReads
      <4>3. ReadFrom("turn", store, store.messages, input["turn"], n)
        BY <2>3, <3>1, <3>3 DEF QuietReads
      <4>4. ReadFrom("turn", store', store'.messages, input'["turn"], Returns("turn")')
        BY <1>1, <1>2, <2>4, <2>7, <3>3, <4>3
      <4>5. \E m \in Seq(Message) : /\ store.messages = Append(m, Own(Question))
                                    /\ ReadFrom("preview", store, m, input["preview"], 10)
        BY <2>3, <3>1, <3>3 DEF QuietReads
      <4> QED
        BY <1>1, <2>4, <3>3, <4>1, <4>2, <4>4, <4>5 DEF QuietReads
    <3> QED
      BY <1>5, <3>2, <3>3 DEF Turns
  <2> QED
    BY <2>5, <2>8 DEF QuietInv
<1> QED
  BY <1>4, <1>5

\* Building after the last read, or a read that fails.
LEMMA QuietEnd ==
    ASSUME ContextInv, QuietInv, NEW p \in Procs, Build(p) \/ ReadFails(p)
    PROVE  QuietInv'
<1>0. Counters
  BY DEF ContextInv
<1>1. /\ store' = store /\ input' = input /\ quiet' = quiet
      /\ \/ read[p] = Len(Reads(p)) /\ read' = [read EXCEPT ![p] = Built]
         \/ read[p] \in 0..Len(Reads(p)) - 1 /\ read' = [read EXCEPT ![p] = Failed]
  BY DEF Build, ReadFails, Reading
<1>2. /\ \/ read[p] = Len(Reads(p)) /\ read'[p] = Built
         \/ read[p] \in 0..Len(Reads(p)) - 1 /\ read'[p] = Failed
      /\ \A q \in Procs : q # p => read'[q] = read[q]
  BY <1>0, <1>1 DEF Counters
<1>3. "turn" \in Procs /\ "preview" \in Procs /\ \A q \in Turns : q \in Procs
  BY DEF Procs, Turns
<1>4. CASE p \notin Turns
  <2>1. \A q \in Turns : read'[q] = read[q] /\ input'[q] = input[q]
    BY <1>1, <1>2, <1>3, <1>4
  <2> QED
    BY <1>1, <2>1, QuietStays
<1>5. CASE p \in Turns
  <2>1. Len(Reads(p)) = 10
    BY <1>5, ReadsAre DEF Procs
  <2>2. \/ read[p] = 10 /\ read'[p] = 11
        \/ read[p] \in 0..9 /\ read'[p] = -2
    BY <1>2, <2>1 DEF Built, Failed
  <2>3. read[p] # Idle /\ read[p] # Built /\ Goes(p) /\ read'[p] # Idle
    BY <2>2 DEF Idle, Built, Goes
  <2>4. Goes(p)' => Returns(p)' = Returns(p)
    BY <2>2 DEF Built, Goes, Returns
  <2>5. FoundYet'
    BY <1>1, <1>2, <1>3, <2>3 DEF QuietInv, FoundYet
  <2>6. ASSUME quiet' PROVE QuietReads'
    <3>1. quiet /\ QuietReads
      BY <1>1, <2>6 DEF QuietInv
    <3>2. CASE p = "preview"
      <4>1. read["turn"] = Idle /\ read'["turn"] = Idle
        BY <1>2, <1>3, <2>3, <3>1, <3>2 DEF QuietReads
      <4>2. ReadFrom("preview", store, store.messages, input["preview"], Returns("preview"))
        BY <2>3, <3>1, <3>2, <4>1 DEF QuietReads
      <4>3. ~ Goes("turn")'
        BY <4>1 DEF Goes, Idle, Built
      <4> QED
        BY <1>1, <2>4, <3>2, <4>1, <4>2, <4>3 DEF QuietReads
    <3>3. CASE p = "turn"
      <4>1. read'["preview"] = read["preview"]
        BY <1>2, <1>3, <3>3
      <4>2. read["preview"] = Built
        BY <2>3, <3>1, <3>3 DEF QuietReads
      <4>3. ReadFrom("turn", store, store.messages, input["turn"], Returns("turn"))
        BY <2>3, <3>1, <3>3 DEF QuietReads
      <4>4. Goes("turn")' => ReadFrom("turn", store', store'.messages, input'["turn"], Returns("turn")')
        BY <1>1, <2>4, <3>3, <4>3
      <4>5. \E m \in Seq(Message) : /\ store.messages = Append(m, Own(Question))
                                    /\ ReadFrom("preview", store, m, input["preview"], 10)
        BY <2>3, <3>1, <3>3 DEF QuietReads
      <4> QED
        BY <1>1, <2>3, <3>3, <4>1, <4>2, <4>4, <4>5 DEF QuietReads
    <3> QED
      BY <1>5, <3>2, <3>3 DEF Turns
  <2> QED
    BY <2>5, <2>6 DEF QuietInv
<1> QED
  BY <1>4, <1>5

\* Every step preserves it.
LEMMA QuietSteps == ContextInv /\ QuietInv /\ [Next]_vars => QuietInv'
<1> SUFFICES ASSUME ContextInv, QuietInv, [Next]_vars PROVE QuietInv'
  OBVIOUS
<1>1. ASSUME NEW p \in Procs, Start(p) \/ Read(p) \/ Build(p) \/ ReadFails(p) PROVE QuietInv'
  BY <1>1, QuietStart, QuietRead, QuietEnd
<1>2. ASSUME Write PROVE QuietInv'
  <2>1. read' = read /\ input' = input /\ quiet' = FALSE
    BY <1>2 DEF Write
  <2> QED
    BY <2>1 DEF QuietInv, FoundYet
<1>3. ASSUME UNCHANGED vars PROVE QuietInv'
  <2>1. store' = store /\ read' = read /\ input' = input /\ quiet' = quiet
    BY <1>3 DEF vars
  <2> QED
    BY <2>1, QuietStays
<1> QED
  BY <1>1, <1>2, <1>3 DEF Next, Ended

\* What a preview shows is what the turn then asks.
LEMMA PreviewShows == ContextInv /\ QuietInv => PreviewIsExact
<1> SUFFICES ASSUME ContextInv, QuietInv, IsBuilt("preview"), IsBuilt("turn"), quiet
             PROVE  request["preview"] = request["turn"]
  BY DEF PreviewIsExact
<1>1. "turn" \in Turns /\ "preview" \in Turns /\ "turn" \in Procs /\ "preview" \in Procs
  BY DEF Procs, Turns
<1>2. request["preview"] = build(input["preview"]) /\ request["turn"] = build(input["turn"])
  BY <1>1 DEF ContextInv, RequestDone, IsBuilt
<1>3. read["turn"] # Idle /\ Goes("turn") /\ Returns("turn") = 10 /\ QuietReads
  BY DEF IsBuilt, Idle, Built, Goes, Returns, QuietInv
<1>4. PICK m \in Seq(Message) : /\ store.messages = Append(m, Own(Question))
                                /\ ReadFrom("preview", store, m, input["preview"], 10)
  BY <1>3 DEF QuietReads
<1>5. ReadFrom("turn", store, Append(m, Own(Question)), input["turn"], 10)
  BY <1>3, <1>4 DEF QuietReads
<1>6. build(input["preview"]) = build(input["turn"])
  BY <1>4, <1>5, SameReads
<1> QED
  BY <1>2, <1>6

\* A preview shows the request that the turn then makes, when nobody writes in between.
THEOREM PreviewHolds == Spec => []PreviewIsExact
<1>1. Spec => [](ContextInv /\ QuietInv)
  BY ContextStarts, ContextSteps, QuietStarts, QuietSteps, PTL DEF Spec
<1> QED
  BY <1>1, PreviewShows, PTL
=============================================================================
