----------------------------- MODULE ExportProofs -----------------------------
(***************************************************************************)
(* Proofs about Export, for any sessions, tables and bounds.  The heart of *)
(* the inductive invariant is CoverInv: each row that was there when the   *)
(* backup began has been handed over, waits to be, or is in a table that   *)
(* is still to be read, so that nothing is left when the plan is done.     *)
(***************************************************************************)
EXTENDS Export, TLAPS

\* What the task has handed over while the client receives: for a stream that is
\* written, what is in the file and what is on its way there; else the channel.
Sent == IF mode = "stream" /\ client = "writing" THEN file \o channel ELSE channel

\* The rows handed over or next to be handed over, the reads still to be made.
RowsOf(s)  == {<<s[i].key, s[i].row>> : i \in {j \in DOMAIN s : s[j].kind = "row"}}
SendsOf(p) == {<<p[i].key, p[i].row>> : i \in {j \in DOMAIN p : p[j].do = "send"}}
ReadsOf(p) == {p[i].key : i \in {j \in DOMAIN p : p[j].do = "read"}}
Handled    == RowsOf(Sent) \cup SendsOf(plan)
Pending    == ReadsOf(plan)

\* f is r, in the same version or a later one.
IsNewer(f, r) == f.id = r.id /\ f.ver >= r.ver

Introduced(s, n) ==
    \E j \in 1..n : Sent[j].kind = "row" /\ Sent[j].key = <<"session">> /\ Sent[j].row.id = s
ToBeIntroduced(s, n) ==
    \E j \in 1..n : plan[j].do = "send" /\ plan[j].key = <<"session">> /\ plan[j].row.id = s

\* The phases of the command, and what the file is in each.
PhaseInv ==
    /\ client = "idle" <=> task = "idle"
    /\ client = "idle" => plan = <<>> /\ sequence = 0 /\ store = InitialStore
    /\ client \in {"idle", "reading"} => file = OldBackup
    /\ ~Receiving => channel = <<>>
    /\ client = "writing" => file \in Seq(Item \ {Error})
    /\ mode = "snapshot" /\ client = "writing" => task = "done" /\ channel # <<>>
    /\ mode = "snapshot" /\ file # OldBackup => task = "done"
    /\ task = "done" => plan = <<>>
    /\ Whole => task = "done"
    /\ client = "reported" => Whole

\* The numbers of what has been handed over, and where an end may stand.
SentInv ==
    Receiving =>
        /\ \A i \in DOMAIN Sent :
              /\ Sent[i].kind # "error" => Sent[i].seq = i
              /\ Sent[i].kind = "error" => task = "failed"
              /\ Sent[i].kind = "done" => i = Len(Sent) /\ task = "done"
        /\ task \in {"running", "done"} => Len(Sent) = sequence
        /\ task = "done" => Sent # <<>> /\ Last(Sent).kind = "done"
        /\ task = "failed" => channel # <<>> /\ Last(channel) = Error

\* Whoever is handed over or to be asked for has a session known before it.
OrderInv ==
    Receiving =>
        /\ \A i \in DOMAIN Sent :
              Sent[i].kind = "row" /\ Len(Sent[i].key) = 2 => Introduced(Sent[i].key[2], i)
        /\ \A i \in DOMAIN plan : Len(plan[i].key) = 2 =>
              Introduced(plan[i].key[2], Len(Sent)) \/ ToBeIntroduced(plan[i].key[2], i - 1)

\* The tables only grow, in rows and in versions.
StoreInv ==
    /\ before = InitialStore
    /\ \A r \in ToSet(store[<<"session">>]) : r.id \in Sessions
    /\ \A k \in Keys : \A r \in ToSet(before[k]) : \E f \in ToSet(store[k]) : IsNewer(f, r)

\* Every row there was is handled, or its table is still to be read.
CoverInv ==
    Receiving /\ task # "idle" /\ Fits =>
        \A k \in Keys : \A r \in ToSet(before[k]) :
            \/ \E f \in Row : <<k, f>> \in Handled /\ IsNewer(f, r)
            \/ k \in Pending
            \/ Len(k) = 2 /\ <<"session">> \in Pending

\* No row is handled that was not stored.
RealInv ==
    Receiving =>
        \A k \in Keys : \A f \in Row : <<k, f>> \in Handled =>
            \E r \in ToSet(store[k]) : IsNewer(r, f)

IInv == /\ TypeOK /\ PhaseInv /\ SentInv /\ OrderInv /\ StoreInv /\ CoverInv /\ RealInv
        /\ WholeBackupBrackets /\ SessionsComeFirst /\ NumberedWithoutGap /\ SnapshotKeepsOld

-----------------------------------------------------------------------------
(* What keys, rows, steps of the plan and items of the stream are.         *)

\* The tables of a session have its id in their keys, the others have one part.
LEMMA KeyFacts ==
    /\ <<"session">> \in Keys /\ Len(<<"session">>) = 1 /\ Len(<<"game">>) = 1
    /\ <<"game">> \notin Keys
    /\ \A i \in DOMAIN GameTables : <<GameTables[i]>> \in Keys
    /\ \A j \in 1..3, s \in Sessions : <<SessionTables[j], s>> \in Keys
    /\ \A k \in Keys : /\ k[1] = "session" <=> k = <<"session">>
                       /\ Len(k) \in 1..2
                       /\ Len(k) = 2 => \E j \in 1..3 : k = <<SessionTables[j], k[2]>> /\ k[2] \in Sessions
                       /\ Len(k) = 1 => \/ k = <<"session">>
                                        \/ \E i \in DOMAIN GameTables : k = <<GameTables[i]>>
<1>1. ToSet(SessionTables) = {"story_summary", "event", "memory_chunk"}
  BY DEF ToSet, SessionTables
<1>2. ToSet(GameTables) = {"character", "world_fact", "location"}
  BY DEF ToSet, GameTables
<1>3. \A k \in Keys : \/ k = <<"session">>
                      \/ \E t \in ToSet(SessionTables), s \in Sessions : k = <<t, s>>
                      \/ \E t \in ToSet(GameTables) : k = <<t>>
  BY DEF Keys
<1>4. ASSUME NEW k \in Keys
      PROVE  /\ k[1] = "session" <=> k = <<"session">>
             /\ Len(k) \in 1..2
             /\ Len(k) = 2 => \E j \in 1..3 : k = <<SessionTables[j], k[2]>> /\ k[2] \in Sessions
             /\ Len(k) = 1 => \/ k = <<"session">>
                              \/ \E i \in DOMAIN GameTables : k = <<GameTables[i]>>
  <2>1. CASE k = <<"session">>
    BY <2>1
  <2>2. CASE \E t \in ToSet(SessionTables), s \in Sessions : k = <<t, s>>
    BY <2>2, <1>1 DEF SessionTables
  <2>3. CASE \E t \in ToSet(GameTables) : k = <<t>>
    <3>1. \A t \in ToSet(GameTables) : \E i \in DOMAIN GameTables : t = GameTables[i]
      BY DEF ToSet
    <3> QED
      BY <2>3, <1>2, <3>1
  <2> QED
    BY <1>3, <2>1, <2>2, <2>3
<1>5. <<"game">> \notin Keys
  BY <1>1, <1>2, <1>3
<1>6. \A i \in DOMAIN GameTables : <<GameTables[i]>> \in Keys
  BY DEF Keys, ToSet, GameTables
<1>7. \A j \in 1..3, s \in Sessions : <<SessionTables[j], s>> \in Keys
  BY <1>1 DEF Keys, SessionTables
<1> QED
  BY <1>4, <1>5, <1>6, <1>7 DEF Keys

\* A step of the plan is a read of a table or the sending of a row.
LEMMA StepFacts ==
    /\ \A k \in Keys : Read(k) \in Step /\ Read(k).do = "read" /\ Read(k).key = k
    /\ \A k \in Keys \cup {<<"game">>}, r \in Row :
          Send(k, r) \in Step /\ Send(k, r).do = "send" /\ Send(k, r).key = k /\ Send(k, r).row = r
    /\ \A s \in Step : /\ s.do \in {"read", "send"}
                       /\ s.do = "read" => s.key \in Keys
                       /\ s.do = "send" => s.key \in Keys \cup {<<"game">>} /\ s.row \in Row
  BY DEF Step, Read, Send

\* An item is a row, the done chunk or the error.
LEMMA ItemFacts ==
    /\ \A s \in Step, n \in Nat : s.do = "send" =>
          /\ Chunk(s, n) \in Item /\ Chunk(s, n).kind = "row"
          /\ Chunk(s, n).key = s.key /\ Chunk(s, n).row = s.row /\ Chunk(s, n).seq = n
    /\ \A n \in Nat : Done(n) \in Item /\ Done(n).kind = "done" /\ Done(n).seq = n
    /\ Error \in Item /\ Error.kind = "error"
    /\ \A x \in Item : /\ x.kind \in {"row", "done", "error"}
                       /\ x.kind = "error" <=> x = Error
                       /\ x.kind = "row" => x.key \in Keys \cup {<<"game">>} /\ x.row \in Row
    /\ OldBackup \notin Seq(Item) /\ OldBackup # <<>>
<1>1. \A x \in Item : x.kind \in {"row", "done", "error"}
  BY DEF Item, Error
<1>2. OldBackup \notin Seq(Item)
  <2>1. OldBackup[1].kind = "old" /\ 1 \in DOMAIN OldBackup
    BY DEF OldBackup
  <2> QED
    BY <1>1, <2>1
<1>3. \A s \in Step, n \in Nat : s.do = "send" =>
          /\ Chunk(s, n) \in Item /\ Chunk(s, n).kind = "row"
          /\ Chunk(s, n).key = s.key /\ Chunk(s, n).row = s.row /\ Chunk(s, n).seq = n
  BY StepFacts DEF Item, Chunk
<1>4. \A n \in Nat : Done(n) \in Item /\ Done(n).kind = "done" /\ Done(n).seq = n
  BY DEF Item, Done
<1>5. Error \in Item /\ Error.kind = "error"
  BY DEF Item, Error
<1>6. \A x \in Item : x.kind = "error" => x = Error
  BY DEF Item, Error
<1>7. \A x \in Item : x.kind = "row" => x.key \in Keys \cup {<<"game">>} /\ x.row \in Row
  BY DEF Item, Error
<1>8. OldBackup # <<>>
  BY DEF OldBackup
<1> QED
  BY <1>1, <1>2, <1>3, <1>4, <1>5, <1>6, <1>7, <1>8

\* Each place of a concatenation is in one of its parts.
LEMMA Concatenated ==
    ASSUME NEW S, NEW a \in Seq(S), NEW b \in Seq(S)
    PROVE  /\ a \o b \in Seq(S) /\ Len(a \o b) = Len(a) + Len(b)
           /\ \A i \in DOMAIN (a \o b) :
                 \/ i \in DOMAIN a /\ (a \o b)[i] = a[i]
                 \/ i - Len(a) \in DOMAIN b /\ (a \o b)[i] = b[i - Len(a)]
           /\ \A i \in DOMAIN a : i \in DOMAIN (a \o b) /\ (a \o b)[i] = a[i]
           /\ \A i \in DOMAIN b : i + Len(a) \in DOMAIN (a \o b) /\ (a \o b)[i + Len(a)] = b[i]
<1>1. /\ DOMAIN a = 1..Len(a) /\ DOMAIN b = 1..Len(b) /\ Len(a) \in Nat /\ Len(b) \in Nat
      /\ DOMAIN (a \o b) = 1..(Len(a) + Len(b)) /\ a \o b \in Seq(S)
      /\ Len(a \o b) = Len(a) + Len(b)
  OBVIOUS
<1>2. \A i \in DOMAIN a : i \in DOMAIN (a \o b) /\ (a \o b)[i] = a[i]
  BY <1>1
<1>3. \A i \in DOMAIN b : i + Len(a) \in DOMAIN (a \o b) /\ (a \o b)[i + Len(a)] = b[i]
  BY <1>1
<1>4. ASSUME NEW i \in DOMAIN (a \o b)
      PROVE  \/ i \in DOMAIN a /\ (a \o b)[i] = a[i]
             \/ i - Len(a) \in DOMAIN b /\ (a \o b)[i] = b[i - Len(a)]
  <2>1. CASE i <= Len(a)
    BY <1>1, <2>1
  <2>2. CASE i > Len(a)
    BY <1>1, <2>2
  <2> QED
    BY <1>1, <2>1, <2>2
<1> QED
  BY <1>1, <1>2, <1>3, <1>4

\* The element that is appended comes last; the others stay where they are.
LEMMA Appended ==
    ASSUME NEW S, NEW a \in Seq(S), NEW x \in S
    PROVE  /\ Append(a, x) \in Seq(S) /\ Len(Append(a, x)) = Len(a) + 1
           /\ DOMAIN Append(a, x) = 1..(Len(a) + 1) /\ DOMAIN a = 1..Len(a) /\ Len(a) \in Nat
           /\ \A i \in DOMAIN a : Append(a, x)[i] = a[i]
           /\ Append(a, x)[Len(a) + 1] = x
           /\ Append(a, x) # <<>> /\ Last(Append(a, x)) = x
  BY DEF Last

\* A sequence is its head and its tail.
LEMMA HeadAndTail ==
    ASSUME NEW S, NEW a \in Seq(S), a # <<>>
    PROVE  /\ Head(a) \in S /\ Tail(a) \in Seq(S) /\ Head(a) = a[1] /\ 1 \in DOMAIN a
           /\ Len(a) \in Nat /\ Len(Tail(a)) = Len(a) - 1
           /\ DOMAIN a = 1..Len(a) /\ DOMAIN Tail(a) = 1..(Len(a) - 1)
           /\ \A i \in DOMAIN Tail(a) : i + 1 \in DOMAIN a /\ Tail(a)[i] = a[i + 1]
           /\ \A i \in DOMAIN a : i # 1 => i - 1 \in DOMAIN Tail(a) /\ Tail(a)[i - 1] = a[i]
<1>1. /\ Len(a) \in Nat /\ Len(a) # 0 /\ DOMAIN a = 1..Len(a)
      /\ Tail(a) \in Seq(S) /\ Len(Tail(a)) = Len(a) - 1 /\ Head(a) = a[1]
  OBVIOUS
<1>2. DOMAIN Tail(a) = 1..(Len(a) - 1)
  BY <1>1
<1>3. \A i \in DOMAIN Tail(a) : i + 1 \in DOMAIN a /\ Tail(a)[i] = a[i + 1]
  BY <1>1, <1>2
<1>4. \A i \in DOMAIN a : i # 1 => i - 1 \in DOMAIN Tail(a) /\ Tail(a)[i - 1] = a[i]
  BY <1>1, <1>2
<1> QED
  BY <1>1, <1>2, <1>3, <1>4

\* The tail ends as the whole does.
LEMMA LastOfTail ==
    ASSUME NEW S, NEW a \in Seq(S), a # <<>>, Len(a) # 1
    PROVE  Tail(a) # <<>> /\ Last(Tail(a)) = Last(a)
<1>1. Len(a) \in Nat /\ Len(a) # 0 /\ Tail(a) \in Seq(S) /\ Len(Tail(a)) = Len(a) - 1
  OBVIOUS
<1>2. Len(a) - 1 # 0 /\ Len(<<>>) = 0
  BY <1>1
<1>3. Tail(a)[Len(a) - 1] = a[Len(a)]
  BY <1>1
<1> QED
  BY <1>1, <1>2, <1>3 DEF Last

\* Moving the head of one sequence to the end of the one before it leaves the two as they are
\* together: a chunk that is written to the file has not been lost from what was sent.
LEMMA HeadMoves ==
    ASSUME NEW S, NEW a \in Seq(S), NEW c \in Seq(S), c # <<>>
    PROVE  Append(a, Head(c)) \o Tail(c) = a \o c
<1>1. Append(a, Head(c)) \in Seq(S) /\ Tail(c) \in Seq(S)
  BY HeadAndTail, Appended
<1>2. /\ Len(Append(a, Head(c)) \o Tail(c)) = Len(a \o c)
      /\ DOMAIN (a \o c) = 1..Len(a \o c)
      /\ DOMAIN (Append(a, Head(c)) \o Tail(c)) = 1..Len(a \o c)
  BY <1>1
<1>3. ASSUME NEW i \in 1..Len(a \o c)
      PROVE  (Append(a, Head(c)) \o Tail(c))[i] = (a \o c)[i]
  OBVIOUS
<1> QED
  BY <1>1, <1>2, <1>3

\* What is appended to the second part is appended to the whole.
LEMMA AppendedBehind ==
    ASSUME NEW S, NEW a \in Seq(S), NEW c \in Seq(S), NEW x \in S
    PROVE  a \o Append(c, x) = Append(a \o c, x)
  OBVIOUS

\* The smaller of two numbers.
LEMMA MinOfTwo ==
    ASSUME NEW m \in Nat, NEW n \in Nat
    PROVE  Min({m, n}) = IF m <= n THEN m ELSE n
<1>1. \E x \in {m, n} : \A y \in {m, n} : x =< y
  <2>1. CASE m <= n
    BY <2>1
  <2>2. CASE n <= m
    BY <2>2
  <2> QED
    BY <2>1, <2>2
<1>2. Min({m, n}) \in {m, n} /\ \A y \in {m, n} : Min({m, n}) =< y
  BY <1>1 DEF Min
<1> QED
  BY <1>2

\* A listing returns rows of its table, and all of them when they are within the limit.
LEMMA ListedFacts ==
    ASSUME NEW k \in Keys, store[k] \in Seq(Row)
    PROVE  /\ Listed(k) \in Seq(Row) /\ ToSet(Listed(k)) \subseteq ToSet(store[k])
           /\ Len(store[k]) <= Limit => ToSet(Listed(k)) = ToSet(store[k])
<1> DEFINE rows == store[k]
<1> DEFINE n == Min({Limit, Len(rows)})
<1>1. /\ Limit \in Nat /\ Len(rows) \in Nat /\ rows \in Seq(Row) /\ DOMAIN rows = 1..Len(rows)
  BY ExportAssumption
<1>2. n = IF Limit <= Len(rows) THEN Limit ELSE Len(rows)
  BY <1>1, MinOfTwo
<1>3. /\ n \in 0..Len(rows) /\ (Len(rows) <= Limit => n = Len(rows))
  BY <1>1, <1>2
<1> HIDE DEF rows, n
<1>4. /\ Oldest(rows) \in Seq(Row) /\ ToSet(Oldest(rows)) \subseteq ToSet(rows)
      /\ Len(rows) <= Limit => ToSet(Oldest(rows)) = ToSet(rows)
  <2>1. Oldest(rows) = SubSeq(rows, 1, n)
    BY DEF Oldest, n
  <2>2. /\ Oldest(rows) \in Seq(Row) /\ DOMAIN Oldest(rows) = 1..n
        /\ \A i \in 1..n : Oldest(rows)[i] = rows[i] /\ i \in DOMAIN rows
    BY <1>1, <1>3, <2>1
  <2> QED
    BY <1>1, <1>3, <2>2 DEF ToSet
<1>5. /\ Latest(rows) \in Seq(Row) /\ ToSet(Latest(rows)) \subseteq ToSet(rows)
      /\ Len(rows) <= Limit => ToSet(Latest(rows)) = ToSet(rows)
  <2>1. Latest(rows) = SubSeq(rows, Len(rows) - n + 1, Len(rows))
    BY DEF Latest, n
  <2>2. /\ Latest(rows) \in Seq(Row) /\ DOMAIN Latest(rows) = 1..n
        /\ \A i \in 1..n : /\ Latest(rows)[i] = rows[Len(rows) - n + i]
                           /\ Len(rows) - n + i \in DOMAIN rows
    <3>1. n \in 0..Len(rows) /\ Len(rows) \in Nat
      BY <1>1, <1>3
    <3>2. Len(rows) - n + 1 \in 1..(Len(rows) + 1)
      BY <3>1
    <3>3. rows \in Seq(Row) /\ DOMAIN rows = 1..Len(rows)
      BY <1>1
    <3>4. Latest(rows) \in Seq(Row) /\ Len(Latest(rows)) = n
      BY <2>1, <3>1, <3>2, <3>3
    <3>5. \A i \in 1..n : Len(rows) - n + i \in DOMAIN rows
      BY <3>1, <3>3
    <3>6. \A i \in 1..n : Latest(rows)[i] = rows[Len(rows) - n + i]
      BY <2>1, <3>1, <3>2, <3>3
    <3> QED
      BY <3>1, <3>4, <3>5, <3>6
  <2>3. n = Len(rows) => \A i \in 1..n : Latest(rows)[i] = rows[i]
    BY <1>1, <2>2
  <2> QED
    BY <1>1, <1>3, <2>2, <2>3 DEF ToSet
<1>6. ASSUME NEW s \in Seq(Row) PROVE Reverse(s) \in Seq(Row) /\ ToSet(Reverse(s)) = ToSet(s)
  <2>1. DOMAIN s = 1..Len(s) /\ Len(s) \in Nat
    OBVIOUS
  <2>2. Reverse(s) \in Seq(Row) /\ DOMAIN Reverse(s) = 1..Len(s)
    BY <2>1 DEF Reverse
  <2>3. \A i \in 1..Len(s) : Len(s) - i + 1 \in 1..Len(s) /\ Reverse(s)[i] = s[Len(s) - i + 1]
    BY <2>1 DEF Reverse
  <2>4. \A i \in 1..Len(s) : Reverse(s)[Len(s) - i + 1] = s[i]
    BY <2>1 DEF Reverse
  <2>5. ToSet(Reverse(s)) \subseteq ToSet(s)
    BY <2>1, <2>2, <2>3 DEF ToSet
  <2>6. ToSet(s) \subseteq ToSet(Reverse(s))
    BY <2>1, <2>2, <2>3, <2>4 DEF ToSet
  <2> QED
    BY <2>2, <2>5, <2>6
<1>7. CASE k[1] \in {"session", "memory_chunk"}
  BY <1>4, <1>7 DEF Listed, rows
<1>8. CASE k[1] = "event"
  BY <1>5, <1>8 DEF Listed, rows
<1>9. CASE k[1] = "world_fact"
  BY <1>5, <1>6, <1>9 DEF Listed, rows
<1>10. CASE k[1] \notin {"session", "memory_chunk", "event", "world_fact"}
  BY <1>1, <1>10 DEF Listed, rows
<1> QED
  BY <1>7, <1>8, <1>9, <1>10

\* Counting in fours.
LEMMA FourParts ==
    ASSUME NEW a \in Nat, NEW j \in 0..3
    PROVE  (4 * a + j) \div 4 = a /\ (4 * a + j) % 4 = j
<1> DEFINE n == 4 * a + j
<1>1. n \in Nat /\ 4 * (n \div 4) + (n % 4) = n /\ n % 4 \in 0..3 /\ n \div 4 \in Nat
  OBVIOUS
<1> QED
  BY <1>1

\* The places of n groups of four.
LEMMA FourPlaces ==
    ASSUME NEW n \in Nat, NEW i \in 1..n, NEW j \in 0..3
    PROVE  4 * (i - 1) + j + 1 \in 1..(4 * n) /\ (4 * (i - 1) + j + 1) - 1 = 4 * (i - 1) + j
  OBVIOUS

\* What follows a read: every row is to be sent, and nothing else; behind each session's chunk
\* its three tables are to be read.
LEMMA FollowFacts ==
    ASSUME NEW k \in Keys, NEW rows \in Seq(Row),
           k = <<"session">> => \A r \in ToSet(rows) : r.id \in Sessions
    PROVE  /\ Follow(k, rows) \in Seq(Step)
           /\ \A i \in DOMAIN Follow(k, rows) :
                 \/ \E r \in ToSet(rows) : Follow(k, rows)[i] = Send(k, r)
                 \/ /\ k = <<"session">>
                    /\ \E j \in 1..(i - 1), r \in ToSet(rows), t \in 1..3 :
                          /\ Follow(k, rows)[i] = Read(<<SessionTables[t], r.id>>)
                          /\ Follow(k, rows)[j] = Send(k, r) /\ j \in DOMAIN Follow(k, rows)
           /\ \A r \in ToSet(rows) : \E i \in DOMAIN Follow(k, rows) : Follow(k, rows)[i] = Send(k, r)
           /\ k = <<"session">> => \A r \in ToSet(rows), t \in 1..3 :
                 \E i \in DOMAIN Follow(k, rows) :
                     Follow(k, rows)[i] = Read(<<SessionTables[t], r.id>>)
<1> DEFINE F == Follow(k, rows)
<1>1. DOMAIN rows = 1..Len(rows) /\ Len(rows) \in Nat /\ \A i \in DOMAIN rows : rows[i] \in Row
  OBVIOUS
<1>2. CASE k # <<"session">>
  <2>1. F = [i \in 1..Len(rows) |-> Send(k, rows[i])]
    BY <1>1, <1>2, KeyFacts DEF Follow
  <2>2. \A i \in 1..Len(rows) : F[i] = Send(k, rows[i]) /\ F[i] \in Step /\ rows[i] \in ToSet(rows)
    BY <1>1, <2>1, StepFacts DEF ToSet
  <2>3. F \in Seq(Step) /\ DOMAIN F = 1..Len(rows)
    BY <1>1, <2>1, <2>2
  <2>4. \A r \in ToSet(rows) : \E i \in DOMAIN F : F[i] = Send(k, r)
    BY <1>1, <2>2, <2>3 DEF ToSet
  <2> QED
    BY <1>2, <2>2, <2>3, <2>4
<1>3. CASE k = <<"session">>
  <2> DEFINE row(n) == rows[(n - 1) \div 4 + 1]
  <2> DEFINE part(n) == (n - 1) % 4
  <2>1. F = [n \in 1..(4 * Len(rows)) |->
               IF part(n) = 0 THEN Send(k, row(n)) ELSE Read(<<SessionTables[part(n)], row(n).id>>)]
    BY <1>3 DEF Follow
  <2>2. ASSUME NEW n \in 1..(4 * Len(rows))
        PROVE  /\ (n - 1) \div 4 + 1 \in DOMAIN rows /\ part(n) \in 0..3
               /\ n - 1 = 4 * ((n - 1) \div 4) + part(n)
    BY <1>1
  <2> DEFINE at(i, j) == 4 * (i - 1) + j + 1
  <2>3. ASSUME NEW i \in DOMAIN rows, NEW j \in 0..3
        PROVE  /\ at(i, j) \in 1..(4 * Len(rows))
               /\ part(at(i, j)) = j /\ row(at(i, j)) = rows[i]
    <3>1. i \in 1..Len(rows) /\ Len(rows) \in Nat /\ i - 1 \in Nat
      BY <1>1
    <3>2. at(i, j) \in 1..(4 * Len(rows)) /\ at(i, j) - 1 = 4 * (i - 1) + j
      BY ONLY <3>1, j \in 0..3, FourPlaces
    <3>3. (at(i, j) - 1) \div 4 = i - 1 /\ (at(i, j) - 1) % 4 = j
      BY <3>1, <3>2, FourParts
    <3> QED
      BY <3>1, <3>2, <3>3
  <2> HIDE DEF row, part, at, F
  <2>4. \A n \in 1..(4 * Len(rows)) : row(n) \in ToSet(rows) /\ row(n) \in Row /\ part(n) \in 0..3
    BY <1>1, <2>2 DEF ToSet, row
  <2>5. \A n \in 1..(4 * Len(rows)) :
            /\ part(n) = 0 => F[n] = Send(k, row(n))
            /\ part(n) # 0 => F[n] = Read(<<SessionTables[part(n)], row(n).id>>)
    BY <2>1
  <2>6. DOMAIN F = 1..(4 * Len(rows)) /\ \A n \in 1..(4 * Len(rows)) : n \in DOMAIN F
    BY <2>1
  <2>7. \A n \in 1..(4 * Len(rows)) : F[n] \in Step
    <3> SUFFICES ASSUME NEW n \in 1..(4 * Len(rows)) PROVE F[n] \in Step
      OBVIOUS
    <3>1. CASE part(n) = 0
      <4>1. Send(k, row(n)) \in Step
        BY <2>4, StepFacts
      <4> QED
        BY <2>5, <3>1, <4>1
    <3>2. CASE part(n) # 0
      <4>1. part(n) \in 1..3 /\ row(n).id \in Sessions
        BY <1>3, <2>4, <3>2
      <4>2. <<SessionTables[part(n)], row(n).id>> \in Keys
        BY <4>1, KeyFacts
      <4> QED
        BY <2>5, <3>2, <4>2, StepFacts
    <3> QED
      BY <3>1, <3>2
  <2>8. F \in Seq(Step)
    <3>1. F = [n \in 1..(4 * Len(rows)) |-> F[n]] /\ 4 * Len(rows) \in Nat
      BY <1>1, <2>1
    <3> QED
      BY <2>7, <3>1
  <2>9. ASSUME NEW n \in 1..(4 * Len(rows)), part(n) # 0
        PROVE  \E j \in 1..(n - 1) : j \in DOMAIN F /\ F[j] = Send(k, row(n))
    <3>1. PICK i \in DOMAIN rows : i = (n - 1) \div 4 + 1 /\ rows[i] = row(n)
      BY <2>2 DEF row
    <3>2. n - 1 = 4 * (i - 1) + part(n) /\ part(n) \in 1..3 /\ i \in Nat
      BY <1>1, <2>2, <2>9, <3>1
    <3>3. at(i, 0) \in 1..(n - 1)
      BY <1>1, <3>1, <3>2 DEF at
    <3>4. at(i, 0) \in 1..(4 * Len(rows)) /\ part(at(i, 0)) = 0 /\ row(at(i, 0)) = rows[i]
      BY <2>3
    <3>5. F[at(i, 0)] = Send(k, rows[i]) /\ at(i, 0) \in DOMAIN F
      BY <2>5, <2>6, <3>4
    <3> QED
      BY <3>1, <3>3, <3>5
  <2>10. ASSUME NEW n \in DOMAIN F
         PROVE  \/ \E r \in ToSet(rows) : F[n] = Send(k, r)
                \/ \E j \in 1..(n - 1), r \in ToSet(rows), t \in 1..3 :
                      F[n] = Read(<<SessionTables[t], r.id>>) /\ F[j] = Send(k, r) /\ j \in DOMAIN F
    <3>1. CASE part(n) = 0
      BY <2>4, <2>5, <2>6, <3>1
    <3>2. CASE part(n) # 0
      <4>1. part(n) \in 1..3 /\ row(n) \in ToSet(rows)
        BY <2>4, <2>6, <3>2
      <4>2. F[n] = Read(<<SessionTables[part(n)], row(n).id>>)
        BY <2>5, <2>6, <3>2
      <4> QED
        BY <2>6, <2>9, <3>2, <4>1, <4>2
    <3> QED
      BY <3>1, <3>2
  <2>11. ASSUME NEW r \in ToSet(rows)
         PROVE  /\ \E i \in DOMAIN F : F[i] = Send(k, r)
                /\ \A t \in 1..3 : \E i \in DOMAIN F : F[i] = Read(<<SessionTables[t], r.id>>)
    <3>1. PICK i \in DOMAIN rows : rows[i] = r
      BY DEF ToSet
    <3>2. \A j \in 0..3 : /\ at(i, j) \in DOMAIN F /\ at(i, j) \in 1..(4 * Len(rows))
                          /\ part(at(i, j)) = j /\ row(at(i, j)) = r
      BY <2>3, <2>6, <3>1
    <3>5. at(i, 0) \in 1..(4 * Len(rows)) /\ part(at(i, 0)) = 0 /\ row(at(i, 0)) = r
      BY <3>2
    <3>3. F[at(i, 0)] = Send(k, r) /\ at(i, 0) \in DOMAIN F
      BY <2>5, <2>6, <3>5
    <3>4. \A t \in 1..3 : at(i, t) \in DOMAIN F /\ F[at(i, t)] = Read(<<SessionTables[t], r.id>>)
      BY <2>5, <2>6, <3>2
    <3> QED
      BY <3>3, <3>4
  <2> QED
    BY <1>3, <2>8, <2>10, <2>11 DEF F
<1> QED
  BY <1>2, <1>3

-----------------------------------------------------------------------------
(* The store.                                                              *)

\* A table keeps its rows, in their version or a later one, and its length never falls.
Grown(t, s) == Len(s) <= Len(t) /\ \A r \in ToSet(s) : \E f \in ToSet(t) : IsNewer(f, r)

\* Versions are compared as numbers are.
LEMMA NewerFacts ==
    /\ \A r \in Row : IsNewer(r, r) /\ r.ver \in Nat /\ r.id \in Sessions \cup Nat
    /\ \A r, f, g \in Row : IsNewer(f, r) /\ IsNewer(g, f) => IsNewer(g, r)
<1>1. \A r \in Row : r.ver \in Nat /\ r.id \in Sessions \cup Nat
  BY DEF Row
<1>2. ASSUME NEW r \in Row, NEW f \in Row, NEW g \in Row, IsNewer(f, r), IsNewer(g, f)
      PROVE  IsNewer(g, r)
  <2>1. r.ver \in Nat /\ f.ver \in Nat /\ g.ver \in Nat
    BY <1>1
  <2> QED
    BY <1>2, <2>1 DEF IsNewer
<1>3. \A r \in Row : IsNewer(r, r)
  BY <1>1 DEF IsNewer
<1> QED
  BY <1>1, <1>2, <1>3

\* A table with one more row has all the rows it had.
LEMMA AppendGrows ==
    ASSUME NEW s \in Seq(Row), NEW x \in Row
    PROVE  /\ Append(s, x) \in Seq(Row) /\ Grown(Append(s, x), s)
           /\ \A r \in ToSet(Append(s, x)) : r = x \/ r \in ToSet(s)
<1>1. \A r \in ToSet(s) : r \in Row
  BY DEF ToSet
<1>2. \A r \in ToSet(s) : r \in ToSet(Append(s, x))
  BY Appended DEF ToSet
<1>3. \A r \in ToSet(Append(s, x)) : r = x \/ r \in ToSet(s)
  BY Appended DEF ToSet
<1>4. Len(s) <= Len(Append(s, x)) /\ Append(s, x) \in Seq(Row)
  OBVIOUS
<1> QED
  BY <1>1, <1>2, <1>3, <1>4, NewerFacts DEF Grown

\* A row replaced in place.
LEMMA ReplaceGrows ==
    ASSUME NEW s \in Seq(Row), NEW i \in DOMAIN s, NEW x \in Row, IsNewer(x, s[i])
    PROVE  ReplaceAt(s, i, x) \in Seq(Row) /\ Grown(ReplaceAt(s, i, x), s)
<1> DEFINE t == ReplaceAt(s, i, x)
<1>1. /\ t \in Seq(Row) /\ DOMAIN t = DOMAIN s /\ Len(t) = Len(s) /\ Len(s) \in Nat
      /\ t[i] = x /\ \A j \in DOMAIN s : j # i => t[j] = s[j]
  BY DEF ReplaceAt
<1>2. ASSUME NEW r \in ToSet(s) PROVE \E f \in ToSet(t) : IsNewer(f, r)
  <2>1. PICK j \in DOMAIN s : s[j] = r
    BY DEF ToSet
  <2>2. r \in Row /\ t[j] \in ToSet(t)
    BY <1>1, <2>1 DEF ToSet
  <2> QED
    BY <1>1, <2>1, <2>2, NewerFacts
<1> QED
  BY <1>1, <1>2 DEF Grown

\* A row replaced and moved to the end.
LEMMA MoveGrows ==
    ASSUME NEW s \in Seq(Row), NEW i \in DOMAIN s, NEW x \in Row, IsNewer(x, s[i])
    PROVE  /\ Append(RemoveAt(s, i), x) \in Seq(Row)
           /\ Grown(Append(RemoveAt(s, i), x), s)
<1> DEFINE a == SubSeq(s, 1, i - 1)
<1> DEFINE b == SubSeq(s, i + 1, Len(s))
<1> DEFINE c == a \o b
<1>1. Len(s) \in Nat /\ i \in 1..Len(s) /\ DOMAIN s = 1..Len(s)
  OBVIOUS
<1>2. /\ a \in Seq(Row) /\ Len(a) = i - 1
      /\ \A j \in 1..(i - 1) : j \in DOMAIN a /\ a[j] = s[j]
  BY <1>1
<1>3. /\ b \in Seq(Row) /\ Len(b) = Len(s) - i
      /\ \A j \in 1..(Len(s) - i) : j \in DOMAIN b /\ b[j] = s[i + j]
  BY <1>1
<1> HIDE DEF a, b
<1>4. /\ c \in Seq(Row) /\ Len(c) = Len(s) - 1
      /\ \A j \in DOMAIN a : a[j] \in ToSet(c)
      /\ \A j \in DOMAIN b : b[j] \in ToSet(c)
  <2>1. Len(c) = Len(a) + Len(b) /\ c \in Seq(Row)
    BY <1>2, <1>3, Concatenated
  <2>2. \A j \in DOMAIN a : a[j] \in ToSet(c)
    BY <1>2, <1>3, Concatenated DEF ToSet
  <2>3. \A j \in DOMAIN b : b[j] \in ToSet(c)
    <3>0. a \in Seq(Row) /\ b \in Seq(Row)
      BY <1>2, <1>3
    <3>1. \A j \in DOMAIN b : j + Len(a) \in DOMAIN c /\ c[j + Len(a)] = b[j]
      BY <3>0, Concatenated
    <3> QED
      BY <3>1 DEF ToSet
  <2> QED
    BY <1>1, <1>2, <1>3, <2>1, <2>2, <2>3
<1>5. \A j \in DOMAIN s : j = i \/ s[j] \in ToSet(c)
  <2> SUFFICES ASSUME NEW j \in 1..Len(s), j # i PROVE s[j] \in ToSet(c)
    BY <1>1
  <2>1. CASE j < i
    <3>1. j \in 1..(i - 1)
      BY <1>1, <2>1
    <3>2. j \in DOMAIN a /\ a[j] = s[j]
      BY <1>2, <3>1
    <3> QED
      BY <1>4, <3>2
  <2>2. CASE j > i
    <3>1. j - i \in 1..(Len(s) - i) /\ i + (j - i) = j
      BY <1>1, <2>2
    <3> QED
      BY <1>3, <1>4, <3>1
  <2> QED
    BY <1>1, <2>1, <2>2
<1> HIDE DEF c
<1>6. /\ Append(c, x) \in Seq(Row) /\ Len(Append(c, x)) = Len(s)
      /\ x \in ToSet(Append(c, x)) /\ \A r \in ToSet(c) : r \in ToSet(Append(c, x))
  <2>1. c \in Seq(Row) /\ Len(c) + 1 = Len(s)
    BY <1>1, <1>4
  <2> QED
    BY <2>1, Appended DEF ToSet
<1>7. ASSUME NEW r \in ToSet(s) PROVE \E f \in ToSet(Append(c, x)) : IsNewer(f, r)
  <2>1. PICK j \in DOMAIN s : s[j] = r
    BY DEF ToSet
  <2>2. r \in Row
    BY <2>1
  <2> QED
    BY <1>5, <1>6, <2>1, <2>2, NewerFacts
<1>8. RemoveAt(s, i) = c
  BY DEF RemoveAt, a, b, c
<1> QED
  BY <1>1, <1>6, <1>7, <1>8 DEF Grown

\* What a turn or a job does to the tables while the task runs.
LEMMA StoreMoves ==
    ASSUME TypeOK, StoreInv, NEW k \in Keys, Insert(k) \/ Upsert(k)
    PROVE  /\ store' \in [Keys -> Seq(Row)] /\ \A l \in Keys : Grown(store'[l], store[l])
           /\ \A r \in ToSet(store'[<<"session">>]) : r.id \in Sessions
           /\ task = "running" /\ writes' \in 0..MaxWrites
           /\ UNCHANGED <<mode, plan, task, sequence, channel, client, file, faults, before>>
<1>1. /\ store \in [Keys -> Seq(Row)] /\ store[k] \in Seq(Row)
      /\ \A l \in Keys : store[l] \in Seq(Row)
  BY DEF TypeOK
<1>2. \A s \in Seq(Row) : Grown(s, s)
  <2>1. \A s \in Seq(Row) : \A r \in ToSet(s) : r \in Row
    BY DEF ToSet
  <2>2. \A s \in Seq(Row) : Len(s) \in Nat
    OBVIOUS
  <2> QED
    BY <2>1, <2>2, NewerFacts DEF Grown
<1>3. task = "running" /\ writes' \in 0..MaxWrites
  BY ExportAssumption DEF Insert, Upsert, TypeOK
<1>4. ASSUME NEW t \in Seq(Row), store' = [store EXCEPT ![k] = t], Grown(t, store[k]),
             k = <<"session">> => \A r \in ToSet(t) : r.id \in Sessions
      PROVE  /\ store' \in [Keys -> Seq(Row)] /\ \A l \in Keys : Grown(store'[l], store[l])
             /\ \A r \in ToSet(store'[<<"session">>]) : r.id \in Sessions
  <2>1. store' \in [Keys -> Seq(Row)]
    BY <1>1, <1>4
  <2>2. \A l \in Keys : IF l = k THEN store'[l] = t ELSE store'[l] = store[l]
    BY <1>1, <1>4
  <2>3. \A l \in Keys : Grown(store'[l], store[l])
    BY <1>1, <1>2, <1>4, <2>2
  <2>4. \A r \in ToSet(store'[<<"session">>]) : r.id \in Sessions
    BY <1>4, <2>2, KeyFacts DEF StoreInv
  <2> QED
    BY <2>1, <2>3, <2>4
<1>5. CASE Insert(k)
  <2>1. PICK id \in (IF k[1] = "session" THEN Sessions ELSE {Len(store[k]) + 1}) \ Stored(k) :
            store' = [store EXCEPT ![k] = Append(store[k], [id |-> id, ver |-> 0])]
    BY <1>5 DEF Insert
  <2> DEFINE x == [id |-> id, ver |-> 0]
  <2>2. id \in Sessions \cup Nat /\ (k = <<"session">> => id \in Sessions)
    BY <1>1, KeyFacts
  <2>3. x \in Row /\ x.id = id
    BY <2>2 DEF Row
  <2>4. /\ Append(store[k], x) \in Seq(Row) /\ Grown(Append(store[k], x), store[k])
        /\ \A r \in ToSet(Append(store[k], x)) : r = x \/ r \in ToSet(store[k])
    BY <1>1, <2>3, AppendGrows
  <2>5. k = <<"session">> => \A r \in ToSet(Append(store[k], x)) : r.id \in Sessions
    BY <2>2, <2>3, <2>4 DEF StoreInv
  <2> HIDE DEF x
  <2>6. store' = [store EXCEPT ![k] = Append(store[k], x)]
    BY <2>1 DEF x
  <2> QED
    BY <1>3, <1>4, <1>5, <2>4, <2>5, <2>6 DEF Insert
<1>6. CASE Upsert(k)
  <2>1. PICK i \in DOMAIN store[k] :
          LET r == [store[k][i] EXCEPT !.ver = store[k][i].ver + 1]
          IN  store' = [store EXCEPT ![k] = IF k[1] = "world_fact"
                                            THEN Append(RemoveAt(store[k], i), r)
                                            ELSE ReplaceAt(store[k], i, r)]
    BY <1>6 DEF Upsert
  <2> DEFINE x == [store[k][i] EXCEPT !.ver = store[k][i].ver + 1]
  <2>2. store[k][i] \in Row
    BY <1>1
  <2>3. x \in Row /\ IsNewer(x, store[k][i])
    BY <2>2 DEF Row, IsNewer
  <2>4. store' = [store EXCEPT ![k] = IF k[1] = "world_fact" THEN Append(RemoveAt(store[k], i), x)
                                      ELSE ReplaceAt(store[k], i, x)]
    BY <2>1
  <2> HIDE DEF x
  <2>5. k # <<"session">>
    BY <1>6, KeyFacts DEF Upsert
  <2>6. CASE k[1] = "world_fact"
    <3>1. /\ Append(RemoveAt(store[k], i), x) \in Seq(Row)
          /\ Grown(Append(RemoveAt(store[k], i), x), store[k])
      BY <1>1, <2>3, MoveGrows
    <3>2. store' = [store EXCEPT ![k] = Append(RemoveAt(store[k], i), x)]
      BY <2>4, <2>6
    <3> QED
      BY <1>3, <1>4, <1>6, <2>5, <3>1, <3>2 DEF Upsert
  <2>7. CASE k[1] # "world_fact"
    <3>1. ReplaceAt(store[k], i, x) \in Seq(Row) /\ Grown(ReplaceAt(store[k], i, x), store[k])
      BY <1>1, <2>3, ReplaceGrows
    <3>2. store' = [store EXCEPT ![k] = ReplaceAt(store[k], i, x)]
      BY <2>4, <2>7
    <3> QED
      BY <1>3, <1>4, <1>6, <2>5, <3>1, <3>2 DEF Upsert
  <2> QED
    BY <2>6, <2>7
<1> QED
  BY <1>5, <1>6

-----------------------------------------------------------------------------
(* Types.                                                                  *)

\* The rows a listing finds are sent and the tables they name are read: a plan stays a plan.
LEMMA PlanTypes ==
    ASSUME TypeOK, StoreInv, ReadTable
    PROVE  LET k == Head(plan).key IN
           /\ k \in Keys /\ Head(plan) \in Step /\ Tail(plan) \in Seq(Step) /\ plan \in Seq(Step)
           /\ store[k] \in Seq(Row) /\ Listed(k) \in Seq(Row)
           /\ ToSet(Listed(k)) \subseteq ToSet(store[k])
           /\ \A r \in ToSet(Listed(k)) : r \in Row
           /\ k = <<"session">> => \A r \in ToSet(Listed(k)) : r.id \in Sessions
           /\ Follow(k, Listed(k)) \in Seq(Step)
           /\ plan' = Follow(k, Listed(k)) \o Tail(plan) /\ plan' \in Seq(Step)
<1> DEFINE k == Head(plan).key
<1>1. plan \in Seq(Step) /\ plan # <<>> /\ Head(plan).do = "read"
  BY DEF TypeOK, ReadTable
<1>2. Head(plan) \in Step /\ Tail(plan) \in Seq(Step) /\ k \in Keys
  BY <1>1, StepFacts, HeadAndTail
<1>3. store[k] \in Seq(Row)
  BY <1>2 DEF TypeOK
<1>4. Listed(k) \in Seq(Row) /\ ToSet(Listed(k)) \subseteq ToSet(store[k])
  BY <1>2, <1>3, ListedFacts
<1>5. k = <<"session">> => \A r \in ToSet(Listed(k)) : r.id \in Sessions
  BY <1>4 DEF StoreInv
<1>6. Follow(k, Listed(k)) \in Seq(Step)
  BY <1>2, <1>4, <1>5, FollowFacts
<1>7. plan' = Follow(k, Listed(k)) \o Tail(plan)
  BY DEF ReadTable
<1>8. plan' \in Seq(Step)
  BY <1>2, <1>6, <1>7, Concatenated
<1>9. \A r \in ToSet(Listed(k)) : r \in Row
  BY <1>4 DEF ToSet
<1> QED
  BY <1>1, <1>2, <1>3, <1>4, <1>5, <1>6, <1>7, <1>8, <1>9

\* What has been handed over is items, and the file is the first of them.
LEMMA SentTypes ==
    ASSUME TypeOK, PhaseInv, Receiving
    PROVE  /\ Sent \in Seq(Item) /\ channel \in Seq(Item) /\ DOMAIN Sent = 1..Len(Sent) /\ Len(Sent) \in Nat
           /\ \A i \in DOMAIN Sent : Sent[i] \in Item
           /\ mode = "stream" /\ client = "writing" =>
                 /\ file \in Seq(Item) /\ file \in Seq(Item \ {Error}) /\ Sent = file \o channel
           /\ ~(mode = "stream" /\ client = "writing") => Sent = channel
<1>1. channel \in Seq(Item)
  BY DEF TypeOK
<1>2. client = "writing" => file \in Seq(Item \ {Error})
  BY DEF PhaseInv
<1>3. client = "writing" => file \in Seq(Item)
  BY <1>2
<1>4. Sent \in Seq(Item)
  BY <1>1, <1>3, Concatenated DEF Sent
<1> QED
  BY <1>1, <1>2, <1>3, <1>4 DEF Sent

\* The end of the channel is the end of what has been handed over.
LEMMA LastSent ==
    ASSUME TypeOK, PhaseInv, Receiving, channel # <<>>
    PROVE  Sent # <<>> /\ Last(Sent) = Last(channel) /\ Last(channel) \in Item
<1>1. channel \in Seq(Item) /\ Len(channel) \in Nat /\ Len(channel) # 0
  BY DEF TypeOK
<1>2. Last(channel) \in Item
  BY <1>1 DEF Last
<1>3. CASE mode = "stream" /\ client = "writing"
  BY <1>1, <1>2, <1>3, SentTypes DEF Last
<1>4. CASE ~(mode = "stream" /\ client = "writing")
  BY <1>1, <1>2, <1>4, SentTypes
<1> QED
  BY <1>3, <1>4

\* What a command that breaks off leaves is the old file or the beginning of what was handed over.
LEMMA LeftIsPart ==
    ASSUME TypeOK, PhaseInv, SentInv, Receiving, NEW f \in Left
    PROVE  \/ client = "reading" /\ f = file
           \/ /\ client = "writing" /\ f \in Seq(Item \ {Error})
              /\ Len(f) \in 0..Len(Sent) /\ DOMAIN f = 1..Len(f)
              /\ \A i \in 1..Len(f) : i \in DOMAIN Sent /\ f[i] = Sent[i] /\ f[i] \in Item
                                      /\ f[i].kind # "error"
<1>1. CASE client = "reading"
  BY <1>1 DEF Left
<1>2. CASE client = "writing"
  <2>1. Begun \in Seq(Item \ {Error})
    <3>1. CASE mode = "stream"
      BY <1>2, <3>1 DEF Begun, PhaseInv
    <3>2. CASE mode # "stream"
      <4>1. mode = "snapshot" /\ task = "done" /\ Sent = channel /\ channel \in Seq(Item)
        BY <1>2, <3>2 DEF PhaseInv, TypeOK, Sent
      <4>2. \A i \in DOMAIN channel : channel[i] \in Item /\ channel[i].kind # "error"
        BY <4>1 DEF SentInv
      <4>3. \A i \in DOMAIN channel : channel[i] \in Item \ {Error}
        BY <4>2, ItemFacts
      <4> QED
        BY <3>2, <4>1, <4>3 DEF Begun
    <3> QED
      BY <3>1, <3>2
  <2>2. /\ Len(Begun) \in 0..Len(Sent) /\ DOMAIN Sent = 1..Len(Sent) /\ Len(Sent) \in Nat
        /\ \A i \in 1..Len(Begun) : Sent[i] = Begun[i]
    <3>1. CASE mode = "stream"
      <4>1. /\ file \in Seq(Item) /\ channel \in Seq(Item) /\ Sent = file \o channel
            /\ Begun = file
        BY <1>2, <3>1, SentTypes DEF Begun
      <4> QED
        BY <4>1
    <3>2. CASE mode # "stream"
      <4>1. Begun = Sent /\ Sent \in Seq(Item)
        BY <3>2, SentTypes DEF Begun, Sent
      <4> QED
        BY <4>1
    <3> QED
      BY <3>1, <3>2
  <2>3. PICK n \in 0..Len(Begun) : f = SubSeq(Begun, 1, n)
    BY <1>2 DEF Left
  <2> HIDE DEF Begun
  <2>4. /\ f \in Seq(Item \ {Error}) /\ Len(f) = n /\ DOMAIN f = 1..n
        /\ \A i \in 1..n : f[i] = Begun[i]
    BY <2>1, <2>3
  <2>5. \A i \in 1..n : f[i] \in Item \ {Error}
    BY <2>4
  <2>6. n \in 0..Len(Sent) /\ \A i \in 1..n : i \in 1..Len(Begun) /\ i \in DOMAIN Sent
    BY <2>2, <2>3
  <2> QED
    BY <1>2, <2>2, <2>4, <2>5, <2>6, ItemFacts
<1> QED
  BY <1>1, <1>2 DEF Receiving

\* The beginning of what was handed over is a whole backup only if it is all of it.
LEMMA PartIsWhole ==
    ASSUME TypeOK, PhaseInv, SentInv, Receiving, NEW f \in Seq(Item),
           Len(f) \in 0..Len(Sent), \A i \in 1..Len(f) : f[i] = Sent[i]
    PROVE  /\ f # OldBackup
           /\ f # <<>> /\ Last(f).kind = "done" => f = Sent /\ task = "done" /\ plan = <<>>
           /\ task = "done" => /\ Len(Sent) = sequence /\ Len(Sent) # 0
                               /\ Len(f) = Len(Sent) => f # <<>> /\ Last(f).kind = "done"
<1>1. Sent \in Seq(Item) /\ DOMAIN Sent = 1..Len(Sent) /\ Len(Sent) \in Nat
  BY SentTypes
<1>2. DOMAIN f = 1..Len(f) /\ Len(f) \in Nat /\ (f # <<>> => Len(f) \in 1..Len(Sent))
  OBVIOUS
<1>3. f # <<>> => Last(f) = Sent[Len(f)] /\ Len(f) \in DOMAIN Sent
  BY <1>1, <1>2 DEF Last
<1>4. f # <<>> /\ Last(f).kind = "done" => f = Sent /\ task = "done" /\ plan = <<>>
  <2> SUFFICES ASSUME f # <<>>, Last(f).kind = "done" PROVE f = Sent /\ task = "done" /\ plan = <<>>
    OBVIOUS
  <2>1. Len(f) = Len(Sent) /\ task = "done"
    BY <1>3 DEF SentInv
  <2> QED
    BY <1>1, <1>2, <2>1 DEF PhaseInv
<1>5. ASSUME task = "done"
      PROVE  /\ Len(Sent) = sequence /\ Len(Sent) # 0
             /\ Len(f) = Len(Sent) => f # <<>> /\ Last(f).kind = "done"
  <2>1. Len(Sent) = sequence /\ Sent # <<>> /\ Last(Sent).kind = "done"
    BY <1>5 DEF SentInv
  <2>2. Len(Sent) # 0
    BY <1>1, <2>1
  <2> QED
    BY <1>2, <1>3, <2>1, <2>2 DEF Last
<1> QED
  BY <1>4, <1>5, ItemFacts

\* What is handed over joins the channel of a client that reads, for which there was room.
LEMMA HandTypes ==
    ASSUME TypeOK, NEW x \in Item, Room, Hand(x), UNCHANGED mode
    PROVE  /\ channel' \in Seq(Item) /\ (mode = "stream" => Len(channel') <= Capacity)
           /\ ~Receiving => channel' = channel
           /\ Receiving => channel' = Append(channel, x)
<1>1. channel \in Seq(Item) /\ Len(channel) \in Nat /\ Capacity \in Nat
  BY ExportAssumption DEF TypeOK
<1> QED
  BY <1>1 DEF TypeOK, Hand, Room, Receiving

\* The task that sends a chunk has such a step at the head of its plan, and
\* what it hands over is an item.
LEMMA SendTypes ==
    ASSUME TypeOK, SendChunk
    PROVE  /\ plan \in Seq(Step) /\ plan # <<>> /\ Head(plan) \in Step /\ Tail(plan) \in Seq(Step)
           /\ Head(plan).do = "send" /\ sequence + 1 \in Nat /\ plan' = Tail(plan)
           /\ Chunk(Head(plan), sequence + 1) \in Item /\ Hand(Chunk(Head(plan), sequence + 1))
<1>1. plan \in Seq(Step) /\ plan # <<>> /\ Head(plan).do = "send" /\ sequence \in Nat
  BY DEF TypeOK, SendChunk
<1>2. Head(plan) \in Step /\ Tail(plan) \in Seq(Step)
  BY <1>1, HeadAndTail
<1> QED
  BY <1>1, <1>2, ItemFacts DEF SendChunk, HandNumbered

\* The initial state is of the right types.
LEMMA InitTypes ==
    ASSUME Init PROVE TypeOK /\ StoreInv
<1>1. InitialStore \in [Keys -> Seq(Row)] /\ MaxWrites \in Nat /\ MaxFaults \in Nat
  BY ExportAssumption
<1>2. <<>> \in Seq(Step) /\ <<>> \in Seq(Item) /\ Len(<<>>) = 0 /\ 0 <= Capacity
  BY ExportAssumption
<1>3. \A k \in Keys : \A r \in ToSet(InitialStore[k]) : r \in Row
  BY <1>1 DEF ToSet
<1>4. StoreInv
  BY <1>3, NewerFacts, ExportAssumption DEF Init, StoreInv
<1>5. TypeOK
  BY <1>1, <1>2 DEF Init, TypeOK
<1> QED
  BY <1>4, <1>5

\* Every step keeps the types, and the tables keep what was in them.
LEMMA NextTypes ==
    ASSUME TypeOK, StoreInv, PhaseInv, SentInv, [Next]_vars PROVE TypeOK' /\ StoreInv'
<1> USE DEF Fault
<1>1. /\ store \in [Keys -> Seq(Row)] /\ before \in [Keys -> Seq(Row)] /\ plan \in Seq(Step)
      /\ channel \in Seq(Item) /\ (mode = "stream" => Len(channel) <= Capacity)
      /\ (file = OldBackup \/ file \in Seq(Item \ {Error})) /\ sequence \in Nat
      /\ writes \in 0..MaxWrites /\ faults \in 0..MaxFaults
      /\ MaxFaults \in Nat /\ Capacity \in Nat /\ Len(channel) \in Nat
      /\ mode \in {"stream", "snapshot"} /\ task \in {"idle", "running", "done", "failed"}
      /\ client \in {"idle", "reading", "writing", "reported", "failed", "gone"}
  BY ExportAssumption DEF TypeOK
<1>2. ASSUME UNCHANGED <<store, before>> PROVE StoreInv'
  BY <1>2 DEF StoreInv
<1>3. CASE Begin
  <2>1. \A i \in DOMAIN GameTables : Read(<<GameTables[i]>>) \in Step
    BY KeyFacts, StepFacts
  <2>2. [i \in DOMAIN GameTables |-> Read(<<GameTables[i]>>)] \in Seq(Step)
    BY <2>1 DEF GameTables
  <2>3. [id |-> 0, ver |-> 0] \in Row
    BY DEF Row
  <2>4. Send(<<"game">>, [id |-> 0, ver |-> 0]) \in Step /\ Read(<<"session">>) \in Step
    BY <2>3, KeyFacts, StepFacts
  <2>5. <<Send(<<"game">>, [id |-> 0, ver |-> 0]), Read(<<"session">>)>> \in Seq(Step)
    BY <2>4
  <2>6. plan' \in Seq(Step)
    BY <1>3, <2>2, <2>5, Concatenated DEF Begin
  <2>7. file' = OldBackup \/ file' \in Seq(Item \ {Error})
    BY <1>1, <1>3 DEF Begin
  <2>8. TypeOK'
    BY <1>1, <1>3, <2>6, <2>7 DEF TypeOK, Begin
  <2>9. \A k \in Keys : \A r \in ToSet(store[k]) : r \in Row
    BY <1>1 DEF ToSet
  <2>10. \A k \in Keys : \A r \in ToSet(store[k]) : \E f \in ToSet(store[k]) : IsNewer(f, r)
    BY <2>9, NewerFacts
  <2>11. store = InitialStore
    BY <1>3 DEF Begin, PhaseInv
  <2>12. StoreInv'
    BY <1>3, <2>10, <2>11 DEF Begin, StoreInv
  <2> QED
    BY <2>8, <2>12
<1>4. CASE ReadTable
  <2>1. plan' \in Seq(Step)
    BY <1>4, PlanTypes
  <2> QED
    BY <1>1, <1>2, <1>4, <2>1 DEF TypeOK, ReadTable
<1>5. CASE SendChunk
  <2>1. channel' \in Seq(Item) /\ (mode = "stream" => Len(channel') <= Capacity)
    BY <1>5, SendTypes, HandTypes DEF SendChunk
  <2>2. plan' \in Seq(Step) /\ sequence' \in Nat
    BY <1>5, SendTypes DEF SendChunk, HandNumbered
  <2> QED
    BY <1>1, <1>2, <1>5, <2>1, <2>2 DEF TypeOK, SendChunk
<1>6. CASE SendDone
  <2>1. sequence' \in Nat /\ Done(sequence + 1) \in Item
    BY <1>1, <1>6, ItemFacts DEF SendDone
  <2>2. channel' \in Seq(Item) /\ (mode = "stream" => Len(channel') <= Capacity)
    BY <1>6, <2>1, HandTypes DEF SendDone
  <2> QED
    BY <1>1, <1>2, <1>6, <2>1, <2>2 DEF TypeOK, SendDone
<1>7. CASE ReadFails
  <2>1. channel' \in Seq(Item) /\ (mode = "stream" => Len(channel') <= Capacity)
    BY <1>7, HandTypes, ItemFacts DEF ReadFails, TellError
  <2> QED
    BY <1>1, <1>2, <1>7, <2>1 DEF TypeOK, ReadFails
<1>8. CASE WriteChunk
  <2>1. channel # <<>> /\ Head(channel) # Error /\ mode = "stream" /\ client = "writing"
    BY <1>8 DEF WriteChunk, Deliverable
  <2>2. Head(channel) \in Item \ {Error} /\ Tail(channel) \in Seq(Item)
        /\ Len(Tail(channel)) = Len(channel) - 1
    BY <1>1, <2>1, HeadAndTail
  <2>3. file \in Seq(Item \ {Error})
    BY <2>1 DEF PhaseInv
  <2>4. file' \in Seq(Item \ {Error})
    BY <1>8, <2>2, <2>3, Appended DEF WriteChunk
  <2>5. channel' \in Seq(Item) /\ Len(channel') <= Capacity
    BY <1>1, <1>8, <2>1, <2>2 DEF WriteChunk
  <2> QED
    BY <1>1, <1>2, <1>8, <2>4, <2>5 DEF TypeOK, WriteChunk
<1>9. CASE WriteSnapshot
  <2>1. channel \in Seq(Item \ {Error})
    <3>1. /\ mode = "snapshot" /\ client = "writing" /\ channel # <<>> /\ task = "done"
      BY <1>9 DEF WriteSnapshot, PhaseInv
    <3>2. task # "failed" /\ Sent = channel
      BY <3>1 DEF Sent
    <3>3. \A i \in DOMAIN channel : channel[i] \in Item /\ channel[i].kind # "error"
      BY <1>1, <3>1, <3>2 DEF SentInv, Receiving
    <3>4. \A i \in DOMAIN channel : channel[i] \in Item \ {Error}
      BY <3>3, ItemFacts
    <3> QED
      BY <1>1, <3>4
  <2> QED
    BY <1>1, <1>2, <1>9, <2>1 DEF TypeOK, WriteSnapshot
<1>10. CASE ClientFails
  <2>1. file' = OldBackup \/ file' \in Seq(Item \ {Error})
    BY <1>1, <1>10, LeftIsPart DEF ClientFails
  <2>2. faults' \in 0..MaxFaults
    BY <1>1, <1>10 DEF ClientFails
  <2> QED
    BY <1>1, <1>2, <1>10, <2>1, <2>2 DEF TypeOK, ClientFails
<1>11. CASE Flush
  BY <1>1, <1>2, <1>11 DEF TypeOK, Flush
<1>12. CASE ClientLeaves
  <2>1. file' = OldBackup \/ file' \in Seq(Item \ {Error})
    BY <1>1, <1>12, LeftIsPart DEF ClientLeaves
  <2> QED
    BY <1>1, <1>2, <1>12, <2>1 DEF TypeOK, ClientLeaves
<1>13. CASE Stopped \/ UNCHANGED vars
  BY <1>1, <1>2, <1>13 DEF TypeOK, Stopped, vars
<1>15. CASE Open
  <2>1. <<>> \in Seq(Item \ {Error})
    OBVIOUS
  <2> QED
    BY <1>1, <1>2, <1>15, <2>1 DEF TypeOK, Open
<1>14. ASSUME NEW k \in Keys, Insert(k) \/ Upsert(k) PROVE TypeOK' /\ StoreInv'
  <2>1. /\ store' \in [Keys -> Seq(Row)] /\ \A l \in Keys : Grown(store'[l], store[l])
        /\ \A r \in ToSet(store'[<<"session">>]) : r.id \in Sessions
        /\ writes' \in 0..MaxWrites
        /\ UNCHANGED <<mode, plan, task, sequence, channel, client, file, faults, before>>
    BY <1>14, StoreMoves
  <2>2. TypeOK'
    BY <1>1, <2>1 DEF TypeOK
  <2>3. \A l \in Keys : /\ \A r \in ToSet(before[l]) : r \in Row
                        /\ \A r \in ToSet(store[l]) : r \in Row
                        /\ \A r \in ToSet(store'[l]) : r \in Row
    BY <1>1, <2>1 DEF ToSet
  <2>4. ASSUME NEW l \in Keys, NEW r \in ToSet(before[l])
        PROVE  \E f \in ToSet(store'[l]) : IsNewer(f, r)
    <3>1. PICK f \in ToSet(store[l]) : IsNewer(f, r)
      BY DEF StoreInv
    <3>2. PICK g \in ToSet(store'[l]) : IsNewer(g, f)
      BY <2>1 DEF Grown
    <3> QED
      BY <2>3, <3>1, <3>2, NewerFacts
  <2>5. StoreInv'
    BY <2>1, <2>4 DEF StoreInv
  <2> QED
    BY <2>2, <2>5
<1> QED
  BY <1>3, <1>4, <1>5, <1>6, <1>7, <1>8, <1>9, <1>10, <1>11, <1>12, <1>13, <1>14, <1>15
  DEF Next, TaskStep, ClientStep

-----------------------------------------------------------------------------
(* What has been handed over, and the phases of the command.               *)

\* Writing a chunk takes nothing from what has been handed over, sending one adds it behind.
LEMMA WriteKeepsSent ==
    ASSUME TypeOK, PhaseInv, WriteChunk
    PROVE  /\ client = "writing" /\ mode = "stream" /\ channel # <<>>
           /\ Sent' = Sent /\ Sent \in Seq(Item)
           /\ Head(channel) \in Item /\ Head(channel).kind # "error"
           /\ file' \in Seq(Item) /\ Len(file') = Len(file) + 1 /\ Len(file') \in 0..Len(Sent)
           /\ \A i \in 1..Len(file') : file'[i] = Sent[i]
           /\ DOMAIN file' = 1..Len(file') /\ DOMAIN Sent = 1..Len(Sent) /\ Len(Sent) \in Nat
           /\ Len(file') = Len(Sent) => file' = Sent
           /\ Last(channel) = Error => channel' # <<>> /\ Last(channel') = Error
<1>1. /\ client = "writing" /\ mode = "stream" /\ channel # <<>> /\ channel \in Seq(Item)
      /\ file' = Append(file, Head(channel)) /\ channel' = Tail(channel)
      /\ UNCHANGED <<mode, client>> /\ Head(channel) # Error /\ Receiving
  BY DEF WriteChunk, Deliverable, TypeOK, Receiving
<1>2. file \in Seq(Item) /\ Sent = file \o channel /\ Sent \in Seq(Item)
  BY <1>1, SentTypes
<1>3. Sent' = Sent
  <2>1. Sent' = Append(file, Head(channel)) \o Tail(channel)
    BY <1>1 DEF Sent
  <2> QED
    BY <1>1, <1>2, <2>1, HeadMoves
<1>4. Head(channel) \in Item /\ Head(channel).kind # "error"
  BY <1>1, HeadAndTail, ItemFacts
<1>5. /\ file' \in Seq(Item) /\ Len(file') = Len(file) + 1 /\ Len(file) \in Nat
      /\ DOMAIN file' = 1..Len(file') /\ Len(channel) \in Nat /\ Len(channel) # 0
      /\ Len(Sent) = Len(file) + Len(channel) /\ DOMAIN Sent = 1..Len(Sent)
  BY <1>1, <1>2, <1>4
<1>6. \A i \in 1..Len(file') : file'[i] = Sent[i]
  <2>1. \A i \in 1..Len(file) : file'[i] = file[i] /\ Sent[i] = file[i]
    BY <1>1, <1>2, <1>4
  <2>2. file'[Len(file) + 1] = Head(channel) /\ Sent[Len(file) + 1] = channel[1]
    BY <1>1, <1>2, <1>4, <1>5
  <2>3. Head(channel) = channel[1]
    BY <1>1, HeadAndTail
  <2> QED
    BY <1>5, <2>1, <2>2, <2>3
<1>7. Len(file') = Len(Sent) => file' = Sent
  BY <1>2, <1>5, <1>6
<1>8. Last(channel) = Error => channel' # <<>> /\ Last(channel') = Error
  <2>1. CASE Len(channel) = 1
    BY <1>1, <2>1, HeadAndTail DEF Last
  <2>2. CASE Len(channel) # 1
    <3>1. Tail(channel) # <<>> /\ Last(Tail(channel)) = Last(channel)
      BY <1>1, <2>2, LastOfTail
    <3> QED
      BY <1>1, <3>1
  <2> QED
    BY <2>1, <2>2
<1>9. Len(file') \in 0..Len(Sent) /\ Len(Sent) \in Nat
  BY <1>5
<1> QED
  BY <1>1, <1>2, <1>3, <1>4, <1>5, <1>6, <1>7, <1>8, <1>9

\* What is handed over to a client that reads comes last of all that was
\* sent.
LEMMA HandAddsToSent ==
    ASSUME TypeOK, PhaseInv, Receiving, NEW x \in Item, Hand(x), UNCHANGED <<mode, file, client>>
    PROVE  /\ Sent' = Append(Sent, x) /\ Sent \in Seq(Item)
           /\ channel' # <<>> /\ Last(channel') = x
<1>1. channel' = Append(channel, x) /\ channel \in Seq(Item)
  BY DEF Hand, TypeOK
<1>2. channel' # <<>> /\ Last(channel') = x
  BY <1>1, Appended
<1>3. Sent' = Append(Sent, x)
  <2>1. CASE mode = "stream" /\ client = "writing"
    <3>1. Sent' = file \o Append(channel, x)
      BY <1>1, <2>1 DEF Sent
    <3> QED
      BY <1>1, <2>1, <3>1, SentTypes, AppendedBehind
  <2>2. CASE ~(mode = "stream" /\ client = "writing")
    BY <1>1, <2>2 DEF Sent
  <2> QED
    BY <2>1, <2>2
<1> QED
  BY <1>2, <1>3, SentTypes

\* While the client reads, each step hands something over or leaves what was.
LEMMA SentMoves ==
    ASSUME TypeOK, StoreInv, PhaseInv, [Next]_vars, Receiving'
    PROVE  \/ Begin /\ Sent' = <<>> /\ client = "idle"
           \/ Receiving /\
                \/ /\ Sent' = Sent /\ UNCHANGED <<sequence, task, before>>
                   /\ UNCHANGED plan \/ ReadTable
                   /\ channel # <<>> /\ Last(channel) = Error => channel' # <<>> /\ Last(channel') = Error
                \/ /\ SendChunk /\ Sent' = Append(Sent, Chunk(Head(plan), sequence + 1))
                \/ /\ SendDone /\ Sent' = Append(Sent, Done(sequence + 1))
                \/ /\ ReadFails /\ Sent' = Append(Sent, Error)
                   /\ channel' # <<>> /\ Last(channel') = Error
<1>1. CASE Begin
  <2>1. channel' = <<>> /\ client' = "reading"
    BY <1>1 DEF Begin, PhaseInv, Receiving
  <2>2. Sent' = <<>>
    BY <2>1 DEF Sent
  <2> QED
    BY <1>1, <2>2 DEF Begin
<1>2. CASE ReadTable
  BY <1>2 DEF ReadTable, Sent, Receiving
<1>10. CASE Open
  <2>1. /\ client = "reading" /\ client' = "writing" /\ file' = <<>>
        /\ UNCHANGED <<mode, channel, plan, sequence, task, before>>
    BY <1>10 DEF Open
  <2>2. channel \in Seq(Item)
    BY DEF TypeOK
  <2>3. Sent = channel /\ Sent' = channel
    BY <2>1, <2>2 DEF Sent
  <2> QED
    BY <2>1, <2>3 DEF Receiving
<1>3. CASE SendChunk
  <2>1. Receiving
    BY <1>3 DEF SendChunk, Receiving
  <2> QED
    BY <1>3, <2>1, SendTypes, HandAddsToSent DEF SendChunk
<1>4. CASE SendDone
  <2>1. Done(sequence + 1) \in Item
    BY ItemFacts DEF TypeOK
  <2>2. Receiving
    BY <1>4 DEF SendDone, Receiving
  <2> QED
    BY <1>4, <2>1, <2>2, HandAddsToSent DEF SendDone
<1>5. CASE ReadFails
  <2>1. Receiving
    BY <1>5 DEF ReadFails, Receiving
  <2> QED
    BY <1>5, <2>1, ItemFacts, HandAddsToSent DEF ReadFails, TellError
<1>6. CASE WriteChunk
  <2>1. UNCHANGED <<plan, sequence, task, before>> /\ Receiving
    BY <1>6 DEF WriteChunk, Receiving
  <2> QED
    BY <1>6, <2>1, WriteKeepsSent
<1>7. CASE WriteSnapshot \/ ClientFails \/ Flush \/ ClientLeaves
  BY <1>7 DEF WriteSnapshot, ClientFails, Flush, ClientLeaves, Receiving
<1>8. CASE Stopped \/ UNCHANGED vars
  BY <1>8 DEF Stopped, vars, Sent, Receiving
<1>9. ASSUME NEW k \in Keys, Insert(k) \/ Upsert(k)
      PROVE  Receiving /\ Sent' = Sent /\ UNCHANGED <<plan, sequence, task, before, channel>>
  BY <1>9, StoreMoves DEF Sent, Receiving
<1> QED
  BY <1>1, <1>2, <1>3, <1>4, <1>5, <1>6, <1>7, <1>8, <1>9, <1>10 DEF Next, TaskStep, ClientStep

\* Numbers go on, and nothing comes behind an end.
LEMMA NextSent ==
    ASSUME TypeOK, StoreInv, PhaseInv, SentInv, [Next]_vars PROVE SentInv'
<1> SUFFICES ASSUME Receiving'
             PROVE  /\ \A i \in DOMAIN Sent' :
                          /\ Sent'[i].kind # "error" => Sent'[i].seq = i
                          /\ Sent'[i].kind = "error" => task' = "failed"
                          /\ Sent'[i].kind = "done" => i = Len(Sent') /\ task' = "done"
                    /\ task' \in {"running", "done"} => Len(Sent') = sequence'
                    /\ task' = "done" => Sent' # <<>> /\ Last(Sent').kind = "done"
                    /\ task' = "failed" => channel' # <<>> /\ Last(channel') = Error
  BY DEF SentInv
<1>1. CASE Begin /\ Sent' = <<>> /\ client = "idle"
  BY <1>1 DEF Begin, PhaseInv
<1>2. CASE Receiving /\ Sent' = Sent /\ UNCHANGED <<sequence, task>>
           /\ (channel # <<>> /\ Last(channel) = Error => channel' # <<>> /\ Last(channel') = Error)
  BY <1>2 DEF SentInv
<1>3. ASSUME Receiving, task = "running", NEW x \in Item, Sent' = Append(Sent, x)
      PROVE  /\ \A i \in DOMAIN Sent : /\ Sent'[i].kind # "error" /\ Sent'[i].seq = i
                                       /\ Sent'[i].kind # "done"
             /\ DOMAIN Sent' = 1..(Len(Sent) + 1) /\ DOMAIN Sent = 1..Len(Sent)
             /\ Sent'[Len(Sent) + 1] = x /\ Len(Sent') = Len(Sent) + 1 /\ Len(Sent) = sequence
             /\ Sent' # <<>> /\ Last(Sent') = x /\ Len(Sent) \in Nat
  <2>1. Sent \in Seq(Item)
    BY <1>3, SentTypes
  <2>2. \A i \in DOMAIN Sent : Sent[i].kind # "error" /\ Sent[i].seq = i /\ Sent[i].kind # "done"
    BY <1>3 DEF SentInv
  <2>3. Len(Sent) = sequence
    BY <1>3 DEF SentInv
  <2>4. /\ DOMAIN Sent' = 1..(Len(Sent) + 1) /\ DOMAIN Sent = 1..Len(Sent)
        /\ Sent'[Len(Sent) + 1] = x /\ Len(Sent') = Len(Sent) + 1
        /\ \A i \in DOMAIN Sent : Sent'[i] = Sent[i]
        /\ Sent' # <<>> /\ Last(Sent') = x /\ Len(Sent) \in Nat
    BY <1>3, <2>1, Appended
  <2> QED
    BY <2>2, <2>3, <2>4
<1>4. CASE Receiving /\ SendChunk /\ Sent' = Append(Sent, Chunk(Head(plan), sequence + 1))
  <2> DEFINE x == Chunk(Head(plan), sequence + 1)
  <2>1. x \in Item /\ x.kind = "row" /\ x.seq = sequence + 1
    BY <1>4, SendTypes, ItemFacts
  <2>2. task = "running" /\ task' = "running" /\ sequence' = sequence + 1
    BY <1>4 DEF SendChunk, HandNumbered
  <2>3. Sent' = Append(Sent, x)
    BY <1>4
  <2> HIDE DEF x
  <2> QED
    BY <1>3, <1>4, <2>1, <2>2, <2>3
<1>5. CASE Receiving /\ SendDone /\ Sent' = Append(Sent, Done(sequence + 1))
  <2> DEFINE x == Done(sequence + 1)
  <2>1. x \in Item /\ x.kind = "done" /\ x.seq = sequence + 1
    BY ItemFacts DEF TypeOK
  <2>2. task = "running" /\ task' = "done" /\ sequence' = sequence + 1
    BY <1>5 DEF SendDone
  <2>3. Sent' = Append(Sent, x)
    BY <1>5
  <2> HIDE DEF x
  <2> QED
    BY <1>3, <1>5, <2>1, <2>2, <2>3
<1>6. CASE /\ Receiving /\ ReadFails /\ Sent' = Append(Sent, Error)
           /\ channel' # <<>> /\ Last(channel') = Error
  <2>1. Error \in Item /\ Error.kind = "error"
    BY ItemFacts
  <2>2. task = "running" /\ task' = "failed" /\ sequence' = sequence
    BY <1>6 DEF ReadFails
  <2> QED
    BY <1>3, <1>6, <2>1, <2>2
<1> QED
  BY <1>1, <1>2, <1>4, <1>5, <1>6, SentMoves

\* What ends a command, and which file it may call whole.
LEMMA NextPhase ==
    ASSUME TypeOK, StoreInv, PhaseInv, SentInv, [Next]_vars PROVE PhaseInv'
<1>1. /\ client = "idle" <=> task = "idle"
      /\ client = "idle" => plan = <<>> /\ sequence = 0 /\ store = InitialStore
      /\ client \in {"idle", "reading"} => file = OldBackup
      /\ ~Receiving => channel = <<>>
      /\ client = "writing" => file \in Seq(Item \ {Error})
      /\ mode = "snapshot" /\ client = "writing" => task = "done" /\ channel # <<>>
      /\ mode = "snapshot" /\ file # OldBackup => task = "done"
      /\ task = "done" => plan = <<>>
      /\ Whole => task = "done"
      /\ client = "reported" => Whole
  BY DEF PhaseInv
<1>2. file \in Seq(Item) => file # OldBackup
  BY ItemFacts
<1>3. CASE Begin
  <2>1. file' = OldBackup
    BY <1>1, <1>3 DEF Begin
  <2>2. ~Whole'
    BY <2>1 DEF Whole
  <2> QED
    BY <1>1, <1>3, <2>1, <2>2 DEF Begin, PhaseInv, Receiving
<1>4. CASE ReadTable \/ SendChunk
  BY <1>1, <1>4 DEF ReadTable, SendChunk, HandNumbered, Hand, PhaseInv, Whole, Receiving
<1>5. CASE SendDone \/ ReadFails
  BY <1>1, <1>5 DEF SendDone, ReadFails, TellError, Hand, PhaseInv, Whole, Receiving
<1>12. CASE Open
  <2>1. /\ client = "reading" /\ client' = "writing" /\ file' = <<>>
        /\ UNCHANGED <<mode, store, plan, task, sequence, channel>>
        /\ mode = "snapshot" => channel # <<>> /\ task # "running" /\ Last(channel) # Error
    BY <1>12 DEF Open, Deliverable
  <2>2. mode = "snapshot" => task = "done"
    BY <1>1, <2>1 DEF SentInv, TypeOK, Receiving
  <2>3. file' \in Seq(Item \ {Error}) /\ ~Whole'
    BY <2>1 DEF Whole
  <2> QED
    BY <1>1, <2>1, <2>2, <2>3 DEF PhaseInv, Receiving
<1>6. CASE WriteChunk
  <2>1. /\ UNCHANGED <<mode, plan, task, sequence, client, store>> /\ mode = "stream" /\ client = "writing"
    BY <1>6 DEF WriteChunk
  <2>2. file' \in Seq(Item \ {Error})
    <3>1. Head(channel) \in Item \ {Error} /\ file \in Seq(Item \ {Error})
      BY <1>1, <1>6, <2>1, WriteKeepsSent, ItemFacts
    <3> QED
      BY <1>6, <3>1, Appended DEF WriteChunk
  <2>3. Whole' => task = "done"
    <3>1. /\ Len(file') \in 0..Len(Sent) /\ file' \in Seq(Item) /\ Receiving
          /\ \A i \in 1..Len(file') : file'[i] = Sent[i]
      BY <1>6, <2>1, WriteKeepsSent DEF Receiving
    <3> QED
      BY <3>1, PartIsWhole DEF Whole
  <2>4. client' = "writing" /\ Receiving
    BY <2>1 DEF Receiving
  <2> QED
    BY <1>1, <2>1, <2>2, <2>3, <2>4 DEF PhaseInv, Receiving
<1>7. CASE WriteSnapshot
  <2>1. /\ UNCHANGED <<mode, plan, task, sequence, store>> /\ mode = "snapshot" /\ Receiving
        /\ file' = channel /\ client = "writing" /\ client' = "reported" /\ channel' = <<>>
    BY <1>7 DEF WriteSnapshot, Receiving
  <2>2. task = "done" /\ channel # <<>> /\ Last(Sent).kind = "done"
    BY <1>1, <2>1 DEF SentInv
  <2>3. Last(file').kind = "done" /\ file' # OldBackup
    BY <2>1, <2>2, LastSent, ItemFacts DEF TypeOK
  <2>4. Whole'
    BY <2>1, <2>2, <2>3 DEF Whole
  <2> QED
    BY <1>1, <2>1, <2>2, <2>4 DEF PhaseInv
<1>8. CASE Flush
  <2>1. /\ UNCHANGED <<mode, plan, task, sequence, channel, file, store>> /\ Receiving
        /\ mode = "stream" /\ client = "writing" /\ LoopIsOver /\ client' = "reported"
    BY <1>8 DEF Flush, Receiving
  <2>2. file \in Seq(Item) /\ file # OldBackup
    BY <1>2, <2>1, SentTypes
  <2>3. CASE file # <<>> /\ Last(file).kind = "done"
    <3>1. Whole /\ Whole' /\ task = "done"
      BY <1>1, <2>1, <2>2, <2>3 DEF Whole
    <3>2. channel = <<>>
      <4>1. Sent = file \o channel /\ Sent \in Seq(Item) /\ channel \in Seq(Item)
        BY <2>1, SentTypes
      <4>2. /\ Len(file) \in DOMAIN Sent /\ Sent[Len(file)] = Last(file)
            /\ Len(Sent) = Len(file) + Len(channel)
        BY <2>2, <2>3, <4>1 DEF Last
      <4>3. Len(file) = Len(Sent)
        BY <2>1, <2>3, <4>2 DEF SentInv
      <4> QED
        BY <2>2, <4>1, <4>2, <4>3
    <3> QED
      BY <1>1, <2>1, <3>1, <3>2 DEF PhaseInv
  <2>4. CASE channel = <<>> /\ task \in {"done", "failed"}
    <3>1. task = "done" /\ Sent # <<>> /\ Last(Sent).kind = "done"
      BY <2>1, <2>4 DEF SentInv
    <3>2. Sent = file
      BY <2>1, <2>2, <2>4 DEF Sent
    <3>3. Whole /\ Whole'
      BY <2>1, <2>2, <3>1, <3>2 DEF Whole
    <3> QED
      BY <1>1, <2>1, <2>4, <3>1, <3>3 DEF PhaseInv
  <2> QED
    BY <2>1, <2>3, <2>4 DEF LoopIsOver
<1>9. CASE ClientFails \/ ClientLeaves
  <2>1. /\ Receiving /\ client' \in {"failed", "gone"} /\ channel' = <<>>
        /\ file' = file \/ file' \in Left
        /\ UNCHANGED <<mode, store, plan, task, sequence>>
    BY <1>9 DEF ClientFails, ClientLeaves
  <2>2. Whole' => task = "done"
    <3>1. CASE file' = file
      BY <1>1, <3>1 DEF Whole
    <3>2. CASE client = "writing" /\ file' \in Left
      <4>1. /\ file' \in Seq(Item \ {Error}) /\ Len(file') \in 0..Len(Sent)
            /\ \A i \in 1..Len(file') : file'[i] = Sent[i]
        BY <2>1, <3>2, LeftIsPart
      <4>2. file' \in Seq(Item)
        BY <4>1
      <4> QED
        BY <2>1, <4>1, <4>2, PartIsWhole DEF Whole
    <3> QED
      BY <2>1, <3>1, <3>2, LeftIsPart
  <2>3. mode = "snapshot" /\ file' # OldBackup => task = "done"
    BY <1>1, <2>1, LeftIsPart
  <2> QED
    BY <1>1, <2>1, <2>2, <2>3 DEF PhaseInv, Receiving
<1>10. CASE Stopped \/ UNCHANGED vars
  BY <1>1, <1>10 DEF Stopped, vars, PhaseInv, Whole, Receiving
<1>11. ASSUME NEW k \in Keys, Insert(k) \/ Upsert(k) PROVE PhaseInv'
  <2>1. task = "running" /\ UNCHANGED <<mode, plan, task, sequence, channel, client, file>>
    BY <1>11, StoreMoves
  <2> QED
    BY <1>1, <2>1 DEF PhaseInv, Whole, Receiving
<1> QED
  BY <1>3, <1>4, <1>5, <1>6, <1>7, <1>8, <1>9, <1>10, <1>11, <1>12 DEF Next, TaskStep, ClientStep

-----------------------------------------------------------------------------
(* Which rows are handled and which tables are still to be read.           *)

\* The rows in a file with one more item are its rows and that of the item.
LEMMA RowsOfAppend ==
    ASSUME NEW s \in Seq(Item), NEW x \in Item
    PROVE  RowsOf(Append(s, x)) = RowsOf(s) \cup (IF x.kind = "row" THEN {<<x.key, x.row>>} ELSE {})
<1> DEFINE t == Append(s, x)
<1>1. /\ DOMAIN t = DOMAIN s \cup {Len(s) + 1} /\ \A i \in DOMAIN s : t[i] = s[i]
      /\ t[Len(s) + 1] = x
  BY Appended
<1> HIDE DEF t
<1>2. {j \in DOMAIN t : t[j].kind = "row"}
         = {j \in DOMAIN s : s[j].kind = "row"} \cup (IF x.kind = "row" THEN {Len(s) + 1} ELSE {})
  BY <1>1
<1>3. RowsOf(t) \subseteq RowsOf(s) \cup (IF x.kind = "row" THEN {<<x.key, x.row>>} ELSE {})
  BY <1>1, <1>2 DEF RowsOf
<1>4. RowsOf(s) \cup (IF x.kind = "row" THEN {<<x.key, x.row>>} ELSE {}) \subseteq RowsOf(t)
  BY <1>1, <1>2 DEF RowsOf
<1> QED
  BY <1>3, <1>4 DEF t

\* A plan's sends and reads are its head's and its tail's.
LEMMA PlanParts ==
    ASSUME NEW p \in Seq(Step), p # <<>>
    PROVE  /\ SendsOf(p) = SendsOf(Tail(p)) \cup
                           (IF Head(p).do = "send" THEN {<<Head(p).key, Head(p).row>>} ELSE {})
           /\ ReadsOf(p) = ReadsOf(Tail(p)) \cup (IF Head(p).do = "read" THEN {Head(p).key} ELSE {})
<1> DEFINE t == Tail(p)
<1> DEFINE h == Head(p)
<1>1. /\ 1 \in DOMAIN p /\ p[1] = h
      /\ \A i \in DOMAIN t : i + 1 \in DOMAIN p /\ t[i] = p[i + 1]
      /\ \A i \in DOMAIN p : i # 1 => i - 1 \in DOMAIN t /\ t[i - 1] = p[i]
  BY HeadAndTail
<1> HIDE DEF t, h
<1>2. \A e : e \in SendsOf(t) => e \in SendsOf(p)
  BY <1>1 DEF SendsOf
<1>3. \A e : e \in ReadsOf(t) => e \in ReadsOf(p)
  BY <1>1 DEF ReadsOf
<1>4. /\ h.do = "send" => <<h.key, h.row>> \in SendsOf(p)
      /\ h.do = "read" => h.key \in ReadsOf(p)
  BY <1>1 DEF SendsOf, ReadsOf
<1>5. \A e \in SendsOf(p) : e \in SendsOf(t) \/ (h.do = "send" /\ e = <<h.key, h.row>>)
  <2> SUFFICES ASSUME NEW i \in DOMAIN p, p[i].do = "send"
               PROVE  <<p[i].key, p[i].row>> \in SendsOf(t) \/ (h.do = "send" /\ i = 1)
    BY <1>1 DEF SendsOf
  <2> QED
    BY <1>1 DEF SendsOf
<1>6. \A e \in ReadsOf(p) : e \in ReadsOf(t) \/ (h.do = "read" /\ e = h.key)
  <2> SUFFICES ASSUME NEW i \in DOMAIN p, p[i].do = "read"
               PROVE  p[i].key \in ReadsOf(t) \/ (h.do = "read" /\ i = 1)
    BY <1>1 DEF ReadsOf
  <2> QED
    BY <1>1 DEF ReadsOf
<1>7. SendsOf(p) = SendsOf(t) \cup (IF h.do = "send" THEN {<<h.key, h.row>>} ELSE {})
  BY <1>2, <1>4, <1>5
<1>8. ReadsOf(p) = ReadsOf(t) \cup (IF h.do = "read" THEN {h.key} ELSE {})
  BY <1>3, <1>4, <1>6
<1> QED
  BY <1>7, <1>8 DEF t, h

\* Two plans one after the other send and read what either does.
LEMMA PlansJoin ==
    ASSUME NEW p \in Seq(Step), NEW q \in Seq(Step)
    PROVE  SendsOf(p \o q) = SendsOf(p) \cup SendsOf(q) /\ ReadsOf(p \o q) = ReadsOf(p) \cup ReadsOf(q)
<1> DEFINE t == p \o q
<1>1. /\ \A i \in DOMAIN t : \/ i \in DOMAIN p /\ t[i] = p[i]
                             \/ i - Len(p) \in DOMAIN q /\ t[i] = q[i - Len(p)]
      /\ \A i \in DOMAIN p : i \in DOMAIN t /\ t[i] = p[i]
      /\ \A i \in DOMAIN q : i + Len(p) \in DOMAIN t /\ t[i + Len(p)] = q[i]
  BY Concatenated
<1> HIDE DEF t
<1>2. \A e : e \in SendsOf(p) \/ e \in SendsOf(q) => e \in SendsOf(t)
  BY <1>1 DEF SendsOf
<1>3. \A e : e \in ReadsOf(p) \/ e \in ReadsOf(q) => e \in ReadsOf(t)
  BY <1>1 DEF ReadsOf
<1>4. \A e : e \in SendsOf(t) => e \in SendsOf(p) \/ e \in SendsOf(q)
  BY <1>1 DEF SendsOf
<1>5. \A e : e \in ReadsOf(t) => e \in ReadsOf(p) \/ e \in ReadsOf(q)
  BY <1>1 DEF ReadsOf
<1> QED
  BY <1>2, <1>3, <1>4, <1>5 DEF t

\* A read turns the key into the rows of its listing, and a session's key into those of its tables.
LEMMA ReadHandles ==
    ASSUME TypeOK, StoreInv, ReadTable
    PROVE  LET k == Head(plan).key IN
           /\ SendsOf(plan') = SendsOf(plan) \cup {<<k, r>> : r \in ToSet(Listed(k))}
           /\ \A l \in ReadsOf(plan) : l = k \/ l \in ReadsOf(plan')
           /\ k = <<"session">> => \A r \in ToSet(Listed(k)), t \in 1..3 :
                  <<SessionTables[t], r.id>> \in ReadsOf(plan')
<1> DEFINE k == Head(plan).key
<1> DEFINE rows == Listed(k)
<1> DEFINE F == Follow(k, rows)
<1>1. /\ k \in Keys /\ rows \in Seq(Row) /\ F \in Seq(Step) /\ plan' = F \o Tail(plan)
      /\ k = <<"session">> => \A r \in ToSet(rows) : r.id \in Sessions
      /\ plan \in Seq(Step) /\ plan # <<>> /\ Head(plan).do = "read" /\ Tail(plan) \in Seq(Step)
      /\ \A r \in ToSet(rows) : r \in Row
  BY PlanTypes DEF ReadTable
<1>2. /\ SendsOf(plan) = SendsOf(Tail(plan)) /\ ReadsOf(plan) = ReadsOf(Tail(plan)) \cup {k}
  BY <1>1, PlanParts
<1>3. SendsOf(plan') = SendsOf(F) \cup SendsOf(Tail(plan)) /\ ReadsOf(plan') = ReadsOf(F) \cup ReadsOf(Tail(plan))
  BY <1>1, PlansJoin
<1>4. /\ \A i \in DOMAIN F :
           \/ \E r \in ToSet(rows) : F[i] = Send(k, r)
           \/ \E s \in Sessions, t \in 1..3 : F[i] = Read(<<SessionTables[t], s>>)
      /\ \A r \in ToSet(rows) : \E i \in DOMAIN F : F[i] = Send(k, r)
      /\ k = <<"session">> => \A r \in ToSet(rows), t \in 1..3 :
            \E i \in DOMAIN F : F[i] = Read(<<SessionTables[t], r.id>>)
  <2>1. /\ k \in Keys /\ rows \in Seq(Row)
        /\ k = <<"session">> => \A r \in ToSet(rows) : r.id \in Sessions
    BY <1>1
  <2> HIDE DEF k, rows
  <2>2. /\ \A i \in DOMAIN F :
             \/ \E r \in ToSet(rows) : F[i] = Send(k, r)
             \/ k = <<"session">> /\ \E r \in ToSet(rows), t \in 1..3 :
                                        F[i] = Read(<<SessionTables[t], r.id>>)
        /\ \A r \in ToSet(rows) : \E i \in DOMAIN F : F[i] = Send(k, r)
        /\ k = <<"session">> => \A r \in ToSet(rows), t \in 1..3 :
              \E i \in DOMAIN F : F[i] = Read(<<SessionTables[t], r.id>>)
    BY <2>1, FollowFacts
  <2> HIDE DEF F
  <2> QED
    BY <2>1, <2>2
<1> HIDE DEF F, rows, k
<1>5. SendsOf(F) = {<<k, r>> : r \in ToSet(rows)}
  <2>1. ASSUME NEW r \in ToSet(rows) PROVE <<k, r>> \in SendsOf(F)
    <3>1. PICK i \in DOMAIN F : F[i] = Send(k, r)
      BY <1>4
    <3>2. F[i].do = "send" /\ F[i].key = k /\ F[i].row = r
      BY <3>1 DEF Send
    <3> QED
      BY <3>2 DEF SendsOf
  <2>2. ASSUME NEW i \in DOMAIN F, F[i].do = "send"
        PROVE  \E r \in ToSet(rows) : F[i].key = k /\ F[i].row = r
    <3>1. \A s : Read(s).do = "read"
      BY DEF Read
    <3>2. PICK r \in ToSet(rows) : F[i] = Send(k, r)
      BY <1>4, <2>2, <3>1
    <3> QED
      BY <3>2 DEF Send
  <2>3. SendsOf(F) \subseteq {<<k, r>> : r \in ToSet(rows)}
    BY <2>2 DEF SendsOf
  <2> QED
    BY <2>1, <2>3
<1>6. k = <<"session">> => \A r \in ToSet(rows), t \in 1..3 : <<SessionTables[t], r.id>> \in ReadsOf(F)
  <2> SUFFICES ASSUME k = <<"session">>, NEW r \in ToSet(rows), NEW t \in 1..3
               PROVE  <<SessionTables[t], r.id>> \in ReadsOf(F)
    OBVIOUS
  <2>1. PICK i \in DOMAIN F : F[i] = Read(<<SessionTables[t], r.id>>)
    BY <1>4
  <2>2. F[i].do = "read" /\ F[i].key = <<SessionTables[t], r.id>>
    BY <2>1 DEF Read
  <2> QED
    BY <2>2 DEF ReadsOf
<1> QED
  BY <1>2, <1>3, <1>5, <1>6 DEF k, rows

\* While the client reads, only a read of a table changes what is handled or to be read.
LEMMA HandledMoves ==
    ASSUME TypeOK, StoreInv, PhaseInv, [Next]_vars, Receiving, Receiving'
    PROVE  /\ before' = before
           /\ \/ Handled' = Handled /\ Pending' = Pending
              \/ /\ ReadTable /\ store' = store
                 /\ LET k == Head(plan).key IN
                    /\ Handled' = Handled \cup {<<k, r>> : r \in ToSet(Listed(k))}
                    /\ \A l \in Pending : l = k \/ l \in Pending'
                    /\ k = <<"session">> => \A r \in ToSet(Listed(k)), t \in 1..3 :
                           <<SessionTables[t], r.id>> \in Pending'
<1>1. CASE Sent' = Sent /\ UNCHANGED <<plan, before>>
  BY <1>1 DEF Handled, Pending
<1>2. CASE Sent' = Sent /\ ReadTable
  <2> DEFINE k == Head(plan).key
  <2>1. /\ SendsOf(plan') = SendsOf(plan) \cup {<<k, r>> : r \in ToSet(Listed(k))}
        /\ \A l \in ReadsOf(plan) : l = k \/ l \in ReadsOf(plan')
        /\ k = <<"session">> => \A r \in ToSet(Listed(k)), t \in 1..3 :
               <<SessionTables[t], r.id>> \in ReadsOf(plan')
    BY <1>2, ReadHandles
  <2>2. before' = before /\ store' = store
    BY <1>2 DEF ReadTable
  <2>3. RowsOf(Sent') = RowsOf(Sent)
    BY <1>2
  <2> QED
    BY <1>2, <2>1, <2>2, <2>3 DEF Handled, Pending
<1>3. CASE SendChunk /\ Sent' = Append(Sent, Chunk(Head(plan), sequence + 1))
  <2> DEFINE x == Chunk(Head(plan), sequence + 1)
  <2>1. /\ x \in Item /\ x.kind = "row" /\ x.key = Head(plan).key /\ x.row = Head(plan).row
        /\ plan \in Seq(Step) /\ plan # <<>> /\ plan' = Tail(plan) /\ Head(plan).do = "send"
    BY <1>3, SendTypes, ItemFacts
  <2>2. Sent \in Seq(Item) /\ Sent' = Append(Sent, x)
    BY <1>3, SentTypes
  <2> HIDE DEF x
  <2>3. RowsOf(Sent') = RowsOf(Sent) \cup {<<Head(plan).key, Head(plan).row>>}
    BY <2>1, <2>2, RowsOfAppend
  <2>4. /\ SendsOf(plan) = SendsOf(plan') \cup {<<Head(plan).key, Head(plan).row>>}
        /\ ReadsOf(plan) = ReadsOf(plan')
    BY <2>1, PlanParts
  <2>5. before' = before
    BY <1>3 DEF SendChunk
  <2> QED
    BY <2>3, <2>4, <2>5 DEF Handled, Pending
<1>4. ASSUME NEW x \in Item, x.kind # "row", Sent' = Append(Sent, x), UNCHANGED <<plan, before>>
      PROVE  before' = before /\ Handled' = Handled /\ Pending' = Pending
  <2>1. RowsOf(Sent') = RowsOf(Sent)
    BY <1>4, SentTypes, RowsOfAppend
  <2> QED
    BY <1>4, <2>1 DEF Handled, Pending
<1>5. CASE SendDone /\ Sent' = Append(Sent, Done(sequence + 1))
  <2>1. Done(sequence + 1) \in Item /\ Done(sequence + 1).kind # "row"
    BY ItemFacts DEF TypeOK
  <2> QED
    BY <1>4, <1>5, <2>1 DEF SendDone
<1>6. CASE ReadFails /\ Sent' = Append(Sent, Error)
  <2>1. Error \in Item /\ Error.kind # "row"
    BY ItemFacts
  <2> QED
    BY <1>4, <1>6, <2>1 DEF ReadFails
<1> QED
  BY <1>1, <1>2, <1>3, <1>5, <1>6, SentMoves DEF Begin, Receiving

\* Tables that have grown had no more rows before, so what fits a listing did fit it.
LEMMA FitsBefore ==
    ASSUME TypeOK, TypeOK', \A k \in Keys : Grown(store'[k], store[k]), Fits' PROVE Fits
<1>1. \A k \in Keys : Len(store[k]) \in Nat /\ Len(store'[k]) \in Nat
  BY DEF TypeOK
<1> QED
  BY <1>1, ExportAssumption DEF Fits, Grown

\* The tables only grow, and only the writers change them.
LEMMA NextGrown ==
    ASSUME TypeOK, StoreInv, [Next]_vars
    PROVE  /\ \A k \in Keys : Grown(store'[k], store[k])
           /\ store' # store => task = "running" /\ UNCHANGED <<client, file, task, before>>
<1>1. \A s \in Seq(Row) : Grown(s, s)
  <2>1. \A s \in Seq(Row) : Len(s) \in Nat /\ \A r \in ToSet(s) : r \in Row
    BY DEF ToSet
  <2> QED
    BY <2>1, NewerFacts DEF Grown
<1>2. store' = store => \A k \in Keys : Grown(store'[k], store[k])
  BY <1>1 DEF TypeOK
<1>3. ASSUME NEW k \in Keys, Insert(k) \/ Upsert(k)
      PROVE  /\ \A l \in Keys : Grown(store'[l], store[l])
             /\ task = "running" /\ UNCHANGED <<client, file, task, before>>
  BY <1>3, StoreMoves
<1>4. CASE Begin \/ TaskStep
  BY <1>2, <1>4 DEF Begin, TaskStep, ReadTable, SendChunk, SendDone, ReadFails
<1>5. CASE ClientStep \/ ClientLeaves
  BY <1>2, <1>5 DEF ClientStep, Open, WriteChunk, WriteSnapshot, ClientFails, Flush, ClientLeaves
<1>6. CASE Stopped \/ UNCHANGED vars
  BY <1>2, <1>6 DEF Stopped, vars
<1> QED
  BY <1>3, <1>4, <1>5, <1>6 DEF Next

\* Nothing that was there is left out, as long as the listings are within their limit.
LEMMA NextCover ==
    ASSUME TypeOK, TypeOK', StoreInv, PhaseInv, CoverInv, [Next]_vars PROVE CoverInv'
<1> SUFFICES ASSUME Receiving', Fits', NEW k \in Keys, NEW r \in ToSet(before'[k])
             PROVE  \/ \E f \in Row : <<k, f>> \in Handled' /\ IsNewer(f, r)
                    \/ k \in Pending'
                    \/ Len(k) = 2 /\ <<"session">> \in Pending'
  BY DEF CoverInv
<1>1. CASE Begin
  <2>1. /\ plan' = <<Send(<<"game">>, [id |-> 0, ver |-> 0]), Read(<<"session">>)>>
                    \o [i \in DOMAIN GameTables |-> Read(<<GameTables[i]>>)]
    BY <1>1 DEF Begin
  <2>2. DOMAIN GameTables = 1..3
    BY DEF GameTables
  <2>3. plan'[2] = Read(<<"session">>) /\ 2 \in DOMAIN plan'
    BY <2>1, <2>2
  <2>4. \A i \in DOMAIN GameTables : i + 2 \in DOMAIN plan' /\ plan'[i + 2] = Read(<<GameTables[i]>>)
    BY <2>1, <2>2
  <2>5. \A l : Read(l).do = "read" /\ Read(l).key = l
    BY DEF Read
  <2>6. <<"session">> \in Pending'
    BY <2>3, <2>5 DEF Pending, ReadsOf
  <2>7. \A i \in DOMAIN GameTables : <<GameTables[i]>> \in Pending'
    BY <2>4, <2>5 DEF Pending, ReadsOf
  <2>8. Len(k) \in 1..2 /\ (Len(k) = 1 => \/ k = <<"session">>
                                          \/ \E i \in DOMAIN GameTables : k = <<GameTables[i]>>)
    BY KeyFacts
  <2> QED
    BY <2>6, <2>7, <2>8
<1>2. CASE Receiving
  <2>1. Fits
    BY FitsBefore, NextGrown
  <2>2. before' = before /\ task # "idle"
    BY <1>2, HandledMoves DEF PhaseInv, Receiving
  <2>3. \A l \in Keys : \A q \in ToSet(before[l]) :
            \/ \E f \in Row : <<l, f>> \in Handled /\ IsNewer(f, q)
            \/ l \in Pending
            \/ Len(l) = 2 /\ <<"session">> \in Pending
    BY <1>2, <2>1, <2>2 DEF CoverInv
  <2>4. CASE Handled' = Handled /\ Pending' = Pending
    BY <2>2, <2>3, <2>4
  <2>5. CASE ReadTable
    <3> DEFINE k0 == Head(plan).key
    <3>1. /\ k0 \in Keys /\ store[k0] \in Seq(Row) /\ Len(store[k0]) <= Limit
          /\ \A f \in ToSet(Listed(k0)) : f \in Row
      BY <2>1, <2>5, PlanTypes DEF Fits
    <3>2. ToSet(Listed(k0)) = ToSet(store[k0])
      BY <3>1, ListedFacts
    <3>3. \/ Handled' = Handled /\ Pending' = Pending
          \/ /\ Handled' = Handled \cup {<<k0, f>> : f \in ToSet(Listed(k0))}
             /\ \A l \in Pending : l = k0 \/ l \in Pending'
             /\ k0 = <<"session">> => \A f \in ToSet(Listed(k0)), t \in 1..3 :
                    <<SessionTables[t], f.id>> \in Pending'
      BY <1>2, HandledMoves
    <3>4. \A l \in Keys : \A q \in ToSet(before[l]) : \E f \in ToSet(store[l]) : IsNewer(f, q)
      BY DEF StoreInv
    <3> HIDE DEF k0
    <3>5. ASSUME \A f \in ToSet(Listed(k0)) : <<k0, f>> \in Handled', k = k0
          PROVE  \E f \in Row : <<k, f>> \in Handled' /\ IsNewer(f, r)
      BY <2>2, <3>1, <3>2, <3>4, <3>5
    <3>6. ASSUME k0 = <<"session">>, Len(k) = 2,
                 \A f \in ToSet(Listed(k0)), t \in 1..3 : <<SessionTables[t], f.id>> \in Pending'
          PROVE  k \in Pending'
      <4>1. PICK t \in 1..3 : k = <<SessionTables[t], k[2]>> /\ k[2] \in Sessions
        BY <3>6, KeyFacts
      <4>2. InitialStore[k] # <<>>
        BY <2>2 DEF StoreInv, ToSet
      <4>3. SessionTables[t] \in ToSet(SessionTables)
        BY DEF ToSet, SessionTables
      <4>4. PICK q \in ToSet(InitialStore[<<"session">>]) : q.id = k[2]
        BY <4>1, <4>2, <4>3, ExportAssumption
      <4>5. q \in ToSet(before[<<"session">>]) /\ <<"session">> \in Keys
        BY <4>4, KeyFacts DEF StoreInv
      <4>6. PICK f \in ToSet(store[<<"session">>]) : IsNewer(f, q)
        BY <3>4, <4>5
      <4>7. f.id = k[2] /\ f \in ToSet(Listed(k0))
        BY <3>2, <3>6, <4>4, <4>6 DEF IsNewer
      <4> QED
        BY <3>6, <4>1, <4>7
    <3>7. CASE Handled' = Handled /\ Pending' = Pending
      BY <2>2, <2>3, <3>7
    <3>8. CASE /\ Handled' = Handled \cup {<<k0, f>> : f \in ToSet(Listed(k0))}
               /\ \A l \in Pending : l = k0 \/ l \in Pending'
               /\ k0 = <<"session">> => \A f \in ToSet(Listed(k0)), t \in 1..3 :
                      <<SessionTables[t], f.id>> \in Pending'
      <4>1. \A f \in ToSet(Listed(k0)) : <<k0, f>> \in Handled'
        BY <3>8
      <4>2. CASE \E f \in Row : <<k, f>> \in Handled /\ IsNewer(f, r)
        BY <3>8, <4>2
      <4>3. CASE k \in Pending
        BY <3>5, <3>8, <4>1, <4>3
      <4>4. CASE Len(k) = 2 /\ <<"session">> \in Pending
        BY <3>6, <3>8, <4>4
      <4> QED
        BY <2>2, <2>3, <4>2, <4>3, <4>4
    <3> QED
      BY <3>3, <3>7, <3>8
  <2> QED
    BY <1>2, <2>4, <2>5, HandledMoves
<1> QED
  BY <1>1, <1>2, SentMoves

\* What is handled is or was in the store.
LEMMA NextReal ==
    ASSUME TypeOK, TypeOK', StoreInv, PhaseInv, RealInv, [Next]_vars PROVE RealInv'
<1> SUFFICES ASSUME Receiving', NEW k \in Keys, NEW f \in Row, <<k, f>> \in Handled'
             PROVE  \E r \in ToSet(store'[k]) : IsNewer(r, f)
  BY DEF RealInv
<1>1. \A l \in Keys : /\ \A r \in ToSet(store[l]) : r \in Row
                      /\ \A r \in ToSet(store'[l]) : r \in Row
  <2>1. \A l \in Keys : store[l] \in Seq(Row) /\ store'[l] \in Seq(Row)
    BY DEF TypeOK
  <2> QED
    BY <2>1 DEF ToSet
<1>2. ASSUME NEW r \in ToSet(store[k]), IsNewer(r, f)
      PROVE  \E g \in ToSet(store'[k]) : IsNewer(g, f)
  <2>1. PICK g \in ToSet(store'[k]) : IsNewer(g, r)
    BY NextGrown DEF Grown
  <2> QED
    BY <1>1, <1>2, <2>1, NewerFacts
<1>3. CASE Begin /\ Sent' = <<>>
  <2>1. RowsOf(Sent') = {}
    BY <1>3 DEF RowsOf
  <2>2. plan' = <<Send(<<"game">>, [id |-> 0, ver |-> 0]), Read(<<"session">>)>>
                    \o [i \in DOMAIN GameTables |-> Read(<<GameTables[i]>>)]
    BY <1>3 DEF Begin
  <2>3. DOMAIN GameTables = 1..3
    BY DEF GameTables
  <2>4. /\ DOMAIN plan' = 1..5 /\ plan'[1] = Send(<<"game">>, [id |-> 0, ver |-> 0])
        /\ plan'[2] = Read(<<"session">>) /\ \A i \in 3..5 : plan'[i] = Read(<<GameTables[i - 2]>>)
    BY <2>2, <2>3
  <2>5. \A l : Read(l).do = "read"
    BY DEF Read
  <2>6. \A i \in DOMAIN plan' : plan'[i].do = "send" => plan'[i] = Send(<<"game">>, [id |-> 0, ver |-> 0])
    BY <2>4, <2>5
  <2>7. \A i \in DOMAIN plan' : plan'[i].do = "send" => plan'[i].key = <<"game">>
    BY <2>6 DEF Send
  <2>8. k # <<"game">>
    BY KeyFacts
  <2> QED
    BY <2>1, <2>7, <2>8 DEF Handled, SendsOf
<1>4. CASE Receiving
  <2>1. <<k, f>> \in Handled => \E r \in ToSet(store[k]) : IsNewer(r, f)
    BY <1>4 DEF RealInv
  <2>2. CASE <<k, f>> \in Handled
    BY <1>2, <2>1, <2>2
  <2>3. CASE <<k, f>> \notin Handled
    <3>1. ReadTable /\ k = Head(plan).key /\ f \in ToSet(Listed(k))
      BY <1>4, <2>3, HandledMoves
    <3>2. f \in ToSet(store[k])
      BY <3>1, PlanTypes
    <3> QED
      BY <1>2, <3>2, NewerFacts
  <2> QED
    BY <2>2, <2>3
<1> QED
  BY <1>3, <1>4, SentMoves

-----------------------------------------------------------------------------
(* Sessions first.                                                         *)

\* What comes before a place comes before every later one, also when more is handed over.
LEMMA Introductions ==
    /\ \A s, n, m : n \in Nat /\ m \in Nat /\ n <= m /\ Introduced(s, n) => Introduced(s, m)
    /\ \A x \in Item : Sent \in Seq(Item) /\ Sent' = Append(Sent, x) =>
          /\ \A s : \A n \in 0..Len(Sent) : Introduced(s, n) => Introduced(s, n)'
          /\ \A s, n : n = Len(Sent) + 1 /\ x.kind = "row" /\ x.key = <<"session">> /\ x.row.id = s
                       => Introduced(s, n)'
<1>1. ASSUME NEW s, NEW n \in Nat, NEW m \in Nat, n <= m, Introduced(s, n) PROVE Introduced(s, m)
  <2>1. \A j \in 1..n : j \in 1..m
    BY <1>1
  <2> QED
    BY <1>1, <2>1 DEF Introduced
<1>2. ASSUME NEW x \in Item, Sent \in Seq(Item), Sent' = Append(Sent, x)
      PROVE  /\ \A s : \A n \in 0..Len(Sent) : Introduced(s, n) => Introduced(s, n)'
             /\ \A s, n : n = Len(Sent) + 1 /\ x.kind = "row" /\ x.key = <<"session">> /\ x.row.id = s
                          => Introduced(s, n)'
  <2>1. /\ \A i \in 1..Len(Sent) : Sent'[i] = Sent[i]
        /\ Sent'[Len(Sent) + 1] = x /\ Len(Sent) \in Nat
    BY <1>2, Appended
  <2>2. \A s : \A n \in 0..Len(Sent) : Introduced(s, n) => Introduced(s, n)'
    <3>1. \A n \in 0..Len(Sent) : \A j \in 1..n : j \in 1..Len(Sent)
      BY <2>1
    <3> QED
      BY <2>1, <3>1 DEF Introduced
  <2>3. \A s, n : n = Len(Sent) + 1 /\ x.kind = "row" /\ x.key = <<"session">> /\ x.row.id = s
                  => Introduced(s, n)'
    <3>1. Len(Sent) + 1 \in 1..(Len(Sent) + 1)
      BY <2>1
    <3> QED
      BY <2>1, <3>1 DEF Introduced
  <2> QED
    BY <2>2, <2>3
<1> QED
  BY <1>1, <1>2

\* A row is handed over, or asked for, behind its session.
LEMMA NextOrder ==
    ASSUME TypeOK, TypeOK', StoreInv, PhaseInv, OrderInv, [Next]_vars PROVE OrderInv'
<1> SUFFICES ASSUME Receiving'
             PROVE  /\ \A i \in DOMAIN Sent' :
                          Sent'[i].kind = "row" /\ Len(Sent'[i].key) = 2
                          => Introduced(Sent[i].key[2], i)'
                    /\ \A i \in DOMAIN plan' : Len(plan'[i].key) = 2 =>
                          \/ Introduced(plan[i].key[2], Len(Sent))'
                          \/ ToBeIntroduced(plan[i].key[2], i - 1)'
  BY DEF OrderInv
<1>1. CASE Begin /\ Sent' = <<>>
  <2>1. plan' = <<Send(<<"game">>, [id |-> 0, ver |-> 0]), Read(<<"session">>)>>
                    \o [i \in DOMAIN GameTables |-> Read(<<GameTables[i]>>)]
    BY <1>1 DEF Begin
  <2>2. DOMAIN GameTables = 1..3
    BY DEF GameTables
  <2>3. /\ DOMAIN plan' = 1..5 /\ plan'[1] = Send(<<"game">>, [id |-> 0, ver |-> 0])
        /\ plan'[2] = Read(<<"session">>) /\ \A i \in 3..5 : plan'[i] = Read(<<GameTables[i - 2]>>)
    BY <2>1, <2>2
  <2>4. \A i \in DOMAIN plan' : Len(plan'[i].key) = 1
    BY <2>3, KeyFacts DEF Read, Send
  <2> QED
    BY <1>1, <2>4
<1>2. CASE Receiving
  <2> USE <1>2
  <2>1. /\ Sent \in Seq(Item) /\ DOMAIN Sent = 1..Len(Sent) /\ Len(Sent) \in Nat
    BY SentTypes
  <2>2. /\ \A i \in DOMAIN Sent :
              Sent[i].kind = "row" /\ Len(Sent[i].key) = 2 => Introduced(Sent[i].key[2], i)
        /\ \A i \in DOMAIN plan : Len(plan[i].key) = 2 =>
              Introduced(plan[i].key[2], Len(Sent)) \/ ToBeIntroduced(plan[i].key[2], i - 1)
    BY DEF OrderInv
  <2>3. CASE Sent' = Sent /\ UNCHANGED plan
    BY <2>2, <2>3 DEF Introduced, ToBeIntroduced
  <2>4. CASE Sent' = Sent /\ ReadTable
    <3> DEFINE k == Head(plan).key
    <3> DEFINE F == Follow(k, Listed(k))
    <3>1. /\ k \in Keys /\ Listed(k) \in Seq(Row) /\ F \in Seq(Step) /\ Tail(plan) \in Seq(Step)
          /\ k = <<"session">> => \A r \in ToSet(Listed(k)) : r.id \in Sessions
          /\ plan' = F \o Tail(plan) /\ plan \in Seq(Step) /\ plan # <<>> /\ Head(plan).do = "read"
          /\ plan' \in Seq(Step)
      BY <2>4, PlanTypes DEF ReadTable
    <3> HIDE DEF F, k
    <3>2. /\ \A i \in DOMAIN plan' : \/ i \in DOMAIN F /\ plan'[i] = F[i]
                                     \/ i - Len(F) \in DOMAIN Tail(plan) /\ plan'[i] = Tail(plan)[i - Len(F)]
          /\ \A i \in DOMAIN F : plan'[i] = F[i]
          /\ \A i \in DOMAIN Tail(plan) : plan'[i + Len(F)] = Tail(plan)[i]
      <4> DEFINE G == F \o Tail(plan)
      <4>1. F \in Seq(Step) /\ Tail(plan) \in Seq(Step)
        BY <3>1
      <4>2. /\ \A i \in DOMAIN G : \/ i \in DOMAIN F /\ G[i] = F[i]
                                   \/ i - Len(F) \in DOMAIN Tail(plan) /\ G[i] = Tail(plan)[i - Len(F)]
            /\ \A i \in DOMAIN F : G[i] = F[i]
            /\ \A i \in DOMAIN Tail(plan) : G[i + Len(F)] = Tail(plan)[i]
        BY <4>1, Concatenated
      <4>3. plan' = G
        BY <3>1
      <4> QED
        BY <4>2, <4>3
    <3>3. /\ \A i \in DOMAIN Tail(plan) : i + 1 \in DOMAIN plan /\ Tail(plan)[i] = plan[i + 1]
          /\ plan[1] = Head(plan) /\ 1 \in DOMAIN plan
          /\ \A i \in DOMAIN plan : i # 1 => i - 1 \in DOMAIN Tail(plan) /\ Tail(plan)[i - 1] = plan[i]
          /\ DOMAIN plan = 1..Len(plan) /\ Len(plan) \in Nat
      BY <3>1, HeadAndTail
    <3>4. /\ \A i \in DOMAIN F :
               \/ \E r \in ToSet(Listed(k)) : F[i] = Send(k, r)
               \/ /\ k = <<"session">>
                  /\ \E j \in 1..(i - 1), r \in ToSet(Listed(k)), t \in 1..3 :
                        F[i] = Read(<<SessionTables[t], r.id>>) /\ F[j] = Send(k, r) /\ j \in DOMAIN F
      <4> DEFINE rows == Listed(k)
      <4>1. /\ k \in Keys /\ rows \in Seq(Row) /\ F = Follow(k, rows)
            /\ k = <<"session">> => \A r \in ToSet(rows) : r.id \in Sessions
        BY <3>1 DEF F
      <4> HIDE DEF rows
      <4>2. \A i \in DOMAIN Follow(k, rows) :
               \/ \E r \in ToSet(rows) : Follow(k, rows)[i] = Send(k, r)
               \/ /\ k = <<"session">>
                  /\ \E j \in 1..(i - 1), r \in ToSet(rows), t \in 1..3 :
                        /\ Follow(k, rows)[i] = Read(<<SessionTables[t], r.id>>)
                        /\ Follow(k, rows)[j] = Send(k, r) /\ j \in DOMAIN Follow(k, rows)
        BY <4>1, FollowFacts
      <4> QED
        BY <4>1, <4>2 DEF rows
    <3>5. Len(F) \in Nat /\ DOMAIN F = 1..Len(F)
      BY <3>1
    <3>6. Len(k) = 2 => Introduced(k[2], Len(Sent))
      <4>1. \A s : ~ToBeIntroduced(s, 0)
        BY DEF ToBeIntroduced
      <4> QED
        BY <2>2, <3>3, <4>1 DEF k
    <3>7. \A s : Introduced(s, Len(Sent)) => Introduced(s, Len(Sent))'
      BY <2>4 DEF Introduced
    <3>8. ASSUME NEW i \in DOMAIN F, Len(F[i].key) = 2
          PROVE  Introduced(F[i].key[2], Len(Sent)) \/ \E j \in 1..(i - 1) :
                    /\ j \in DOMAIN F /\ F[j].do = "send" /\ F[j].key = <<"session">>
                    /\ F[j].row.id = F[i].key[2]
      <4>1. CASE \E r \in ToSet(Listed(k)) : F[i] = Send(k, r)
        BY <3>6, <3>8, <4>1 DEF Send
      <4>2. CASE /\ k = <<"session">>
                 /\ \E j \in 1..(i - 1), r \in ToSet(Listed(k)), t \in 1..3 :
                        F[i] = Read(<<SessionTables[t], r.id>>) /\ F[j] = Send(k, r) /\ j \in DOMAIN F
        <5>1. PICK j \in 1..(i - 1), r \in ToSet(Listed(k)), t \in 1..3 :
                  F[i] = Read(<<SessionTables[t], r.id>>) /\ F[j] = Send(k, r) /\ j \in DOMAIN F
          BY <4>2
        <5>2. F[i].key[2] = r.id
          BY <5>1 DEF Read
        <5>3. F[j].do = "send" /\ F[j].key = <<"session">> /\ F[j].row = r
          BY <4>2, <5>1 DEF Send
        <5> QED
          BY <5>1, <5>2, <5>3
      <4> QED
        BY <3>4, <4>1, <4>2
    <3>9. ASSUME NEW i \in DOMAIN plan', Len(plan'[i].key) = 2
          PROVE  \/ Introduced(plan'[i].key[2], Len(Sent))
                 \/ \E j \in 1..(i - 1) : /\ plan'[j].do = "send" /\ plan'[j].key = <<"session">>
                                          /\ plan'[j].row.id = plan'[i].key[2]
      <4>1. CASE i \in DOMAIN F /\ plan'[i] = F[i]
        <5>1. \/ Introduced(F[i].key[2], Len(Sent))
              \/ \E j \in 1..(i - 1) : /\ j \in DOMAIN F /\ F[j].do = "send" /\ F[j].key = <<"session">>
                                       /\ F[j].row.id = F[i].key[2]
          BY <3>8, <3>9, <4>1
        <5>2. \A j \in DOMAIN F : plan'[j] = F[j]
          BY <3>2
        <5> QED
          BY <4>1, <5>1, <5>2
      <4>2. CASE i - Len(F) \in DOMAIN Tail(plan) /\ plan'[i] = Tail(plan)[i - Len(F)]
        <5> DEFINE m == i - Len(F) + 1
        <5>0. i \in Nat /\ Len(F) \in Nat
          BY <3>1, <3>5
        <5>1. m \in DOMAIN plan /\ plan'[i] = plan[m] /\ m \in Nat /\ i = m - 1 + Len(F)
          <6>1. (i - Len(F)) + 1 \in DOMAIN plan /\ Tail(plan)[i - Len(F)] = plan[(i - Len(F)) + 1]
            BY <3>3, <4>2
          <6>2. (i - Len(F)) + 1 \in 1..Len(plan) /\ Len(plan) \in Nat
            BY <3>3, <6>1
          <6> QED
            BY <4>2, <5>0, <6>1, <6>2
        <5>2. Introduced(plan[m].key[2], Len(Sent)) \/ ToBeIntroduced(plan[m].key[2], m - 1)
          BY <2>2, <3>9, <5>1
        <5>3. CASE ToBeIntroduced(plan[m].key[2], m - 1)
          <6>1. PICK j \in 1..(m - 1) : /\ plan[j].do = "send" /\ plan[j].key = <<"session">>
                                        /\ plan[j].row.id = plan[m].key[2]
            BY <5>3 DEF ToBeIntroduced
          <6>2. j # 1 /\ j \in DOMAIN plan
            BY <3>1, <3>3, <5>1, <6>1
          <6>3. j - 1 \in DOMAIN Tail(plan) /\ Tail(plan)[j - 1] = plan[j]
            BY <3>3, <6>2
          <6>4. plan'[j - 1 + Len(F)] = plan[j]
            BY <3>2, <6>3
          <6>5. j - 1 + Len(F) \in 1..(i - 1)
            BY <3>5, <5>1, <6>1, <6>2
          <6> QED
            BY <5>1, <6>1, <6>4, <6>5
        <5> QED
          BY <5>1, <5>2, <5>3
      <4> QED
        BY <3>2, <4>1, <4>2
    <3>10. \A i \in DOMAIN Sent' : Sent'[i].kind = "row" /\ Len(Sent'[i].key) = 2
                                   => Introduced(Sent[i].key[2], i)'
      BY <2>2, <2>4 DEF Introduced
    <3>11. Len(Sent') = Len(Sent) /\ Sent' = Sent
      BY <2>4
    <3> QED
      BY <3>9, <3>10, <3>11 DEF Introduced, ToBeIntroduced
  <2>5. ASSUME NEW x \in Item, Sent' = Append(Sent, x),
               x.kind = "row" /\ Len(x.key) = 2 => Introduced(x.key[2], Len(Sent))
        PROVE  \A i \in DOMAIN Sent' : Sent'[i].kind = "row" /\ Len(Sent'[i].key) = 2
                                       => Introduced(Sent[i].key[2], i)'
    <3>1. /\ DOMAIN Sent' = 1..(Len(Sent) + 1) /\ \A i \in DOMAIN Sent : Sent'[i] = Sent[i]
          /\ Sent'[Len(Sent) + 1] = x
      BY <2>1, <2>5, Appended
    <3>2. \A s, n : n \in 0..Len(Sent) /\ Introduced(s, n) => Introduced(s, n)'
      BY <2>1, <2>5, Introductions
    <3>3. ASSUME NEW i \in DOMAIN Sent', Sent'[i].kind = "row", Len(Sent'[i].key) = 2,
                 NEW s, s = Sent'[i].key[2]
          PROVE  Introduced(s, i)'
      <4>1. CASE i \in DOMAIN Sent
        BY <2>1, <2>2, <3>1, <3>2, <3>3, <4>1
      <4>2. CASE i = Len(Sent) + 1
        <5>1. Introduced(s, Len(Sent)) /\ Len(Sent) \in 0..Len(Sent)
          BY <2>1, <2>5, <3>1, <3>3, <4>2
        <5>2. ASSUME NEW n, n = Len(Sent) PROVE Introduced(s, n)'
          BY <3>2, <5>1, <5>2
        <5>3. \A j \in 1..Len(Sent) : j \in 1..i
          BY <2>1, <4>2
        <5> QED
          BY <5>2, <5>3 DEF Introduced
      <4> QED
        BY <2>1, <3>1, <4>1, <4>2
    <3> QED
      BY <3>3 DEF Introduced
  <2>6. CASE SendChunk /\ Sent' = Append(Sent, Chunk(Head(plan), sequence + 1))
    <3> DEFINE x == Chunk(Head(plan), sequence + 1)
    <3>1. /\ x \in Item /\ x.kind = "row" /\ x.key = Head(plan).key /\ x.row = Head(plan).row
          /\ plan \in Seq(Step) /\ plan # <<>> /\ plan' = Tail(plan)
      BY <2>6, SendTypes, ItemFacts
    <3>2. Sent' = Append(Sent, x)
      BY <2>6
    <3> HIDE DEF x
    <3>3. /\ \A i \in DOMAIN Tail(plan) : i + 1 \in DOMAIN plan /\ Tail(plan)[i] = plan[i + 1]
          /\ plan[1] = Head(plan) /\ 1 \in DOMAIN plan
          /\ \A i \in DOMAIN plan : i # 1 => i - 1 \in DOMAIN Tail(plan) /\ Tail(plan)[i - 1] = plan[i]
          /\ DOMAIN plan = 1..Len(plan) /\ Len(plan) \in Nat
      BY <3>1, HeadAndTail
    <3>4. Len(x.key) = 2 => Introduced(x.key[2], Len(Sent))
      <4>1. \A s : ~ToBeIntroduced(s, 0)
        BY DEF ToBeIntroduced
      <4> QED
        BY <2>2, <3>1, <3>3, <4>1
    <3>5. /\ Len(Sent') = Len(Sent) + 1 /\ Sent'[Len(Sent) + 1] = x
          /\ \A i \in DOMAIN Sent : Sent'[i] = Sent[i]
      BY <2>1, <3>1, <3>2, Appended
    <3>6. ASSUME NEW i \in DOMAIN plan', Len(plan'[i].key) = 2
          PROVE  \/ \E j \in 1..(Len(Sent) + 1) : /\ Sent'[j].kind = "row" /\ Sent'[j].key = <<"session">>
                                                  /\ Sent'[j].row.id = plan'[i].key[2]
                 \/ \E j \in 1..(i - 1) : /\ plan'[j].do = "send" /\ plan'[j].key = <<"session">>
                                          /\ plan'[j].row.id = plan'[i].key[2]
      <4>1. i + 1 \in DOMAIN plan /\ plan'[i] = plan[i + 1] /\ i \in Nat
        BY <3>1, <3>3
      <4>2. Introduced(plan[i + 1].key[2], Len(Sent)) \/ ToBeIntroduced(plan[i + 1].key[2], i)
        BY <2>2, <3>6, <4>1
      <4>3. CASE Introduced(plan[i + 1].key[2], Len(Sent))
        BY <2>1, <3>5, <4>1, <4>3 DEF Introduced
      <4>4. CASE ToBeIntroduced(plan[i + 1].key[2], i)
        <5>1. PICK j \in 1..i : /\ plan[j].do = "send" /\ plan[j].key = <<"session">>
                                /\ plan[j].row.id = plan[i + 1].key[2]
          BY <4>4 DEF ToBeIntroduced
        <5>2. CASE j = 1
          <6>1. Len(Sent) + 1 \in 1..(Len(Sent) + 1)
            BY <2>1
          <6>2. x.key = plan[1].key /\ x.row = plan[1].row
            BY <3>1, <3>3
          <6> QED
            BY <3>1, <3>5, <4>1, <5>1, <5>2, <6>1, <6>2
        <5>3. CASE j # 1
          <6>1. j \in DOMAIN plan
            BY <3>3, <4>1
          <6>2. j - 1 \in 1..(i - 1) /\ plan'[j - 1] = plan[j]
            BY <3>1, <3>3, <4>1, <5>3, <6>1
          <6> QED
            BY <4>1, <5>1, <6>2
        <5> QED
          BY <5>2, <5>3
      <4> QED
        BY <4>2, <4>3, <4>4
    <3>7. \A i \in DOMAIN Sent' : Sent'[i].kind = "row" /\ Len(Sent'[i].key) = 2
                                  => Introduced(Sent[i].key[2], i)'
      BY <2>5, <3>1, <3>2, <3>4
    <3> QED
      BY <3>5, <3>6, <3>7 DEF Introduced, ToBeIntroduced
  <2>7. ASSUME NEW x \in Item, Sent' = Append(Sent, x), x.kind # "row", UNCHANGED plan
        PROVE  /\ \A i \in DOMAIN Sent' :
                          Sent'[i].kind = "row" /\ Len(Sent'[i].key) = 2
                          => Introduced(Sent[i].key[2], i)'
               /\ \A i \in DOMAIN plan' : Len(plan'[i].key) = 2 =>
                          \/ Introduced(plan[i].key[2], Len(Sent))'
                          \/ ToBeIntroduced(plan[i].key[2], i - 1)'
    <3>1. /\ Len(Sent') = Len(Sent) + 1 /\ \A i \in DOMAIN Sent : Sent'[i] = Sent[i]
      BY <2>1, <2>7, Appended
    <3>2. \A s : Introduced(s, Len(Sent)) =>
              \E j \in 1..Len(Sent') : /\ Sent'[j].kind = "row" /\ Sent'[j].key = <<"session">>
                                       /\ Sent'[j].row.id = s
      <4>1. \A j \in 1..Len(Sent) : j \in 1..Len(Sent') /\ Sent'[j] = Sent[j]
        BY <2>1, <3>1
      <4> QED
        BY <4>1 DEF Introduced
    <3> QED
      BY <2>2, <2>5, <2>7, <3>2 DEF Introduced, ToBeIntroduced
  <2>8. CASE SendDone /\ Sent' = Append(Sent, Done(sequence + 1))
    <3>1. Done(sequence + 1) \in Item /\ Done(sequence + 1).kind # "row"
      BY ItemFacts DEF TypeOK
    <3> QED
      BY <2>7, <2>8, <3>1 DEF SendDone
  <2>9. CASE ReadFails /\ Sent' = Append(Sent, Error)
    <3>1. Error \in Item /\ Error.kind # "row"
      BY ItemFacts
    <3> QED
      BY <2>7, <2>9, <3>1 DEF ReadFails
  <2> QED
    BY <2>3, <2>4, <2>6, <2>8, <2>9, SentMoves DEF Begin, PhaseInv, Receiving
<1> QED
  BY <1>1, <1>2, SentMoves

-----------------------------------------------------------------------------
(* The file.                                                               *)

\* What is written to the file is the beginning of what has been handed over.
LEMMA FileMoves ==
    ASSUME TypeOK, StoreInv, PhaseInv, SentInv, [Next]_vars
    PROVE  \/ file' = file
           \/ Open /\ file' = <<>>
           \/ /\ Receiving /\ client = "writing" /\ file' \in Seq(Item)
              /\ UNCHANGED <<store, before, mode, task, sequence>>
              /\ DOMAIN file' = 1..Len(file') /\ Len(file') \in 0..Len(Sent)
              /\ \A i \in 1..Len(file') : /\ i \in DOMAIN Sent /\ file'[i] = Sent[i]
                                          /\ file'[i] \in Item /\ file'[i].kind # "error"
<1>1. CASE WriteChunk
  <2>1. /\ file' \in Seq(Item) /\ Len(file') \in 0..Len(Sent) /\ DOMAIN Sent = 1..Len(Sent)
        /\ Len(Sent) \in Nat /\ client = "writing" /\ mode = "stream"
        /\ \A i \in 1..Len(file') : file'[i] = Sent[i]
    BY <1>1, WriteKeepsSent
  <2>2. Head(channel) \in Item \ {Error} /\ file \in Seq(Item \ {Error})
    BY <1>1, WriteKeepsSent, ItemFacts DEF PhaseInv
  <2>3. file' \in Seq(Item \ {Error})
    BY <1>1, <2>2, Appended DEF WriteChunk
  <2>4. DOMAIN file' = 1..Len(file') /\ \A i \in 1..Len(file') : file'[i] \in Item \ {Error}
    BY <2>3
  <2>5. \A i \in 1..Len(file') : i \in DOMAIN Sent
    BY <2>1
  <2>6. UNCHANGED <<store, before, mode, task, sequence>>
    BY <1>1 DEF WriteChunk
  <2> QED
    BY <2>1, <2>4, <2>5, <2>6, ItemFacts DEF Receiving
<1>2. CASE WriteSnapshot
  <2>1. /\ mode = "snapshot" /\ client = "writing" /\ file' = channel
        /\ UNCHANGED <<store, before, mode, task, sequence>>
    BY <1>2 DEF WriteSnapshot
  <2>2. Sent = channel /\ Sent \in Seq(Item) /\ DOMAIN Sent = 1..Len(Sent) /\ Len(Sent) \in Nat
    BY <2>1, SentTypes DEF Receiving
  <2>3. \A i \in DOMAIN Sent : Sent[i] \in Item /\ Sent[i].kind # "error"
    BY <2>1, <2>2 DEF SentInv, PhaseInv, Receiving
  <2> QED
    BY <2>1, <2>2, <2>3 DEF Receiving
<1>3. CASE ClientFails \/ ClientLeaves
  <2>1. /\ Receiving /\ UNCHANGED <<store, before, mode, task, sequence>>
        /\ file' = file \/ file' \in Left
    BY <1>3 DEF ClientFails, ClientLeaves
  <2>2. CASE file' \in Left
    <3>1. \/ file' = file
          \/ /\ client = "writing" /\ file' \in Seq(Item \ {Error})
             /\ Len(file') \in 0..Len(Sent) /\ DOMAIN file' = 1..Len(file')
             /\ \A i \in 1..Len(file') : i \in DOMAIN Sent /\ file'[i] = Sent[i] /\ file'[i] \in Item
                                         /\ file'[i].kind # "error"
      BY <2>1, <2>2, LeftIsPart
    <3>2. file' \in Seq(Item \ {Error}) => file' \in Seq(Item)
      OBVIOUS
    <3> QED
      BY <2>1, <3>1, <3>2
  <2> QED
    BY <2>1, <2>2
<1>4. CASE TaskStep \/ Flush \/ Begin
  BY <1>4 DEF TaskStep, ReadTable, SendChunk, SendDone, ReadFails, Flush, Begin
<1>5. CASE Stopped \/ UNCHANGED vars
  BY <1>5 DEF Stopped, vars
<1>6. ASSUME NEW k \in Keys, Insert(k) \/ Upsert(k) PROVE file' = file
  BY <1>6, StoreMoves
<1>7. CASE Open
  BY <1>7 DEF Open
<1> QED
  BY <1>1, <1>2, <1>3, <1>4, <1>5, <1>6, <1>7 DEF Next, ClientStep

\* A snapshot's file is emptied for a whole reply only, and is then the beginning of it.
LEMMA NextKeepsOld ==
    ASSUME TypeOK, StoreInv, PhaseInv, SentInv, SnapshotKeepsOld, [Next]_vars
    PROVE  SnapshotKeepsOld'
<1> SUFFICES ASSUME mode' = "snapshot", file' # OldBackup
             PROVE  /\ task' = "done" /\ Len(file') <= sequence'
                    /\ Len(file') = sequence' <=> Whole'
  BY DEF SnapshotKeepsOld
<1>1. mode' = mode /\ (task = "done" => UNCHANGED <<task, sequence>>)
  <2>1. CASE Begin \/ TaskStep
    BY <2>1 DEF Begin, TaskStep, ReadTable, SendChunk, SendDone, ReadFails
  <2>2. CASE ClientStep \/ ClientLeaves
    BY <2>2 DEF ClientStep, Open, WriteChunk, WriteSnapshot, ClientFails, Flush, ClientLeaves
  <2>3. CASE Stopped \/ UNCHANGED vars
    BY <2>3 DEF Stopped, vars
  <2>4. ASSUME NEW k \in Keys, Insert(k) \/ Upsert(k) PROVE UNCHANGED <<mode, task, sequence>>
    BY <2>4, StoreMoves
  <2> QED
    BY <2>1, <2>2, <2>3, <2>4 DEF Next
<1>2. CASE file' = file
  BY <1>1, <1>2 DEF SnapshotKeepsOld, Whole
<1>3. CASE Open /\ file' = <<>>
  <2>1. Receiving /\ task = "done" /\ client = "reading"
    <3>1. client = "reading" /\ channel # <<>> /\ task # "running" /\ Last(channel) # Error
      BY <1>1, <1>3 DEF Open, Deliverable
    <3> QED
      BY <3>1 DEF SentInv, PhaseInv, TypeOK, Receiving
  <2>2. <<>> \in Seq(Item) /\ Len(<<>>) = 0
    OBVIOUS
  <2>3. Sent \in Seq(Item) /\ Len(Sent) \in Nat
    BY <2>1, SentTypes
  <2>4. Len(Sent) = sequence /\ Len(Sent) # 0
    <3>1. Len(<<>>) \in 0..Len(Sent) /\ \A i \in 1..Len(<<>>) : <<>>[i] = Sent[i]
      BY <2>2, <2>3
    <3> QED
      BY <2>1, <2>2, <3>1, PartIsWhole
  <2> QED
    BY <1>1, <1>3, <2>1, <2>2, <2>3, <2>4 DEF Whole
<1>4. CASE /\ Receiving /\ client = "writing" /\ file' \in Seq(Item)
           /\ UNCHANGED <<mode, task, sequence>> /\ Len(file') \in 0..Len(Sent)
           /\ \A i \in 1..Len(file') : file'[i] = Sent[i]
  <2>1. task = "done"
    BY <1>4 DEF PhaseInv
  <2>2. /\ file' # <<>> /\ Last(file').kind = "done" => file' = Sent
        /\ Len(Sent) = sequence
        /\ Len(file') = Len(Sent) => file' # <<>> /\ Last(file').kind = "done"
        /\ file' # OldBackup
    BY <1>4, <2>1, PartIsWhole
  <2> QED
    BY <1>4, <2>1, <2>2, SentTypes DEF Whole
<1> QED
  BY <1>2, <1>3, <1>4, FileMoves

\* The chunks in the file keep their numbers and their order.
LEMMA NextFile ==
    ASSUME TypeOK, StoreInv, PhaseInv, SentInv, OrderInv, SessionsComeFirst, NumberedWithoutGap,
           [Next]_vars
    PROVE  SessionsComeFirst' /\ NumberedWithoutGap'
<1>0. CASE file' = file
  BY <1>0 DEF SessionsComeFirst, NumberedWithoutGap
<1>1. CASE file' = <<>>
  <2>1. DOMAIN file' = {}
    BY <1>1
  <2> QED
    BY <2>1 DEF SessionsComeFirst, NumberedWithoutGap
<1>2. CASE /\ Receiving /\ DOMAIN file' = 1..Len(file') /\ Len(file') \in 0..Len(Sent)
           /\ \A i \in 1..Len(file') : /\ i \in DOMAIN Sent /\ file'[i] = Sent[i]
                                       /\ file'[i] \in Item /\ file'[i].kind # "error"
  <2>1. NumberedWithoutGap'
    BY <1>2 DEF NumberedWithoutGap, SentInv
  <2>2. ASSUME NEW i \in DOMAIN file', file'[i].kind = "row", Len(file'[i].key) = 2
        PROVE  \E j \in 1..i : file'[j].key = <<"session">> /\ file'[j].row.id = file'[i].key[2]
    <3>1. Introduced(Sent[i].key[2], i)
      BY <1>2, <2>2 DEF OrderInv
    <3>2. PICK j \in 1..i : Sent[j].key = <<"session">> /\ Sent[j].row.id = Sent[i].key[2]
      BY <3>1 DEF Introduced
    <3>3. j \in DOMAIN file'
      BY <1>2, <3>2
    <3> QED
      BY <1>2, <3>2, <3>3
  <2> QED
    BY <2>1, <2>2 DEF SessionsComeFirst
<1> QED
  BY <1>0, <1>1, <1>2, FileMoves

\* When the done chunk is written nothing is left to hand over or to read.
LEMMA NextBrackets ==
    ASSUME TypeOK, StoreInv, PhaseInv, SentInv, CoverInv, RealInv, WholeBackupBrackets, [Next]_vars
    PROVE  WholeBackupBrackets'
<1>1. CASE file' = <<>>
  BY <1>1 DEF WholeBackupBrackets, Whole
<1>2. CASE file' = file
  <2>1. SUFFICES ASSUME Whole' PROVE WholeBackupBrackets'
    BY DEF WholeBackupBrackets
  <2>2. Whole
    BY <1>2, <2>1 DEF Whole
  <2>3. task = "done" /\ store' = store
    BY <2>2, NextGrown DEF PhaseInv
  <2>4. before' = before
    <3>1. ~Begin
      BY <2>3 DEF Begin
    <3>2. CASE TaskStep \/ ClientStep \/ ClientLeaves
      BY <3>2 DEF TaskStep, ReadTable, SendChunk, SendDone, ReadFails, ClientStep, Open,
                  WriteChunk, WriteSnapshot, ClientFails, Flush, ClientLeaves
    <3>3. CASE Stopped \/ UNCHANGED vars
      BY <3>3 DEF Stopped, vars
    <3>4. ASSUME NEW k \in Keys, Insert(k) \/ Upsert(k) PROVE before' = before
      BY <3>4, StoreMoves
    <3> QED
      BY <3>1, <3>2, <3>3, <3>4 DEF Next
  <2> QED
    BY <1>2, <2>2, <2>3, <2>4 DEF WholeBackupBrackets, Whole, Fits, InFile
<1>3. CASE /\ Receiving /\ store' = store /\ before' = before /\ file' \in Seq(Item)
           /\ Len(file') \in 0..Len(Sent) /\ \A i \in 1..Len(file') : file'[i] = Sent[i]
  <2> SUFFICES ASSUME Whole', Fits', NEW k \in Keys
               PROVE  /\ \A r \in ToSet(before'[k]) : \E f \in InFile(k)' : f.id = r.id /\ f.ver >= r.ver
                      /\ \A f \in InFile(k)' : \E r \in ToSet(store'[k]) : f.id = r.id /\ f.ver <= r.ver
    BY DEF WholeBackupBrackets
  <2>1. file' = Sent /\ plan = <<>> /\ task = "done" /\ Fits
    BY <1>3, PartIsWhole DEF Fits, Whole
  <2>2. Pending = {} /\ Handled = RowsOf(Sent)
    BY <2>1 DEF Pending, Handled, ReadsOf, SendsOf
  <2>3. \A f : f \in InFile(k)' <=> <<k, f>> \in Handled
    BY <2>1, <2>2 DEF InFile, RowsOf
  <2>4. \A r \in ToSet(before[k]) : \E f \in Row : <<k, f>> \in Handled /\ IsNewer(f, r)
    BY <1>3, <2>1, <2>2 DEF CoverInv
  <2>5. \A f \in InFile(k)' : f \in Row
    <3>1. \A i \in DOMAIN file' : file'[i] \in Item
      BY <1>3
    <3> QED
      BY <3>1, ItemFacts DEF InFile
  <2>6. \A f \in InFile(k)' : \E r \in ToSet(store[k]) : IsNewer(r, f)
    BY <1>3, <2>3, <2>5 DEF RealInv
  <2>7. \A r \in ToSet(store[k]) : r.ver \in Nat
    <3>1. store[k] \in Seq(Row)
      BY DEF TypeOK
    <3> QED
      BY <3>1, NewerFacts DEF ToSet
  <2> QED
    BY <1>3, <2>3, <2>4, <2>5, <2>6, <2>7, NewerFacts DEF IsNewer
<1> QED
  BY <1>1, <1>2, <1>3, FileMoves

-----------------------------------------------------------------------------
(* The theorems.                                                           *)

\* The invariant holds at first and is kept by every step.
THEOREM Inductive == Spec => []IInv
<1>1. Init => IInv
  <2> SUFFICES ASSUME Init PROVE IInv
    OBVIOUS
  <2>1. TypeOK /\ StoreInv
    BY InitTypes
  <2>2. ~Whole
    <3>1. Last(OldBackup).kind = "old"
      BY DEF OldBackup, Last
    <3> QED
      BY <3>1 DEF Init, Whole
  <2>3. PhaseInv /\ SentInv /\ OrderInv /\ CoverInv /\ RealInv
    BY <2>2 DEF Init, PhaseInv, SentInv, OrderInv, CoverInv, RealInv, Receiving
  <2>4. WholeBackupBrackets /\ SessionsComeFirst /\ NumberedWithoutGap /\ SnapshotKeepsOld
    BY <2>2 DEF Init, WholeBackupBrackets, SessionsComeFirst, NumberedWithoutGap, SnapshotKeepsOld
  <2> QED
    BY <2>1, <2>3, <2>4 DEF IInv
<1>2. IInv /\ [Next]_vars => IInv'
  <2> SUFFICES ASSUME IInv, [Next]_vars PROVE IInv'
    OBVIOUS
  <2>1. /\ TypeOK /\ PhaseInv /\ SentInv /\ OrderInv /\ StoreInv /\ CoverInv /\ RealInv
        /\ WholeBackupBrackets /\ SessionsComeFirst /\ NumberedWithoutGap /\ SnapshotKeepsOld
    BY DEF IInv
  <2>2. TypeOK' /\ StoreInv'
    BY <2>1, NextTypes
  <2>3. PhaseInv' /\ SentInv'
    BY <2>1, NextPhase, NextSent
  <2>4. OrderInv' /\ CoverInv' /\ RealInv'
    BY <2>1, <2>2, NextOrder, NextCover, NextReal
  <2>5. SessionsComeFirst' /\ NumberedWithoutGap' /\ WholeBackupBrackets' /\ SnapshotKeepsOld'
    BY <2>1, NextFile, NextBrackets, NextKeepsOld
  <2> QED
    BY <2>2, <2>3, <2>4, <2>5 DEF IInv
<1> QED
  BY <1>1, <1>2, PTL DEF Spec

\* A backup that ends in its done chunk holds every row there was when it began, in that version
\* or a later one, and nothing that was never stored, though turns and jobs write while its
\* tables are read; its sessions come first and its chunks are numbered without a gap
\* (export_game in server/src/store.rs, the task in server/src/api/grpc/mod.rs).
THEOREM BackupIsTrueHolds == Spec => []BackupIsTrue
<1>1. IInv => BackupIsTrue
  BY DEF IInv, BackupIsTrue
<1> QED
  BY <1>1, Inductive, PTL

\* What the command reports as a backup has its done chunk.  A snapshot leaves the old file as
\* it was until the whole reply is there, and what the file then holds is the beginning of a
\* whole backup, or all of it: it does not outlive a write that fails
\* (cli/src/commands/backup.rs, the reply before fs::write).
THEOREM OnlyWholeIsTakenHolds == Spec => []OnlyWholeIsTaken
<1>1. IInv => OnlyWholeIsTaken
  BY DEF IInv, PhaseInv, OnlyWholeIsTaken, ReportedIsWhole
<1> QED
  BY <1>1, Inductive, PTL
=============================================================================
