--------------------------- MODULE SendMessageProofs ---------------------------
(***************************************************************************)
(* Proofs about SendMessage, for any number of turns that run at once, any *)
(* capacity of the reply channel and any number of deltas and faults.      *)
(* Turns share only the tables, where each adds rows of its own: so the    *)
(* inductive invariant speaks of one turn at a time, and Frame shows that  *)
(* a step of one turn leaves it true of the others.                        *)
(***************************************************************************)
EXTENDS SendMessage, TLAPS

USE SendMessageAssumption
USE DEF task, wire, store, vars

\* The rows of a turn.
Untouched(t) == \A i \in DOMAIN messages : messages[i].turn # t
Asked(t)    == \E i \in DOMAIN messages : messages[i] = Question(t)
Answered(t) ==
    \E i, j \in DOMAIN messages : i < j /\ messages[i] = Question(t) /\ messages[j] = Reply(t)
Linked(t)   == <<t, "assistant">> \in edges
Durable(t)  ==
    /\ Answered(t) /\ Linked(t)
    /\ {job \in jobs : job.turn = t} = {[turn |-> t, content |-> content[t]]}

\* How far the task is says what the store holds.
Progress(t) ==
    /\ pc[t] \in {"idle", "received", "question"} => Untouched(t)
    /\ pc[t] \in {"question_edge", "context", "stream", "send", "reply"} => Asked(t) /\ ~HasReply(t)
    /\ pc[t] \in {"reply_edge", "enqueue"} => Answered(t)
    /\ pc[t] \notin {"enqueue", "marker", "report", "ended"} => ~Linked(t)
    /\ pc[t] \notin {"marker", "report", "ended"} => ~HasJob(t)
    /\ pc[t] = "enqueue" => Linked(t)
    /\ pc[t] = "marker" => Durable(t)
    /\ pc[t] \in {"report", "ended"} /\ faults = 0 =>
          (HasReply(t) <=> HasJob(t)) /\ (HasReply(t) <=> Linked(t))

\* The marker or the error is the last thing that is sent.
Closed(t) == channel[t] # <<>> /\ Last(channel[t]).type # "delta"

\* What the client has been told is so.
Heard(t) ==
    /\ client[t] = "idle" <=> pc[t] = "idle"
    /\ client[t] # "reading" => channel[t] = <<>>
    /\ client[t] = "idle" => got[t] = <<>> /\ content[t] = <<>>
    /\ sequence[t] = Len(content[t])
    /\ Closed(t) => pc[t] = "ended"
    /\ Closed(t) /\ Last(channel[t]).type = "done" =>
          Durable(t) /\ Len(content[t]) = Len(got[t]) + Waiting(t)
    /\ client[t] = "complete" => pc[t] = "ended" /\ got[t] = content[t] /\ Durable(t)
    /\ faults = 0 /\ pc[t] = "ended" /\ client[t] = "reading" => Closed(t)
    /\ faults = 0 => client[t] # "cut_off"

TurnInv(t) == Progress(t) /\ Heard(t) /\ (client[t] = "reading" => Ordered(t))

IInv == TypeOK /\ \A t \in Turns : TurnInv(t)

\* A reply is a sequence of at most MaxDeltas deltas.
LEMMA ContentsType ==
    \A c : c \in Contents <=> c \in Seq(Delta) /\ Len(c) <= MaxDeltas
  BY DEF Contents, BoundedSeq, SeqOf

\* The empty reply is one.
LEMMA EmptyContents == <<>> \in Contents
<1>1. <<>> \in Seq(Delta) /\ Len(<<>>) = 0 /\ 0 <= MaxDeltas
  OBVIOUS
<1> QED
  BY <1>1, ContentsType

\* A reply that may still grow is one with the next delta too.
LEMMA ContentGrows ==
    ASSUME NEW c \in Contents, NEW d \in Delta, Len(c) < MaxDeltas
    PROVE  Append(c, d) \in Contents
<1>1. c \in Seq(Delta)
  BY ContentsType
<1>2. Append(c, d) \in Seq(Delta) /\ Len(Append(c, d)) <= MaxDeltas
  BY <1>1
<1> QED
  BY <1>2, ContentsType

\* The lengths of what a client has read, of what waits for it and of the reply.
LEMMA Lengths ==
    ASSUME TypeOK, NEW t \in Turns
    PROVE  /\ content[t] \in Seq(Delta) /\ got[t] \in Seq(Delta) /\ channel[t] \in Seq(Item)
           /\ Len(content[t]) \in 0..MaxDeltas /\ Len(got[t]) \in 0..MaxDeltas
           /\ Len(channel[t]) \in 0..Capacity
           /\ Waiting(t) = IF Closed(t) THEN Len(channel[t]) - 1 ELSE Len(channel[t])
           /\ Waiting(t) \in Nat
           /\ channel[t] # <<>> <=> Len(channel[t]) # 0
           /\ Closed(t) => Len(channel[t]) # 0
<1>1. content[t] \in Contents /\ got[t] \in Contents /\ channel[t] \in Seq(Item)
      /\ Len(channel[t]) <= Capacity
  BY DEF TypeOK
<1>2. /\ content[t] \in Seq(Delta) /\ Len(content[t]) <= MaxDeltas
      /\ got[t] \in Seq(Delta) /\ Len(got[t]) <= MaxDeltas
  BY <1>1, ContentsType
<1> QED
  BY <1>1, <1>2 DEF Waiting, Closed

\* What the client has read and what waits in the channel is the reply so
\* far, but for the delta the task is about to send.
LEMMA SentIsReply ==
    ASSUME TypeOK, NEW t \in Turns, Ordered(t)
    PROVE  /\ Len(got[t]) + Waiting(t) <= Len(content[t])
           /\ pc[t] = "send" => Len(content[t]) = Len(got[t]) + Waiting(t) + 1
           /\ pc[t] \notin {"send", "ended"} => Len(content[t]) = Len(got[t]) + Waiting(t)
  BY Lengths DEF Ordered

\* The inductive invariant holds before any request.
LEMMA InitIInv == Init => IInv
<1> SUFFICES ASSUME Init PROVE IInv
  OBVIOUS
<1>1. <<>> \in Contents
  BY EmptyContents
<1>2. channel \in [Turns -> Seq(Item)] /\ \A t \in Turns : Len(channel[t]) <= Capacity
  BY DEF Init
<1>3. TypeOK
  BY <1>1, <1>2 DEF Init, TypeOK
<1>4. ASSUME NEW t \in Turns PROVE TurnInv(t)
  <2>1. Progress(t)
    BY DEF Init, Progress, Untouched, HasJob, Linked
  <2>2. Heard(t)
    BY DEF Init, Heard, Closed
  <2> QED
    BY <2>1, <2>2 DEF TurnInv, Init
<1> QED
  BY <1>3, <1>4 DEF IInv

\* What the task sends is an item of the channel.
LEMMA ItemTypes ==
    /\ \A d \in Delta, n \in Nat : [type |-> "delta", delta |-> d, sequence |-> n] \in Item
    /\ \A n \in Nat : [type |-> "done", sequence |-> n] \in Item
    /\ [type |-> "error"] \in Item
    /\ \A x \in Item : x.type = "delta" => x.delta \in Delta
  BY DEF Item

\* A send keeps the channel within its capacity and the client as it is.
LEMMA PutTypes ==
    ASSUME TypeOK, NEW t \in Turns, NEW item \in Item, Put(t, item)
    PROVE  /\ channel' \in [Turns -> Seq(Item)] /\ \A u \in Turns : Len(channel'[u]) <= Capacity
           /\ client' = client /\ got' = got
  BY DEF Put, TypeOK

\* Every step keeps the types.
LEMMA NextTypeOK == IInv /\ [Next]_vars => TypeOK'
<1> SUFFICES ASSUME IInv, [Next]_vars PROVE TypeOK'
  OBVIOUS
<1> USE DEF Goto
<1>0. TypeOK
  BY DEF IInv
<1>1. ASSUME NEW t \in Turns,
             \/ Request(t) \/ Admit(t) \/ LinkQuestion(t) \/ OpenStream(t) \/ ReceiverGone(t)
             \/ EndOfStream(t) \/ LinkReply(t) \/ CallFails(t)
      PROVE  TypeOK'
  <2>1. CASE Request(t)
    BY <1>0, <2>1 DEF TypeOK, Request
  <2>2. CASE Admit(t)
    BY <1>0, <2>2 DEF TypeOK, Admit
  <2>3. CASE LinkQuestion(t)
    BY <1>0, <2>3 DEF TypeOK, LinkQuestion
  <2>4. CASE OpenStream(t)
    BY <1>0, <2>4 DEF TypeOK, OpenStream
  <2>5. CASE ReceiverGone(t)
    BY <1>0, <2>5 DEF TypeOK, ReceiverGone
  <2>6. CASE EndOfStream(t)
    BY <1>0, <2>6 DEF TypeOK, EndOfStream
  <2>7. CASE LinkReply(t)
    BY <1>0, <2>7 DEF TypeOK, LinkReply
  <2>8. CASE CallFails(t)
    BY <1>0, <2>8 DEF TypeOK, CallFails, Fault
  <2> QED
    BY <1>1, <2>1, <2>2, <2>3, <2>4, <2>5, <2>6, <2>7, <2>8
<1>2. ASSUME NEW t \in Turns, NEW role \in {"user", "assistant"}, NEW c \in Contents,
             CreateMessage(t, role, c)
      PROVE  messages' \in Seq(Message)
  BY <1>0, <1>2 DEF TypeOK, CreateMessage, Message
<1>3. <<>> \in Contents
  BY EmptyContents
<1>14. ASSUME NEW t \in Turns, channel' = [channel EXCEPT ![t] = <<>>]
       PROVE  channel' \in [Turns -> Seq(Item)] /\ \A u \in Turns : Len(channel'[u]) <= Capacity
  <2>1. <<>> \in Seq(Item) /\ Len(<<>>) <= Capacity
    OBVIOUS
  <2> QED
    BY <1>0, <1>14, <2>1 DEF TypeOK
<1>4. ASSUME NEW t \in Turns, StoreQuestion(t) \/ StoreReply(t) PROVE TypeOK'
  BY <1>0, <1>2, <1>3, <1>4 DEF TypeOK, StoreQuestion, StoreReply
<1>5. ASSUME NEW t \in Turns, NextDelta(t) PROVE TypeOK'
  <2>1. content' \in [Turns -> Contents]
    BY <1>0, <1>5, ContentGrows DEF NextDelta, TypeOK
  <2> QED
    BY <1>0, <1>5, <2>1 DEF NextDelta, TypeOK
<1>6. ASSUME NEW t \in Turns, SendDelta(t) PROVE TypeOK'
  <2>1. [type |-> "delta", delta |-> Last(content[t]), sequence |-> sequence[t]] \in Item
    <3>1. content[t] \in Seq(Delta) /\ sequence[t] \in Nat
      BY <1>0, ContentsType DEF TypeOK
    <3>2. Len(content[t]) # 0
      BY <1>0, <1>6, Lengths, SentIsReply DEF IInv, TurnInv, SendDelta
    <3> QED
      BY <3>1, <3>2, ItemTypes DEF Last
  <2> QED
    BY <1>0, <1>6, <2>1, PutTypes DEF SendDelta, TypeOK
<1>7. ASSUME NEW t \in Turns, EnqueueJob(t) PROVE TypeOK'
  BY <1>0, <1>7 DEF EnqueueJob, CreateJob, TypeOK
<1>8. ASSUME NEW t \in Turns, SendMarker(t) \/ ReportError(t) PROVE TypeOK'
  <2>1. [type |-> "done", sequence |-> sequence[t] + 1] \in Item /\ [type |-> "error"] \in Item
    BY <1>0, ItemTypes DEF TypeOK
  <2>2. /\ channel' \in [Turns -> Seq(Item)] /\ \A u \in Turns : Len(channel'[u]) <= Capacity
        /\ client' = client /\ got' = got
    BY <1>0, <1>8, <2>1, PutTypes DEF SendMarker, ReportError, SendLast, TypeOK
  <2> QED
    BY <1>0, <1>8, <2>2 DEF SendMarker, ReportError, SendLast, TypeOK
<1>9. ASSUME NEW t \in Turns, Receive(t) PROVE TypeOK'
  <2>1. channel[t] \in Seq(Item) /\ channel[t] # <<>> /\ Len(channel[t]) <= Capacity
    BY <1>0, <1>9 DEF Receive, TypeOK
  <2>2. Head(channel[t]) \in Item /\ Tail(channel[t]) \in Seq(Item) /\ Len(Tail(channel[t])) <= Capacity
    BY <2>1
  <2>3. CASE Head(channel[t]).type = "delta"
    <3>1. Head(channel[t]).delta \in Delta
      BY <2>2, <2>3, ItemTypes
    <3>2. got[t] \in Contents /\ Len(got[t]) < MaxDeltas
      <4>1. Ordered(t) /\ Len(channel[t]) >= 1
        BY <1>9, <2>1 DEF IInv, TurnInv, Receive
      <4>2. Waiting(t) >= 1
        BY <1>0, <2>1, <2>3, <4>1, Lengths DEF Closed, Last
      <4> QED
        <5>1. got[t] \in Contents
          BY <1>0 DEF TypeOK
        <5>2. Len(got[t]) + Waiting(t) <= Len(content[t])
          BY <1>0, <4>1, SentIsReply
        <5>3. Len(got[t]) \in Nat /\ Waiting(t) \in Nat /\ Len(content[t]) \in 0..MaxDeltas
          BY <1>0, Lengths
        <5> QED
          BY <4>2, <5>1, <5>2, <5>3
    <3>3. got' \in [Turns -> Contents]
      <4>1. got' = [got EXCEPT ![t] = Append(got[t], Head(channel[t]).delta)]
        BY <1>9, <2>3 DEF Receive
      <4>2. Append(got[t], Head(channel[t]).delta) \in Contents
        BY <3>1, <3>2, ContentGrows
      <4> QED
        BY <1>0, <4>1, <4>2 DEF TypeOK
    <3> QED
      BY <1>0, <1>9, <2>2, <2>3, <3>3 DEF Receive, TypeOK
  <2>4. CASE Head(channel[t]).type \in {"done", "error"}
    BY <1>0, <1>9, <1>14, <2>4 DEF Receive, TypeOK
  <2> QED
    BY <1>9, <2>3, <2>4 DEF Receive
<1>10. ASSUME NEW t \in Turns, EndOfReplies(t) \/ Leave(t) PROVE TypeOK'
  BY <1>0, <1>10, <1>14 DEF EndOfReplies, Leave, TypeOK
<1>11. ASSUME NEW t \in Turns, AnswerLost(t) PROVE TypeOK'
  <2>1. messages' \in Seq(Message)
    BY <1>0, <1>2, <1>3, <1>11 DEF AnswerLost, TypeOK
  <2>2. jobs' \subseteq [turn : Turns, content : Contents]
    BY <1>0, <1>11 DEF AnswerLost, CreateJob, TypeOK
  <2> QED
    BY <1>0, <1>11, <2>1, <2>2 DEF AnswerLost, Fault, TypeOK
<1>12. CASE ServerStops
  BY <1>0, <1>12 DEF ServerStops, Fault, TypeOK
<1>13. CASE UNCHANGED vars
  BY <1>0, <1>13 DEF TypeOK
<1> QED
  BY <1>1, <1>4, <1>5, <1>6, <1>7, <1>8, <1>9, <1>10, <1>11, <1>12, <1>13
     DEF Next, TaskStep, ClientReads

\* The order of a turn, taken apart: what was read, what waits, and how it
\* is numbered.
LEMMA OrderedParts ==
    ASSUME NEW t \in Turns, Ordered(t)
    PROVE  /\ \A i \in DOMAIN got[t] : got[t][i] = content[t][i]
           /\ \A i \in 1..Waiting(t) :
                channel[t][i].type = "delta" /\ channel[t][i].delta = content[t][Len(got[t]) + i]
           /\ \A i \in DOMAIN channel[t] :
                channel[t][i].type # "error" => channel[t][i].sequence = Len(got[t]) + i
  BY DEF Ordered

-----------------------------------------------------------------------------
(* The turns beside the one that moves.                                    *)

\* Where a turn is that does not move.
Still(u) ==
    /\ pc'[u] = pc[u] /\ content'[u] = content[u] /\ sequence'[u] = sequence[u]
    /\ channel'[u] = channel[u] /\ client'[u] = client[u] /\ got'[u] = got[u]

\* The rows of one turn are all that a step adds to the tables.
Adds(t) ==
    /\ messages' = messages \/ \E m \in Message : m.turn = t /\ messages' = Append(messages, m)
    /\ edges' = edges \/ \E role \in {"user", "assistant"} : edges' = edges \cup {<<t, role>>}
    /\ jobs' = jobs \/ \E j : j.turn = t /\ jobs' = jobs \cup {j}
    /\ faults' = 0 => faults = 0

\* A row added to the messages leaves the rows before it where they are.
LEMMA MessageAppended ==
    ASSUME TypeOK, NEW m \in Message, messages' = Append(messages, m)
    PROVE  /\ DOMAIN messages' = DOMAIN messages \cup {Len(messages) + 1}
           /\ Len(messages) + 1 \notin DOMAIN messages
           /\ \A i \in DOMAIN messages : i \in Nat /\ messages'[i] = messages[i] /\ i < Len(messages) + 1
           /\ messages'[Len(messages) + 1] = m
  BY DEF TypeOK

\* What is stored for one turn is not touched by what another adds.
LEMMA RowsOfOthers ==
    ASSUME TypeOK, NEW t \in Turns, NEW u \in Turns, u # t, Still(u), Adds(t)
    PROVE  /\ Untouched(u)' = Untouched(u) /\ Asked(u)' = Asked(u) /\ Answered(u)' = Answered(u)
           /\ HasReply(u)' = HasReply(u) /\ Linked(u)' = Linked(u) /\ HasJob(u)' = HasJob(u)
           /\ Durable(u)' = Durable(u)
<1>1. Linked(u)' = Linked(u)
  BY DEF Linked, Adds
<1>2. HasJob(u)' = HasJob(u) /\ {job \in jobs' : job.turn = u} = {job \in jobs : job.turn = u}
  BY DEF HasJob, Adds
<1>3. Reply(u)' = Reply(u) /\ Reply(u).turn = u /\ Question(u)' = Question(u) /\ Question(u).turn = u
  BY DEF Reply, Question, Still
<1>4. /\ Untouched(u)' = Untouched(u) /\ Asked(u)' = Asked(u) /\ Answered(u)' = Answered(u)
      /\ HasReply(u)' = HasReply(u)
  <2>1. CASE messages' = messages
    BY <1>3, <2>1 DEF Untouched, Asked, Answered, HasReply
  <2>2. ASSUME NEW m \in Message, m.turn = t, messages' = Append(messages, m)
        PROVE  /\ Untouched(u)' = Untouched(u) /\ Asked(u)' = Asked(u) /\ Answered(u)' = Answered(u)
               /\ HasReply(u)' = HasReply(u)
    <3>1. /\ DOMAIN messages' = DOMAIN messages \cup {Len(messages) + 1}
          /\ \A i \in DOMAIN messages : messages'[i] = messages[i]
          /\ messages'[Len(messages) + 1] = m
      BY <2>2, MessageAppended
    <3>2. Untouched(u)' = Untouched(u)
      BY <2>2, <3>1 DEF Untouched
    <3>3. Asked(u)' = Asked(u)
      BY <1>3, <2>2, <3>1 DEF Asked
    <3>4. Answered(u)' = Answered(u)
      BY <1>3, <2>2, <3>1 DEF Answered
    <3>5. HasReply(u)' = HasReply(u)
      BY <2>2, <3>1 DEF HasReply
    <3> QED
      BY <3>2, <3>3, <3>4, <3>5
  <2> QED
    BY <2>1, <2>2 DEF Adds
<1>5. Durable(u)' = Durable(u)
  BY <1>1, <1>2, <1>4 DEF Durable, Still
<1> QED
  BY <1>1, <1>2, <1>4, <1>5

\* A step of one turn keeps the invariant of another.
LEMMA Frame ==
    ASSUME TypeOK, NEW t \in Turns, NEW u \in Turns, u # t, Still(u), Adds(t), TurnInv(u)
    PROVE  TurnInv(u)'
<1>1. /\ Untouched(u)' = Untouched(u) /\ Asked(u)' = Asked(u) /\ Answered(u)' = Answered(u)
      /\ HasReply(u)' = HasReply(u) /\ Linked(u)' = Linked(u) /\ HasJob(u)' = HasJob(u)
      /\ Durable(u)' = Durable(u)
  BY RowsOfOthers
<1>2. Waiting(u)' = Waiting(u) /\ Closed(u)' = Closed(u)
  BY DEF Still, Waiting, Closed
<1>3. Progress(u)'
  BY <1>1 DEF Still, Adds, TurnInv, Progress
<1>4. Heard(u)'
  BY <1>1, <1>2 DEF Still, Adds, TurnInv, Heard
<1>5. client'[u] = "reading" => Ordered(u)'
  BY <1>2 DEF Still, TurnInv, Ordered
<1> QED
  BY <1>3, <1>4, <1>5 DEF TurnInv

\* Every step but the stop of the server is the step of one turn and leaves
\* the others still.
LEMMA StepOfOne ==
    ASSUME TypeOK, NEW t \in Turns,
           Request(t) \/ TaskStep(t) \/ ClientReads(t) \/ Leave(t) \/ CallFails(t) \/ AnswerLost(t)
    PROVE  Adds(t) /\ \A u \in Turns \ {t} : Still(u)
<1> USE DEF Goto
<1>0. content[t] \in Contents /\ <<>> \in Contents
  BY EmptyContents DEF TypeOK
<1>1. ASSUME NEW role \in {"user", "assistant"}, NEW c \in Contents, CreateMessage(t, role, c)
      PROVE  \E m \in Message : m.turn = t /\ messages' = Append(messages, m)
  BY <1>1 DEF CreateMessage, Message
<1>2. CASE \/ Request(t) \/ Admit(t) \/ OpenStream(t) \/ ReceiverGone(t) \/ EndOfStream(t)
           \/ NextDelta(t) \/ EndOfReplies(t) \/ Leave(t)
  BY <1>2 DEF Request, Admit, OpenStream, ReceiverGone, EndOfStream, NextDelta, EndOfReplies, Leave,
              Adds, Still, TypeOK
<1>3. CASE StoreQuestion(t) \/ StoreReply(t)
  BY <1>0, <1>1, <1>3 DEF StoreQuestion, StoreReply, Adds, Still, TypeOK
<1>4. CASE LinkQuestion(t) \/ LinkReply(t)
  BY <1>4 DEF LinkQuestion, LinkReply, Adds, Still, TypeOK
<1>5. CASE EnqueueJob(t)
  BY <1>5 DEF EnqueueJob, CreateJob, Adds, Still, TypeOK
<1>6. CASE SendDelta(t) \/ SendMarker(t) \/ ReportError(t)
  BY <1>6 DEF SendDelta, SendMarker, ReportError, SendLast, Put, Adds, Still, TypeOK
<1>7. CASE Receive(t)
  BY <1>7 DEF Receive, Adds, Still, TypeOK
<1>8. CASE CallFails(t)
  BY <1>8 DEF CallFails, Fault, Adds, Still, TypeOK
<1>9. CASE AnswerLost(t)
  <2>1. messages' = messages \/ \E m \in Message : m.turn = t /\ messages' = Append(messages, m)
    BY <1>0, <1>1, <1>9 DEF AnswerLost
  <2>2. jobs' = jobs \/ \E j : j.turn = t /\ jobs' = jobs \cup {j}
    BY <1>9 DEF AnswerLost, CreateJob
  <2>3. edges' = edges /\ faults' # 0
    BY <1>9 DEF AnswerLost, Fault, TypeOK
  <2>4. \A u \in Turns \ {t} : Still(u)
    BY <1>9 DEF AnswerLost, Still, TypeOK
  <2> QED
    BY <2>1, <2>2, <2>3, <2>4 DEF Adds
<1> QED
  BY <1>2, <1>3, <1>4, <1>5, <1>6, <1>7, <1>8, <1>9 DEF TaskStep, ClientReads

-----------------------------------------------------------------------------
(* The turn that moves.                                                    *)

\* The task goes on to a call that is not a send, and nothing is sent or read.
LEMMA TaskMoves ==
    ASSUME TypeOK, NEW t \in Turns, TurnInv(t),
           UNCHANGED <<content, sequence, wire>>, faults' = 0 => faults = 0,
           pc[t] \notin {"idle", "ended", "marker", "report"},
           pc[t] # "send" \/ client[t] # "reading",
           pc'[t] \notin {"idle", "send"},
           pc'[t] # "ended" \/ client[t] # "reading",
           Progress(t)'
    PROVE  TurnInv(t)'
<1>1. Waiting(t)' = Waiting(t) /\ Closed(t)' = Closed(t)
  BY DEF Waiting, Closed
<1>2. ~Closed(t) /\ client[t] # "complete"
  BY DEF TurnInv, Heard
<1>3. Heard(t)'
  BY <1>1, <1>2 DEF TurnInv, Heard, TypeOK
<1>4. client'[t] = "reading" => Ordered(t)'
  BY <1>1 DEF TurnInv, Ordered
<1> QED
  BY <1>3, <1>4 DEF TurnInv

\* The invariant of a turn begins with its request.
LEMMA RequestMoves == ASSUME IInv, NEW t \in Turns, Request(t) PROVE TurnInv(t)'
<1> USE DEF Goto
<1>1. TypeOK /\ TurnInv(t)
  BY DEF IInv
<1>2. /\ pc[t] = "idle" /\ pc'[t] = "received" /\ client'[t] = "reading"
      /\ UNCHANGED <<content, sequence, channel, got, store, faults>>
  BY <1>1 DEF Request, TypeOK
<1>3. channel[t] = <<>> /\ got[t] = <<>> /\ content[t] = <<>>
  BY <1>1, <1>2 DEF TurnInv, Heard
<1>4. Progress(t)'
  BY <1>1, <1>2 DEF TurnInv, Progress, Untouched, Linked, HasJob
<1>5. ~Closed(t)' /\ Waiting(t)' = 0
  BY <1>2, <1>3 DEF Closed, Waiting
<1>6. Heard(t)'
  BY <1>1, <1>2, <1>3, <1>5 DEF TurnInv, Heard
<1>7. Ordered(t)'
  BY <1>2, <1>3, <1>5 DEF Ordered
<1> QED
  BY <1>4, <1>6, <1>7 DEF TurnInv

\* The steps of a task that neither store nor send keep its invariant.
LEMMA QuietMoves ==
    ASSUME IInv, NEW t \in Turns,
           Admit(t) \/ OpenStream(t) \/ EndOfStream(t) \/ ReceiverGone(t) \/ CallFails(t)
    PROVE  TurnInv(t)'
<1> USE DEF Goto
<1>1. TypeOK /\ TurnInv(t)
  BY DEF IInv
<1>2. UNCHANGED <<content, sequence, wire, store>> /\ (faults' = 0 => faults = 0)
  BY <1>1 DEF Admit, OpenStream, EndOfStream, ReceiverGone, CallFails, Fault, TypeOK
<1>3. /\ Untouched(t)' = Untouched(t) /\ Asked(t)' = Asked(t) /\ Answered(t)' = Answered(t)
      /\ HasReply(t)' = HasReply(t) /\ Linked(t)' = Linked(t) /\ HasJob(t)' = HasJob(t)
      /\ Durable(t)' = Durable(t)
  BY <1>2 DEF Untouched, Asked, Answered, HasReply, Linked, HasJob, Durable, Reply, Question
<1>4. Untouched(t) => ~HasReply(t)
  BY DEF Untouched, HasReply
<1>5. CASE Admit(t)
  <2>1. pc[t] = "received" /\ pc'[t] \in {"question", "report"} /\ faults' = faults
    BY <1>1, <1>5 DEF Admit, TypeOK
  <2>2. Progress(t)'
    BY <1>1, <1>3, <1>4, <2>1 DEF TurnInv, Progress
  <2> QED
    BY <1>1, <1>2, <2>1, <2>2, TaskMoves
<1>6. CASE OpenStream(t)
  <2>1. pc[t] = "context" /\ pc'[t] = "stream" /\ faults' = faults
    BY <1>1, <1>6 DEF OpenStream, TypeOK
  <2>2. Progress(t)'
    BY <1>1, <1>3, <2>1 DEF TurnInv, Progress
  <2> QED
    BY <1>1, <1>2, <2>1, <2>2, TaskMoves
<1>7. CASE EndOfStream(t)
  <2>1. pc[t] = "stream" /\ pc'[t] \in {"report", "reply"} /\ faults' = faults
    BY <1>1, <1>7 DEF EndOfStream, TypeOK
  <2>2. Progress(t)'
    BY <1>1, <1>3, <2>1 DEF TurnInv, Progress
  <2> QED
    BY <1>1, <1>2, <2>1, <2>2, TaskMoves
<1>8. CASE ReceiverGone(t)
  <2>1. pc[t] = "send" /\ pc'[t] = "ended" /\ client[t] # "reading" /\ faults' = faults
    BY <1>1, <1>8 DEF ReceiverGone, TypeOK
  <2>2. Progress(t)'
    BY <1>1, <1>3, <2>1 DEF TurnInv, Progress
  <2> QED
    BY <1>1, <1>2, <2>1, <2>2, TaskMoves
<1>9. CASE CallFails(t)
  <2>1. /\ pc[t] \in {"received", "question", "question_edge", "context", "stream", "reply",
                      "reply_edge", "enqueue"}
        /\ pc'[t] = "report" /\ faults' # 0
    BY <1>1, <1>9 DEF CallFails, Fault, TypeOK
  <2>2. Progress(t)'
    BY <1>3, <2>1 DEF Progress
  <2> QED
    BY <1>1, <1>2, <2>1, <2>2, TaskMoves
<1> QED
  BY <1>5, <1>6, <1>7, <1>8, <1>9

\* The steps that store keep it: each adds the row, the edge or the job that
\* comes next.
LEMMA StoreMoves ==
    ASSUME IInv, NEW t \in Turns,
           \/ StoreQuestion(t) \/ LinkQuestion(t) \/ StoreReply(t) \/ LinkReply(t)
           \/ EnqueueJob(t) \/ AnswerLost(t)
    PROVE  TurnInv(t)'
<1> USE DEF Goto
<1>1. TypeOK /\ TurnInv(t) /\ content[t] \in Contents /\ <<>> \in Contents
  BY EmptyContents DEF IInv, TypeOK
<1>2. UNCHANGED <<content, sequence, wire>> /\ (faults' = 0 => faults = 0)
  BY <1>1 DEF StoreQuestion, LinkQuestion, StoreReply, LinkReply, EnqueueJob, AnswerLost, Fault, TypeOK
<1>3. Reply(t)' = Reply(t) /\ Question(t)' = Question(t)
  BY <1>2 DEF Reply, Question
<1>4. CASE StoreQuestion(t)
  <2>1. /\ pc[t] = "question" /\ pc'[t] = "question_edge" /\ UNCHANGED <<edges, jobs, faults>>
        /\ messages' = Append(messages, Question(t))
    BY <1>1, <1>4 DEF StoreQuestion, CreateMessage, Question, TypeOK
  <2>2. Question(t) \in Message
    BY <1>1 DEF Question, Message
  <2>3. Asked(t)' /\ ~HasReply(t)'
    <3>1. Untouched(t)
      BY <1>1, <2>1 DEF TurnInv, Progress
    <3>2. /\ DOMAIN messages' = DOMAIN messages \cup {Len(messages) + 1}
          /\ \A i \in DOMAIN messages : messages'[i] = messages[i]
          /\ messages'[Len(messages) + 1] = Question(t)
      BY <1>1, <2>1, <2>2, MessageAppended
    <3> QED
      BY <1>3, <3>1, <3>2 DEF Untouched, Asked, HasReply, Question
  <2>4. Progress(t)'
    BY <1>1, <2>1, <2>3 DEF TurnInv, Progress, Linked, HasJob
  <2> QED
    BY <1>1, <1>2, <2>1, <2>4, TaskMoves
<1>5. CASE LinkQuestion(t)
  <2>1. /\ pc[t] = "question_edge" /\ pc'[t] = "context" /\ UNCHANGED <<messages, jobs, faults>>
        /\ edges' = edges \cup {<<t, "user">>}
    BY <1>1, <1>5 DEF LinkQuestion, TypeOK
  <2>2. Progress(t)'
    BY <1>1, <1>3, <2>1 DEF TurnInv, Progress, Asked, HasReply, Linked, HasJob
  <2> QED
    BY <1>1, <1>2, <2>1, <2>2, TaskMoves
<1>6. CASE StoreReply(t)
  <2>1. /\ pc[t] = "reply" /\ pc'[t] = "reply_edge" /\ UNCHANGED <<edges, jobs, faults>>
        /\ messages' = Append(messages, Reply(t))
    BY <1>1, <1>6 DEF StoreReply, CreateMessage, Reply, TypeOK
  <2>2. Reply(t) \in Message
    BY <1>1 DEF Reply, Message
  <2>3. Answered(t)'
    <3>1. PICK i \in DOMAIN messages : messages[i] = Question(t)
      BY <1>1, <2>1 DEF TurnInv, Progress, Asked
    <3>2. /\ DOMAIN messages' = DOMAIN messages \cup {Len(messages) + 1}
          /\ messages'[i] = messages[i] /\ i < Len(messages) + 1
          /\ messages'[Len(messages) + 1] = Reply(t)
      BY <1>1, <2>1, <2>2, MessageAppended
    <3> QED
      BY <1>3, <3>1, <3>2 DEF Answered
  <2>4. Progress(t)'
    BY <1>1, <2>1, <2>3 DEF TurnInv, Progress, Linked, HasJob
  <2> QED
    BY <1>1, <1>2, <2>1, <2>4, TaskMoves
<1>7. CASE LinkReply(t)
  <2>1. /\ pc[t] = "reply_edge" /\ pc'[t] = "enqueue" /\ UNCHANGED <<messages, jobs, faults>>
        /\ Linked(t)'
    BY <1>1, <1>7 DEF LinkReply, Linked, TypeOK
  <2>2. Progress(t)'
    BY <1>1, <1>3, <2>1 DEF TurnInv, Progress, Answered, HasJob
  <2> QED
    BY <1>1, <1>2, <2>1, <2>2, TaskMoves
<1>8. CASE EnqueueJob(t)
  <2>1. /\ pc[t] = "enqueue" /\ pc'[t] = "marker" /\ UNCHANGED <<messages, edges, faults>>
        /\ jobs' = jobs \cup {[turn |-> t, content |-> content[t]]}
    BY <1>1, <1>8 DEF EnqueueJob, CreateJob, TypeOK
  <2>2. Answered(t) /\ Linked(t) /\ ~HasJob(t)
    BY <1>1, <2>1 DEF TurnInv, Progress
  <2>3. {job \in jobs' : job.turn = t} = {[turn |-> t, content |-> content'[t]]}
    BY <1>2, <2>1, <2>2 DEF HasJob
  <2>4. Durable(t)'
    BY <1>3, <2>1, <2>2, <2>3 DEF Durable, Answered, Linked
  <2>5. Progress(t)'
    BY <2>1, <2>4 DEF Progress, Durable
  <2> QED
    BY <1>1, <1>2, <2>1, <2>5, TaskMoves
<1>9. CASE AnswerLost(t)
  <2>1. pc[t] \in {"question", "reply", "enqueue"} /\ pc'[t] = "report" /\ faults' # 0
    BY <1>1, <1>9 DEF AnswerLost, Fault, TypeOK
  <2>2. Progress(t)'
    BY <2>1 DEF Progress
  <2> QED
    BY <1>1, <1>2, <2>1, <2>2, TaskMoves
<1> QED
  BY <1>4, <1>5, <1>6, <1>7, <1>8, <1>9

\* The next delta of the stream keeps it.
LEMMA DeltaMoves == ASSUME IInv, NEW t \in Turns, NextDelta(t) PROVE TurnInv(t)'
<1> USE DEF Goto
<1>1. TypeOK /\ TurnInv(t)
  BY DEF IInv
<1>2. PICK d \in Delta : content'[t] = Append(content[t], d)
  BY <1>1 DEF NextDelta, TypeOK
<1>3. /\ pc[t] = "stream" /\ pc'[t] = "send" /\ sequence'[t] = sequence[t] + 1
      /\ UNCHANGED <<wire, store, faults>>
  BY <1>1 DEF NextDelta, TypeOK
<1>4. /\ content[t] \in Seq(Delta) /\ Len(content[t]) \in Nat /\ Len(got[t]) \in Nat
      /\ Waiting(t) \in Nat
  BY <1>1, Lengths
<1>5. /\ Len(content'[t]) = Len(content[t]) + 1
      /\ \A i \in 1..Len(content[t]) : content'[t][i] = content[t][i]
  BY <1>2, <1>4
<1>6. Waiting(t)' = Waiting(t) /\ Closed(t)' = Closed(t) /\ ~Closed(t)
  BY <1>1, <1>3 DEF Waiting, Closed, TurnInv, Heard
<1>7. Progress(t)'
  BY <1>1, <1>3 DEF TurnInv, Progress, Asked, Question, HasReply, HasJob, Linked
<1>8. Heard(t)'
  BY <1>1, <1>3, <1>4, <1>5, <1>6 DEF TurnInv, Heard
<1>9. ASSUME client[t] = "reading" PROVE Ordered(t)'
  <2>1. Ordered(t) /\ Len(content[t]) = Len(got[t]) + Waiting(t)
    BY <1>1, <1>3, <1>9, SentIsReply DEF TurnInv
  <2>2. \A i \in DOMAIN got[t] : got[t][i] = content'[t][i]
    <3>1. DOMAIN got[t] = 1..Len(got[t])
      BY <1>1, Lengths
    <3> QED
      BY <1>4, <1>5, <2>1, <3>1 DEF Ordered
  <2>3. \A i \in 1..Waiting(t) :
           channel[t][i].type = "delta" /\ channel[t][i].delta = content'[t][Len(got[t]) + i]
    <3> SUFFICES ASSUME NEW i \in 1..Waiting(t)
                 PROVE  /\ channel[t][i].type = "delta"
                        /\ channel[t][i].delta = content'[t][Len(got[t]) + i]
      OBVIOUS
    <3>1. channel[t][i].type = "delta" /\ channel[t][i].delta = content[t][Len(got[t]) + i]
      BY <2>1, OrderedParts
    <3>2. Len(got[t]) + i \in 1..Len(content[t])
      BY <1>4, <2>1
    <3> QED
      BY <1>5, <3>1, <3>2
  <2>4. \A i \in DOMAIN channel[t] :
           channel[t][i].type # "error" => channel[t][i].sequence = Len(got[t]) + i
    BY <2>1 DEF Ordered
  <2> QED
    BY <1>3, <1>4, <1>5, <1>6, <2>1, <2>2, <2>3, <2>4 DEF Ordered
<1> QED
  BY <1>3, <1>7, <1>8, <1>9 DEF TurnInv

\* An item put behind deltas keeps the order when it is numbered after them.
LEMMA PutInOrder ==
    ASSUME IInv, NEW t \in Turns, NEW item \in Item, Put(t, item), ~Closed(t),
           client[t] = "reading", UNCHANGED <<content, messages, edges, jobs, sequence>>
    PROVE  /\ Len(channel'[t]) = Len(channel[t]) + 1 /\ Last(channel'[t]) = item /\ Waiting(t) = Len(channel[t])
           /\ channel'[t] # <<>> /\ got' = got /\ client' = client
           /\ Durable(t)' = Durable(t)
           /\ Waiting(t)' = IF item.type = "delta" THEN Waiting(t) + 1 ELSE Waiting(t)
           /\ \A i \in 1..Len(channel[t]) : channel'[t][i] = channel[t][i]
           /\ channel'[t][Len(channel[t]) + 1] = item
           /\ DOMAIN channel'[t] = 1..(Len(channel[t]) + 1) /\ Len(channel[t]) \in Nat
<1>1. TypeOK /\ channel[t] \in Seq(Item) /\ Len(channel[t]) \in Nat /\ Waiting(t) = Len(channel[t])
  BY Lengths DEF IInv
<1>2. channel'[t] = Append(channel[t], item) /\ got' = got /\ client' = client
  BY <1>1 DEF Put, TypeOK
<1>3. /\ Len(channel'[t]) = Len(channel[t]) + 1 /\ channel'[t] # <<>>
      /\ \A i \in 1..Len(channel[t]) : channel'[t][i] = channel[t][i]
      /\ channel'[t][Len(channel[t]) + 1] = item
      /\ DOMAIN channel'[t] = 1..(Len(channel[t]) + 1)
  BY <1>1, <1>2
<1>4. Last(channel'[t]) = item
  BY <1>3 DEF Last
<1>5. Waiting(t)' = IF item.type = "delta" THEN Waiting(t) + 1 ELSE Waiting(t)
  BY <1>1, <1>3, <1>4 DEF Waiting
<1>6. Durable(t)' = Durable(t)
  BY DEF Durable, Answered, Linked, Reply, Question
<1> QED
  BY <1>1, <1>2, <1>3, <1>4, <1>5, <1>6

\* A delta put into the channel keeps it.
LEMMA SendMoves == ASSUME IInv, NEW t \in Turns, SendDelta(t) PROVE TurnInv(t)'
<1> USE DEF Goto
<1> DEFINE item == [type |-> "delta", delta |-> Last(content[t]), sequence |-> sequence[t]]
<1>1. TypeOK /\ TurnInv(t)
  BY DEF IInv
<1>2. /\ pc[t] = "send" /\ pc'[t] = "stream" /\ client[t] = "reading" /\ Put(t, item)
      /\ UNCHANGED <<content, messages, edges, jobs, sequence, faults>>
  BY <1>1 DEF SendDelta, TypeOK
<1>3. ~Closed(t) /\ sequence[t] = Len(content[t]) /\ Ordered(t)
  BY <1>1, <1>2 DEF TurnInv, Heard
<1>4. /\ content[t] \in Seq(Delta) /\ Len(content[t]) \in Nat /\ Len(got[t]) \in Nat
      /\ Len(content[t]) = Len(got[t]) + Waiting(t) + 1 /\ Waiting(t) \in Nat
  BY <1>1, <1>2, <1>3, Lengths, SentIsReply
<1>5. item \in Item /\ item.type = "delta" /\ item.delta = content[t][Len(content[t])]
      /\ item.sequence = Len(content[t])
  BY <1>3, <1>4, ItemTypes DEF Last
<1> HIDE DEF item
<1>6. /\ Len(channel'[t]) = Len(channel[t]) + 1 /\ Last(channel'[t]) = item /\ Waiting(t) = Len(channel[t])
      /\ channel'[t] # <<>> /\ got' = got /\ client' = client
      /\ Waiting(t)' = Waiting(t) + 1
      /\ \A i \in 1..Len(channel[t]) : channel'[t][i] = channel[t][i]
      /\ channel'[t][Len(channel[t]) + 1] = item
      /\ DOMAIN channel'[t] = 1..(Len(channel[t]) + 1) /\ Len(channel[t]) \in Nat
  BY <1>2, <1>3, <1>5, PutInOrder
<1>11. Len(content[t]) = Len(got[t]) + Waiting(t)' /\ Len(content[t]) = Len(got[t]) + (Len(channel[t]) + 1)
  <2>1. \A a, b, c \in Nat : a = b + c + 1 => a = b + (c + 1)
    OBVIOUS
  <2>2. Waiting(t)' = Waiting(t) + 1 /\ Waiting(t) = Len(channel[t]) /\ Len(channel[t]) \in Nat
    BY <1>6, Zenon
  <2>3. /\ Len(content[t]) \in Nat /\ Len(got[t]) \in Nat /\ Waiting(t) \in Nat
        /\ Len(content[t]) = Len(got[t]) + Waiting(t) + 1
    BY <1>4, Zenon
  <2>4. Len(content[t]) = Len(got[t]) + (Waiting(t) + 1)
    BY <2>1, <2>3, Zenon
  <2> QED
    BY <2>2, <2>4, Zenon
<1>7. ~Closed(t)'
  BY <1>5, <1>6 DEF Closed
<1>8. Progress(t)'
  BY <1>1, <1>2 DEF TurnInv, Progress, Asked, Question, HasReply, HasJob, Linked
<1>9. Heard(t)'
  BY <1>1, <1>2, <1>6, <1>7 DEF TurnInv, Heard
<1>10. Ordered(t)'
  <2>1. DOMAIN channel[t] = 1..Len(channel[t])
    BY <1>1, Lengths
  <2>2. \A i \in 1..(Waiting(t) + 1) :
           channel'[t][i].type = "delta" /\ channel'[t][i].delta = content[t][Len(got[t]) + i]
    <3> SUFFICES ASSUME NEW i \in 1..(Waiting(t) + 1)
                 PROVE  /\ channel'[t][i].type = "delta"
                        /\ channel'[t][i].delta = content[t][Len(got[t]) + i]
      OBVIOUS
    <3>1. CASE i = Waiting(t) + 1
      <4>1. channel'[t][i] = item
        BY <1>6, <3>1
      <4>2. Len(got[t]) + i = Len(content[t])
        BY <1>4, <3>1
      <4> QED
        BY <1>5, <4>1, <4>2
    <3>2. CASE i \in 1..Waiting(t)
      <4>1. channel'[t][i] = channel[t][i]
        BY <1>6, <3>2
      <4> QED
        BY <1>3, <3>2, <4>1, OrderedParts
    <3> QED
      BY <1>4, <3>1, <3>2
  <2>3. \A i \in DOMAIN channel'[t] :
           channel'[t][i].type # "error" => channel'[t][i].sequence = Len(got[t]) + i
    <3> SUFFICES ASSUME NEW i \in 1..(Len(channel[t]) + 1), channel'[t][i].type # "error"
                 PROVE  channel'[t][i].sequence = Len(got[t]) + i
      BY <1>6
    <3>1. CASE i = Len(channel[t]) + 1
      <4>1. channel'[t][i].sequence = Len(content[t])
        BY <1>5, <1>6, <3>1, Zenon
      <4> QED
        BY <1>11, <3>1, <4>1, Zenon
    <3>2. CASE i \in 1..Len(channel[t])
      <4>1. channel'[t][i] = channel[t][i]
        BY <1>6, <3>2
      <4> QED
        BY <1>3, <2>1, <3>2, <4>1, OrderedParts
    <3> QED
      BY <1>6, <3>1, <3>2
  <2>4. \A i \in DOMAIN got[t] : got[t][i] = content[t][i]
    BY <1>3, OrderedParts
  <2>5. Len(content[t]) = Len(got[t]) + Waiting(t)'
    BY <1>11
  <2> QED
    BY <1>2, <1>6, <2>2, <2>3, <2>4, <2>5 DEF Ordered
<1> QED
  BY <1>8, <1>9, <1>10 DEF TurnInv

\* So do the completion marker and the error, the last item of a channel.
LEMMA LastMoves ==
    ASSUME IInv, NEW t \in Turns, SendMarker(t) \/ ReportError(t) PROVE TurnInv(t)'
<1> USE DEF Goto
<1>1. TypeOK /\ TurnInv(t)
  BY DEF IInv
<1>2. PICK item \in Item :
         /\ SendLast(t, item) /\ item.type \in {"done", "error"}
         /\ item.type = "done" => pc[t] = "marker" /\ item.sequence = sequence[t] + 1
  <2> DEFINE done == [type |-> "done", sequence |-> sequence[t] + 1]
             error == [type |-> "error"]
  <2>1. sequence[t] + 1 \in Nat
    BY <1>1 DEF TypeOK
  <2>2. done \in Item /\ error \in Item
    BY <2>1, ItemTypes
  <2>3. CASE SendMarker(t)
    <3>1. pc[t] = "marker" /\ SendLast(t, done)
      BY <2>3 DEF SendMarker
    <3>2. done.type = "done" /\ done.sequence = sequence[t] + 1
      OBVIOUS
    <3> HIDE DEF done
    <3> QED
      BY <2>2, <3>1, <3>2
  <2>4. CASE ReportError(t)
    <3>1. SendLast(t, error)
      BY <2>4 DEF ReportError
    <3>2. error.type = "error"
      OBVIOUS
    <3> HIDE DEF error
    <3> QED
      BY <2>2, <3>1, <3>2
  <2> QED
    BY <2>3, <2>4
<1>3. /\ pc[t] \in {"marker", "report"} /\ pc'[t] = "ended"
      /\ UNCHANGED <<content, messages, edges, jobs, sequence, faults>>
  BY <1>1, <1>2 DEF SendMarker, ReportError, SendLast, TypeOK
<1>4. ~Closed(t) /\ sequence[t] = Len(content[t]) /\ client[t] # "complete"
  BY <1>1, <1>3 DEF TurnInv, Heard
<1>5. Durable(t)' = Durable(t) /\ HasReply(t)' = HasReply(t) /\ HasJob(t)' = HasJob(t)
      /\ Linked(t)' = Linked(t)
  BY <1>3 DEF Durable, Answered, Linked, Reply, Question, HasReply, HasJob
<1>6. Durable(t) => HasReply(t) /\ HasJob(t) /\ Linked(t)
  <2> SUFFICES ASSUME Durable(t) PROVE HasReply(t) /\ HasJob(t) /\ Linked(t)
    OBVIOUS
  <2>1. PICK j \in DOMAIN messages : messages[j] = Reply(t)
    BY DEF Durable, Answered
  <2>2. HasReply(t)
    BY <2>1 DEF HasReply, Reply
  <2>3. [turn |-> t, content |-> content[t]] \in {job \in jobs : job.turn = t}
    BY DEF Durable
  <2> QED
    BY <2>2, <2>3 DEF HasJob, Durable
<1>7. Progress(t)'
  BY <1>1, <1>3, <1>5, <1>6 DEF TurnInv, Progress
<1>8. CASE client[t] # "reading"
  <2>1. UNCHANGED wire
    BY <1>2, <1>8 DEF SendLast
  <2>2. Closed(t)' = Closed(t)
    BY <2>1 DEF Closed
  <2> QED
    BY <1>1, <1>3, <1>4, <1>7, <1>8, <2>1, <2>2 DEF TurnInv, Heard
<1>9. CASE client[t] = "reading"
  <2>1. Put(t, item)
    BY <1>2, <1>9 DEF SendLast
  <2>2. /\ Len(content[t]) \in Nat /\ Len(got[t]) \in Nat /\ Ordered(t)
        /\ Len(content[t]) = Len(got[t]) + Waiting(t) /\ Waiting(t) \in Nat
    BY <1>1, <1>3, <1>9, Lengths, SentIsReply DEF TurnInv
  <2>3. /\ Len(channel'[t]) = Len(channel[t]) + 1 /\ Last(channel'[t]) = item
        /\ Waiting(t) = Len(channel[t])
        /\ channel'[t] # <<>> /\ got' = got /\ client' = client
        /\ Waiting(t)' = Waiting(t)
        /\ \A i \in 1..Len(channel[t]) : channel'[t][i] = channel[t][i]
        /\ channel'[t][Len(channel[t]) + 1] = item
        /\ DOMAIN channel'[t] = 1..(Len(channel[t]) + 1) /\ Len(channel[t]) \in Nat
    BY <1>2, <1>3, <1>4, <1>9, <2>1, PutInOrder
  <2>8. Waiting(t) = Len(channel[t]) /\ channel'[t][Len(channel[t]) + 1] = item
    BY <2>3, Zenon
  <2>4. Closed(t)'
    BY <1>2, <2>3 DEF Closed
  <2>5. item.type = "done" => Durable(t)
    BY <1>1, <1>2 DEF TurnInv, Progress
  <2>6. Heard(t)'
    BY <1>1, <1>3, <1>4, <1>5, <1>9, <2>2, <2>3, <2>4, <2>5 DEF TurnInv, Heard
  <2>7. Ordered(t)'
    <3>1. DOMAIN channel[t] = 1..Len(channel[t])
      BY <1>1, Lengths
    <3>2. \A i \in 1..Waiting(t) :
             channel'[t][i].type = "delta" /\ channel'[t][i].delta = content[t][Len(got[t]) + i]
      BY <2>2, <2>3 DEF Ordered
    <3>3. \A i \in DOMAIN channel'[t] :
             channel'[t][i].type # "error" => channel'[t][i].sequence = Len(got[t]) + i
      <4> SUFFICES ASSUME NEW i \in 1..(Len(channel[t]) + 1), channel'[t][i].type # "error"
                   PROVE  channel'[t][i].sequence = Len(got[t]) + i
        BY <2>3
      <4>1. CASE i = Len(channel[t]) + 1
        <5>1. item.type = "done" /\ channel'[t][i].sequence = Len(content[t]) + 1
          BY <1>2, <1>4, <2>8, <4>1
        <5>2. Len(content[t]) + 1 = Len(got[t]) + (Len(channel[t]) + 1)
          <6>1. \A a, b, c \in Nat : a = b + c => a + 1 = b + (c + 1)
            OBVIOUS
          <6>2. /\ Len(content[t]) \in Nat /\ Len(got[t]) \in Nat /\ Len(channel[t]) \in Nat
                /\ Len(content[t]) = Len(got[t]) + Len(channel[t])
            BY <2>2, <2>3, Zenon
          <6> QED
            BY <6>1, <6>2, Zenon
        <5> QED
          BY <4>1, <5>1, <5>2, Zenon
      <4>2. CASE i \in 1..Len(channel[t])
        <5>1. channel'[t][i] = channel[t][i]
          BY <2>3, <4>2
        <5> QED
          BY <2>2, <3>1, <4>2, <5>1, OrderedParts
      <4> QED
        BY <2>3, <4>1, <4>2
    <3>4. \A i \in DOMAIN got[t] : got[t][i] = content[t][i]
      BY <2>2 DEF Ordered
    <3> QED
      BY <1>3, <2>2, <2>3, <3>2, <3>3, <3>4 DEF Ordered
  <2> QED
    BY <1>7, <2>6, <2>7 DEF TurnInv
<1> QED
  BY <1>8, <1>9

-----------------------------------------------------------------------------
(* The client and the stop of the server.                                  *)

\* Reading a delta takes the first of those that wait.
LEMMA DeltaRead ==
    ASSUME TypeOK, NEW t \in Turns, Receive(t), Head(channel[t]).type = "delta"
    PROVE  /\ Len(channel'[t]) = Len(channel[t]) - 1 /\ DOMAIN channel'[t] = 1..(Len(channel[t]) - 1)
           /\ \A i \in 1..(Len(channel[t]) - 1) : channel'[t][i] = channel[t][i + 1]
           /\ Len(got'[t]) = Len(got[t]) + 1 /\ DOMAIN got'[t] = 1..(Len(got[t]) + 1)
           /\ \A i \in 1..Len(got[t]) : got'[t][i] = got[t][i]
           /\ got'[t][Len(got[t]) + 1] = channel[t][1].delta
           /\ channel[t][1].type = "delta" /\ Len(channel[t]) \in Nat \ {0} /\ Len(got[t]) \in Nat
           /\ Closed(t)' = Closed(t) /\ Waiting(t)' = Waiting(t) - 1 /\ Waiting(t) \in Nat \ {0}
           /\ Closed(t) => Last(channel'[t]) = Last(channel[t])
           /\ UNCHANGED <<task, store, faults, client>>
<1>1. /\ channel[t] \in Seq(Item) /\ channel[t] # <<>> /\ got[t] \in Seq(Delta)
      /\ Len(channel[t]) \in Nat \ {0} /\ Len(got[t]) \in Nat
  BY Lengths DEF Receive
<1>2. /\ got'[t] = Append(got[t], Head(channel[t]).delta) /\ channel'[t] = Tail(channel[t])
      /\ UNCHANGED <<task, store, faults, client>>
  BY DEF Receive, TypeOK
<1>3. Head(channel[t]) = channel[t][1]
  BY <1>1
<1>4. /\ Len(channel'[t]) = Len(channel[t]) - 1 /\ DOMAIN channel'[t] = 1..(Len(channel[t]) - 1)
      /\ \A i \in 1..(Len(channel[t]) - 1) : channel'[t][i] = channel[t][i + 1]
  BY <1>1, <1>2
<1>5. /\ Len(got'[t]) = Len(got[t]) + 1 /\ DOMAIN got'[t] = 1..(Len(got[t]) + 1)
      /\ \A i \in 1..Len(got[t]) : got'[t][i] = got[t][i]
      /\ got'[t][Len(got[t]) + 1] = channel[t][1].delta
  <2> DEFINE d == Head(channel[t]).delta
  <2>1. d \in Delta
    BY <1>1, ItemTypes
  <2> HIDE DEF d
  <2>2. got'[t] = Append(got[t], d)
    BY <1>2 DEF d
  <2>3. /\ Len(got'[t]) = Len(got[t]) + 1 /\ DOMAIN got'[t] = 1..(Len(got[t]) + 1)
        /\ \A i \in 1..Len(got[t]) : got'[t][i] = got[t][i]
        /\ got'[t][Len(got[t]) + 1] = d
    BY <1>1, <2>1, <2>2
  <2> QED
    BY <1>3, <2>3 DEF d
<1>6. Len(channel[t]) # 1 => Last(channel'[t]) = Last(channel[t]) /\ channel'[t] # <<>>
  <2> SUFFICES ASSUME Len(channel[t]) # 1
               PROVE  Last(channel'[t]) = Last(channel[t]) /\ channel'[t] # <<>>
    OBVIOUS
  <2>1. Len(channel[t]) - 1 \in 1..(Len(channel[t]) - 1) /\ Len(channel[t]) - 1 + 1 = Len(channel[t])
    <3>1. \A n \in Nat \ {0} : n # 1 => n - 1 \in 1..(n - 1) /\ n - 1 + 1 = n
      OBVIOUS
    <3>2. Len(channel[t]) \in Nat \ {0}
      BY <1>1, Zenon
    <3> QED
      BY <3>1, <3>2, Zenon
  <2>2. channel'[t][Len(channel[t]) - 1] = channel[t][Len(channel[t]) - 1 + 1]
    BY <1>4, <2>1, Zenon
  <2>3. Last(channel'[t]) = channel'[t][Len(channel[t]) - 1]
    BY <1>4, Zenon DEF Last
  <2>4. Last(channel'[t]) = Last(channel[t])
    BY <2>1, <2>2, <2>3, Zenon DEF Last
  <2>5. Len(channel'[t]) # 0
    BY <1>1, <1>4
  <2> QED
    BY <2>4, <2>5
<1>7. Len(channel[t]) = 1 => channel'[t] = <<>> /\ ~Closed(t)
  BY <1>1, <1>2, <1>3, <1>4 DEF Last, Closed
<1>8. Closed(t)' = Closed(t) /\ (Closed(t) => Last(channel'[t]) = Last(channel[t]))
  BY <1>1, <1>6, <1>7 DEF Closed
<1>9. Waiting(t) = IF Closed(t) THEN Len(channel[t]) - 1 ELSE Len(channel[t])
  BY Lengths
<1>10. Waiting(t)' = IF Closed(t)' THEN Len(channel'[t]) - 1 ELSE Len(channel'[t])
  BY DEF Waiting, Closed
<1>11. Waiting(t)' = Waiting(t) - 1 /\ Waiting(t) \in Nat \ {0}
  BY <1>1, <1>4, <1>7, <1>8, <1>9, <1>10
<1> QED
  BY <1>1, <1>2, <1>3, <1>4, <1>5, <1>8, <1>11

\* An item read by the client keeps it.
LEMMA ReceiveMoves == ASSUME IInv, NEW t \in Turns, Receive(t) PROVE TurnInv(t)'
<1>1. TypeOK /\ TurnInv(t) /\ client[t] = "reading"
  BY DEF IInv, Receive
<1>2. UNCHANGED <<task, store, faults>>
  BY DEF Receive
<1>3. /\ Untouched(t)' = Untouched(t) /\ Asked(t)' = Asked(t) /\ Answered(t)' = Answered(t)
      /\ HasReply(t)' = HasReply(t) /\ Linked(t)' = Linked(t) /\ HasJob(t)' = HasJob(t)
      /\ Durable(t)' = Durable(t)
  BY <1>2 DEF Untouched, Asked, Answered, HasReply, Linked, HasJob, Durable, Reply, Question
<1>4. Progress(t)'
  BY <1>1, <1>2, <1>3 DEF TurnInv, Progress
<1>5. Ordered(t)
  BY <1>1 DEF TurnInv
<1>6. CASE Head(channel[t]).type = "delta"
  <2>1. /\ Len(channel'[t]) = Len(channel[t]) - 1 /\ DOMAIN channel'[t] = 1..(Len(channel[t]) - 1)
        /\ \A i \in 1..(Len(channel[t]) - 1) : channel'[t][i] = channel[t][i + 1]
        /\ Len(got'[t]) = Len(got[t]) + 1 /\ DOMAIN got'[t] = 1..(Len(got[t]) + 1)
        /\ \A i \in 1..Len(got[t]) : got'[t][i] = got[t][i]
        /\ got'[t][Len(got[t]) + 1] = channel[t][1].delta
        /\ channel[t][1].type = "delta" /\ Len(channel[t]) \in Nat \ {0} /\ Len(got[t]) \in Nat
        /\ Closed(t)' = Closed(t) /\ Waiting(t)' = Waiting(t) - 1 /\ Waiting(t) \in Nat \ {0}
        /\ Closed(t) => Last(channel'[t]) = Last(channel[t])
        /\ UNCHANGED <<task, store, faults, client>>
    BY <1>1, <1>6, DeltaRead
  <2>2. Len(got[t]) + Waiting(t) = Len(got'[t]) + Waiting(t)'
    BY <2>1
  <2>8. ASSUME NEW i \in Int PROVE Len(got[t]) + (i + 1) = Len(got'[t]) + i
    <3>1. \A a, b \in Int : a + (b + 1) = (a + 1) + b
      OBVIOUS
    <3>2. Len(got[t]) \in Int /\ Len(got'[t]) = Len(got[t]) + 1
      BY <2>1
    <3> QED
      BY <3>1, <3>2, Zenon
  <2>3. Heard(t)'
    BY <1>1, <1>2, <1>3, <2>1, <2>2 DEF TurnInv, Heard
  <2>4. \A i \in DOMAIN got'[t] : got'[t][i] = content[t][i]
    <3>1. ASSUME NEW i \in 1..Len(got[t]) PROVE got'[t][i] = content[t][i]
      <4>1. DOMAIN got[t] = 1..Len(got[t])
        BY <1>1, Lengths
      <4> QED
        BY <1>5, <2>1, <3>1, <4>1, OrderedParts
    <3>2. got'[t][Len(got[t]) + 1] = content[t][Len(got[t]) + 1]
      <4>1. 1 \in 1..Waiting(t)
        BY <2>1
      <4>2. channel[t][1].delta = content[t][Len(got[t]) + 1]
        BY <1>5, <4>1, OrderedParts
      <4> QED
        BY <2>1, <4>2, Zenon
    <3> QED
      BY <2>1, <3>1, <3>2
  <2>5. ASSUME NEW i \in 1..Waiting(t)'
        PROVE  /\ channel'[t][i].type = "delta"
               /\ channel'[t][i].delta = content[t][Len(got'[t]) + i]
    <3>1. i + 1 \in 1..Waiting(t) /\ i \in 1..(Len(channel[t]) - 1) /\ i \in Int
      BY <1>1, <2>1, Lengths
    <3>2. channel[t][i + 1].type = "delta" /\ channel[t][i + 1].delta = content[t][Len(got[t]) + (i + 1)]
      BY <1>5, <3>1, OrderedParts
    <3>3. Len(got[t]) + (i + 1) = Len(got'[t]) + i
      BY <2>8, <3>1, Zenon
    <3> QED
      BY <2>1, <3>1, <3>2, <3>3
  <2>6. ASSUME NEW i \in DOMAIN channel'[t], channel'[t][i].type # "error"
        PROVE  channel'[t][i].sequence = Len(got'[t]) + i
    <3>1. i + 1 \in DOMAIN channel[t] /\ i \in 1..(Len(channel[t]) - 1) /\ i \in Int
      BY <1>1, <2>1, Lengths
    <3>2. channel'[t][i] = channel[t][i + 1]
      BY <2>1, <3>1
    <3>3. channel[t][i + 1].sequence = Len(got[t]) + (i + 1)
      BY <1>5, <2>6, <3>1, <3>2, OrderedParts
    <3>4. Len(got[t]) + (i + 1) = Len(got'[t]) + i
      BY <2>8, <3>1, Zenon
    <3> QED
      BY <3>2, <3>3, <3>4
  <2>7. Ordered(t)'
    BY <1>2, <1>5, <2>1, <2>2, <2>4, <2>5, <2>6 DEF Ordered
  <2> QED
    BY <1>4, <2>3, <2>7 DEF TurnInv
<1>7. CASE Head(channel[t]).type \in {"done", "error"}
  <2>1. /\ client'[t] = IF Head(channel[t]).type = "done" THEN "complete" ELSE "failed"
        /\ channel'[t] = <<>> /\ got' = got
    BY <1>1, <1>7 DEF Receive, TypeOK
  <2>2. channel[t] \in Seq(Item) /\ Len(channel[t]) \in Nat \ {0} /\ Head(channel[t]) = channel[t][1]
    BY <1>1, Lengths DEF Receive
  <2>3. Waiting(t) = 0 /\ Closed(t) /\ Last(channel[t]) = Head(channel[t])
    <3>1. ~(1 \in 1..Waiting(t))
      BY <1>5, <1>7, <2>2, OrderedParts
    <3>2. Waiting(t) \in Nat /\ Waiting(t) = IF Closed(t) THEN Len(channel[t]) - 1 ELSE Len(channel[t])
      BY <1>1, Lengths
    <3>3. Waiting(t) = 0
      <4>1. \A n \in Nat : ~(1 \in 1..n) => n = 0
        OBVIOUS
      <4> QED
        BY <3>1, <3>2, <4>1, Zenon
    <3>4. Closed(t) /\ Len(channel[t]) = 1
      BY <2>2, <3>2, <3>3
    <3> QED
      BY <2>2, <3>3, <3>4, Zenon DEF Last
  <2>4. pc[t] = "ended"
    BY <1>1, <2>3 DEF TurnInv, Heard
  <2>5. Head(channel[t]).type = "done" => Durable(t) /\ got[t] = content[t]
    <3>1. Head(channel[t]).type = "done" => Durable(t) /\ Len(content[t]) = Len(got[t]) + Waiting(t)
      BY <1>1, <2>3 DEF TurnInv, Heard
    <3>2. got[t] \in Seq(Delta) /\ content[t] \in Seq(Delta)
      BY <1>1, Lengths
    <3>3. \A i \in DOMAIN got[t] : got[t][i] = content[t][i]
      BY <1>5, OrderedParts
    <3>4. Len(content[t]) = Len(got[t]) => got[t] = content[t]
      BY <3>2, <3>3
    <3> QED
      BY <2>3, <3>1, <3>2, <3>4
  <2>6. ~Closed(t)'
    BY <2>1 DEF Closed
  <2>7. Heard(t)'
    BY <1>1, <1>2, <1>3, <2>1, <2>4, <2>5, <2>6 DEF TurnInv, Heard
  <2> QED
    BY <1>4, <2>1, <2>7 DEF TurnInv
<1> QED
  BY <1>6, <1>7 DEF Receive

\* The client that has read the end of the stream, or that leaves, keeps it.
LEMMA ClientMoves ==
    ASSUME IInv, NEW t \in Turns, EndOfReplies(t) \/ Leave(t) PROVE TurnInv(t)'
<1>1. TypeOK /\ TurnInv(t) /\ client[t] = "reading"
  BY DEF IInv, EndOfReplies, Leave
<1>2. UNCHANGED <<task, got, store, faults>> /\ channel'[t] = <<>>
  BY <1>1 DEF EndOfReplies, Leave, TypeOK
<1>3. /\ Untouched(t)' = Untouched(t) /\ Asked(t)' = Asked(t) /\ Answered(t)' = Answered(t)
      /\ HasReply(t)' = HasReply(t) /\ Linked(t)' = Linked(t) /\ HasJob(t)' = HasJob(t)
      /\ Durable(t)' = Durable(t)
  BY <1>2 DEF Untouched, Asked, Answered, HasReply, Linked, HasJob, Durable, Reply, Question
<1>4. Progress(t)'
  BY <1>1, <1>2, <1>3 DEF TurnInv, Progress
<1>5. ~Closed(t)'
  BY <1>2 DEF Closed
<1>6. client'[t] \in {"cut_off", "gone"} /\ (client'[t] = "cut_off" => channel[t] = <<>> /\ pc[t] = "ended")
  BY <1>1 DEF EndOfReplies, Leave, TypeOK
<1>7. client'[t] = "cut_off" => faults # 0
  BY <1>1, <1>6 DEF TurnInv, Heard, Closed
<1>8. Heard(t)'
  BY <1>1, <1>2, <1>5, <1>6, <1>7 DEF TurnInv, Heard
<1> QED
  BY <1>4, <1>6, <1>8 DEF TurnInv

\* The server that stops ends every task and keeps it.
LEMMA StopMoves == ASSUME IInv, NEW t \in Turns, ServerStops PROVE TurnInv(t)'
<1>1. TypeOK /\ TurnInv(t)
  BY DEF IInv
<1>2. /\ UNCHANGED <<kind, content, sequence, client, got, store>> /\ channel'[t] = <<>>
      /\ pc'[t] = IF pc[t] = "idle" THEN "idle" ELSE "ended"
      /\ faults' # 0
  BY <1>1 DEF ServerStops, Fault, TypeOK
<1>3. /\ Untouched(t)' = Untouched(t) /\ Linked(t)' = Linked(t) /\ HasJob(t)' = HasJob(t)
      /\ Durable(t)' = Durable(t)
  BY <1>2 DEF Untouched, Answered, Linked, HasJob, Durable, Reply, Question
<1>4. Progress(t)'
  BY <1>1, <1>2, <1>3 DEF TurnInv, Progress
<1>5. ~Closed(t)' /\ Waiting(t)' = 0 /\ DOMAIN channel'[t] = {}
  BY <1>2 DEF Closed, Waiting
<1>6. Heard(t)'
  BY <1>1, <1>2, <1>3, <1>5 DEF TurnInv, Heard
<1>7. ASSUME client[t] = "reading" PROVE Ordered(t)'
  <2>1. pc'[t] = "ended"
    BY <1>1, <1>2, <1>7 DEF TurnInv, Heard
  <2>2. /\ Len(got[t]) \in Nat /\ Len(content[t]) \in Nat /\ Waiting(t) \in Nat
        /\ Len(got[t]) + Waiting(t) <= Len(content[t])
    BY <1>1, <1>7, Lengths, SentIsReply DEF TurnInv
  <2>3. Len(content[t]) >= Len(got[t]) + 0
    BY <2>2
  <2>4. \A i \in DOMAIN got[t] : got[t][i] = content[t][i]
    BY <1>1, <1>7, OrderedParts DEF TurnInv
  <2> QED
    BY <1>2, <1>5, <2>1, <2>3, <2>4 DEF Ordered
<1> QED
  BY <1>2, <1>4, <1>6, <1>7 DEF TurnInv

\* The inductive invariant is kept by every step.
LEMMA NextIInv == IInv /\ [Next]_vars => IInv'
<1> SUFFICES ASSUME IInv, [Next]_vars PROVE IInv'
  OBVIOUS
<1>1. TypeOK /\ TypeOK'
  BY NextTypeOK DEF IInv
<1>2. ASSUME NEW t \in Turns,
             \/ Request(t) \/ TaskStep(t) \/ ClientReads(t) \/ Leave(t) \/ CallFails(t)
             \/ AnswerLost(t)
      PROVE  \A u \in Turns : TurnInv(u)'
  <2>1. TurnInv(t)'
    BY <1>2, RequestMoves, QuietMoves, StoreMoves, DeltaMoves, SendMoves, LastMoves, ReceiveMoves,
       ClientMoves DEF TaskStep, ClientReads
  <2>2. ASSUME NEW u \in Turns, u # t PROVE TurnInv(u)'
    BY <1>1, <1>2, <2>2, StepOfOne, Frame DEF IInv
  <2> QED
    BY <2>1, <2>2
<1>3. CASE ServerStops
  BY <1>1, <1>3, StopMoves DEF IInv
<1>4. CASE UNCHANGED vars
  <2>1. ASSUME NEW t \in Turns PROVE TurnInv(t)'
    <3>1. /\ Untouched(t)' = Untouched(t) /\ Asked(t)' = Asked(t) /\ Answered(t)' = Answered(t)
          /\ HasReply(t)' = HasReply(t) /\ Linked(t)' = Linked(t) /\ HasJob(t)' = HasJob(t)
          /\ Durable(t)' = Durable(t) /\ Closed(t)' = Closed(t) /\ Waiting(t)' = Waiting(t)
      BY <1>4 DEF Untouched, Asked, Answered, HasReply, Linked, HasJob, Durable, Reply, Question,
                  Closed, Waiting
    <3>2. TurnInv(t)
      BY DEF IInv
    <3> QED
      BY <1>4, <3>1, <3>2 DEF TurnInv, Progress, Heard, Ordered
  <2> QED
    BY <1>1, <2>1 DEF IInv
<1> QED
  BY <1>1, <1>2, <1>3, <1>4 DEF Next, IInv

\* The inductive invariant: what the store holds of a turn follows how far its
\* task is, and the wire holds the rest of what the client has read.
THEOREM Inductive == Spec => []IInv
  BY InitIInv, NextIInv, PTL DEF Spec

-----------------------------------------------------------------------------
(* What the invariant is for.                                              *)

\* A client that has read the marker has read the whole reply, and the store holds
\* the question, that reply, its edge and one job that carries it; and without a
\* fault a turn that has ended has its reply with its edge and job, or none of it.
THEOREM StoredWholeHolds == Spec => []StoredWhole
<1>1. IInv => StoredWhole
  <2> SUFFICES ASSUME IInv PROVE StoredWhole
    OBVIOUS
  <2>1. CompleteMeansDurable
    <3> SUFFICES ASSUME NEW t \in Turns, client[t] = "complete"
                 PROVE  /\ got[t] = content[t]
                        /\ \E i, j \in DOMAIN messages :
                              i < j /\ messages[i] = Question(t) /\ messages[j] = Reply(t)
                        /\ <<t, "assistant">> \in edges
                        /\ {job \in jobs : job.turn = t} = {[turn |-> t, content |-> got[t]]}
      BY DEF CompleteMeansDurable
    <3>1. got[t] = content[t] /\ Durable(t)
      BY DEF IInv, TurnInv, Heard
    <3> QED
      BY <3>1 DEF Durable, Answered, Linked
  <2>2. AllOrNothing
    BY DEF IInv, TurnInv, Progress, Linked, AllOrNothing
  <2> QED
    BY <2>1, <2>2 DEF StoredWhole
<1> QED
  BY <1>1, Inductive, PTL

\* Whatever the capacity of the channel, the deltas reach the client complete, in
\* order and rightly numbered, and without a fault no stream ends in silence.
THEOREM ToldTheTruthHolds == Spec => []ToldTheTruth
<1>1. IInv => ToldTheTruth
  BY DEF IInv, TurnInv, Heard, ToldTheTruth, InOrder, NoSilentEnd
<1> QED
  BY <1>1, Inductive, PTL

-----------------------------------------------------------------------------
(* The refinement of TurnPromise.                                          *)

\* How far a turn has come in the store, by the rows there are.
LEMMA StoredAs ==
    ASSUME NEW t
    PROVE  /\ Untouched(t) /\ ~HasJob(t) => Stored(t) = "nothing"
           /\ ~Untouched(t) /\ ~HasReply(t) /\ ~HasJob(t) => Stored(t) = "question"
           /\ HasReply(t) /\ ~HasJob(t) => Stored(t) = "reply"
           /\ HasJob(t) => Stored(t) = "job"
           /\ HasReply(t) => ~Untouched(t)
  BY DEF Stored, Untouched, HasReply

\* A step of one turn shows in the promise only as a step of that turn.
LEMMA PromiseOfOne ==
    ASSUME IInv, NEW t \in Turns,
           \/ Request(t) \/ TaskStep(t) \/ ClientReads(t) \/ Leave(t) \/ CallFails(t)
           \/ AnswerLost(t)
    PROVE  /\ [u \in Turns |-> Stored(u)]' = [[u \in Turns |-> Stored(u)] EXCEPT ![t] = Stored(t)']
           /\ [u \in Turns |-> Told(u)]' = [[u \in Turns |-> Told(u)] EXCEPT ![t] = Told(t)']
<1>1. ASSUME NEW u \in Turns \ {t} PROVE Stored(u)' = Stored(u) /\ Told(u)' = Told(u)
  <2>1. Still(u) /\ Adds(t) /\ TypeOK
    BY StepOfOne DEF IInv
  <2>2. Untouched(u)' = Untouched(u) /\ HasReply(u)' = HasReply(u) /\ HasJob(u)' = HasJob(u)
    BY <2>1, RowsOfOthers
  <2> QED
    BY <2>1, <2>2 DEF Stored, Untouched, Told, Still
<1> QED
  BY <1>1

\* The store's promise of a turn moves on by one row at a time, in order.
LEMMA StoredSteps ==
    ASSUME IInv, NEW t \in Turns, StoreQuestion(t) \/ StoreReply(t) \/ EnqueueJob(t) \/ AnswerLost(t)
    PROVE  /\ \/ Stored(t) = "nothing" /\ Stored(t)' = "question"
              \/ Stored(t) = "question" /\ Stored(t)' = "reply"
              \/ Stored(t) = "reply" /\ Stored(t)' = "job"
           /\ UNCHANGED client
<1> USE DEF Goto
<1>1. TypeOK /\ Progress(t) /\ content[t] \in Contents /\ <<>> \in Contents
  BY EmptyContents DEF IInv, TurnInv, TypeOK
<1>2. UNCHANGED client
  BY DEF StoreQuestion, StoreReply, EnqueueJob, AnswerLost
<1>3. ASSUME pc[t] = "question", CreateMessage(t, "user", <<>>), UNCHANGED jobs
      PROVE  Stored(t) = "nothing" /\ Stored(t)' = "question"
  <2>1. Untouched(t) /\ ~HasJob(t)
    BY <1>1, <1>3 DEF Progress
  <2>2. Question(t) \in Message /\ messages' = Append(messages, Question(t))
    BY <1>1, <1>3 DEF CreateMessage, Question, Message
  <2>3. ~Untouched(t)' /\ ~HasReply(t)' /\ ~HasJob(t)'
    BY <1>1, <1>3, <2>1, <2>2, MessageAppended DEF Untouched, HasReply, HasJob, Question
  <2> QED
    BY <2>1, <2>3, StoredAs DEF Stored, Untouched
<1>4. ASSUME pc[t] = "reply", CreateMessage(t, "assistant", content[t]), UNCHANGED jobs
      PROVE  Stored(t) = "question" /\ Stored(t)' = "reply"
  <2>1. Asked(t) /\ ~HasReply(t) /\ ~HasJob(t)
    BY <1>1, <1>4 DEF Progress
  <2>2. Reply(t) \in Message /\ messages' = Append(messages, Reply(t))
    BY <1>1, <1>4 DEF CreateMessage, Reply, Message
  <2>3. HasReply(t)' /\ ~HasJob(t)'
    BY <1>1, <1>4, <2>1, <2>2, MessageAppended DEF HasReply, HasJob, Reply
  <2>4. ~Untouched(t)
    BY <2>1 DEF Untouched, Asked, Question
  <2> QED
    BY <2>1, <2>3, <2>4, StoredAs DEF Stored
<1>5. ASSUME pc[t] = "enqueue", CreateJob(t), UNCHANGED messages
      PROVE  Stored(t) = "reply" /\ Stored(t)' = "job"
  <2>1. Answered(t) /\ ~HasJob(t)
    BY <1>1, <1>5 DEF Progress
  <2>2. HasReply(t)
    BY <2>1 DEF Answered, HasReply, Reply
  <2>3. HasJob(t)'
    <3> DEFINE job == [turn |-> t, content |-> content[t]]
    <3>1. job \in jobs' /\ job.turn = t
      BY <1>5 DEF CreateJob
    <3> HIDE DEF job
    <3> QED
      BY <3>1 DEF HasJob
  <2> QED
    BY <2>1, <2>2, <2>3, StoredAs DEF Stored
<1> QED
  BY <1>2, <1>3, <1>4, <1>5 DEF StoreQuestion, StoreReply, EnqueueJob, AnswerLost

\* That does not change while the rows do not.
LEMMA StoredStays ==
    ASSUME NEW t \in Turns, UNCHANGED <<messages, jobs>> PROVE Stored(t)' = Stored(t)
  BY DEF Stored, HasJob, HasReply

\* The split writes and the channel keep the promise that TurnPromise states as if a
\* turn wrote its rows, and told its client, in single steps.
THEOREM TurnKeepsPromise == Spec => KeepsPromise
<1>1. Init => Promise!Init
  <2> SUFFICES ASSUME Init, NEW t \in Turns PROVE Stored(t) = "nothing" /\ Told(t) = "nothing"
    BY DEF Promise!Init
  <2> QED
    BY DEF Init, Stored, Told, HasJob, HasReply
<1>2. IInv /\ [Next]_vars => [Promise!Next]_(Promise!promiseVars)
  <2> SUFFICES ASSUME IInv, [Next]_vars PROVE Promise!Next \/ UNCHANGED Promise!promiseVars
    OBVIOUS
  <2> DEFINE stored == [u \in Turns |-> Stored(u)]
             told == [u \in Turns |-> Told(u)]
  <2>1. ASSUME NEW t \in Turns, StoreQuestion(t) \/ StoreReply(t) \/ EnqueueJob(t) \/ AnswerLost(t)
        PROVE  Promise!Next
    <3>1. /\ \/ Stored(t) = "nothing" /\ Stored(t)' = "question"
             \/ Stored(t) = "question" /\ Stored(t)' = "reply"
             \/ Stored(t) = "reply" /\ Stored(t)' = "job"
          /\ UNCHANGED client
      BY <2>1, StoredSteps
    <3>2. stored' = [stored EXCEPT ![t] = Stored(t)'] /\ told' = told
      BY <2>1, <3>1, PromiseOfOne DEF TaskStep, Told
    <3> QED
      BY <3>1, <3>2 DEF Promise!Next, Promise!Store
  <2>2. ASSUME NEW t \in Turns, Receive(t) \/ EndOfReplies(t) \/ Leave(t)
        PROVE  Promise!Next \/ UNCHANGED Promise!promiseVars
    <3>1. UNCHANGED <<messages, jobs>> /\ client[t] = "reading" /\ TypeOK
      BY <2>2 DEF Receive, EndOfReplies, Leave, IInv
    <3>2. stored' = stored /\ told' = [told EXCEPT ![t] = Told(t)']
      BY <2>2, <3>1, PromiseOfOne, StoredStays DEF ClientReads
    <3>3. Told(t) = "nothing"
      BY <3>1 DEF Told
    <3>4. client'[t] \in {"reading", "complete", "failed", "cut_off", "gone"}
      BY <2>2, <3>1 DEF Receive, EndOfReplies, Leave, TypeOK
    <3>5. CASE client'[t] = "reading"
      <4>1. Told(t)' = "nothing"
        BY <3>5 DEF Told
      <4> QED
        BY <3>2, <3>3, <4>1 DEF Promise!promiseVars
    <3>6. CASE client'[t] = "complete"
      <4>1. Told(t)' = "complete"
        BY <3>6 DEF Told
      <4>2. Durable(t)'
        BY <3>6, NextIInv DEF IInv, TurnInv, Heard
      <4>3. HasJob(t)'
        <5>1. [turn |-> t, content |-> content'[t]] \in {job \in jobs' : job.turn = t}
          BY <4>2 DEF Durable
        <5> QED
          BY <5>1 DEF HasJob
      <4>4. Stored(t) = "job"
        BY <3>1, <4>3 DEF Stored, HasJob
      <4> QED
        BY <3>2, <3>3, <4>1, <4>4 DEF Promise!Next, Promise!Complete
    <3>7. CASE client'[t] \in {"failed", "cut_off", "gone"}
      <4>1. Told(t)' = "failure"
        BY <3>7 DEF Told
      <4> QED
        BY <3>2, <3>3, <4>1 DEF Promise!Next, Promise!Fail
    <3> QED
      BY <3>4, <3>5, <3>6, <3>7
  <2>3. ASSUME UNCHANGED <<messages, jobs>>, \A t \in Turns : Told(t)' = Told(t)
        PROVE  UNCHANGED Promise!promiseVars
    BY <2>3, StoredStays DEF Promise!promiseVars
  <2>4. ASSUME NEW t \in Turns, Request(t)
        PROVE  UNCHANGED <<messages, jobs>> /\ \A u \in Turns : Told(u)' = Told(u)
    <3>1. client[t] = "idle" /\ client' = [client EXCEPT ![t] = "reading"] /\ TypeOK
      BY <2>4 DEF Request, Goto, IInv, TurnInv, Heard
    <3> QED
      BY <2>4, <3>1 DEF Request, Told, TypeOK
  <2>5. ASSUME NEW t \in Turns,
               \/ Admit(t) \/ LinkQuestion(t) \/ OpenStream(t) \/ NextDelta(t) \/ SendDelta(t)
               \/ ReceiverGone(t) \/ EndOfStream(t) \/ LinkReply(t) \/ SendMarker(t)
               \/ ReportError(t) \/ CallFails(t)
        PROVE  UNCHANGED <<messages, jobs, client>>
    BY <2>5 DEF Admit, LinkQuestion, OpenStream, NextDelta, SendDelta, Put, ReceiverGone, EndOfStream,
                LinkReply, SendMarker, ReportError, SendLast, CallFails
  <2>6. UNCHANGED client => \A t \in Turns : Told(t)' = Told(t)
    BY DEF Told
  <2>7. CASE ServerStops \/ UNCHANGED vars
    <3>1. UNCHANGED <<messages, jobs, client>>
      BY <2>7 DEF ServerStops
    <3> QED
      BY <2>3, <2>6, <3>1
  <2> QED
    BY <2>1, <2>2, <2>3, <2>4, <2>5, <2>6, <2>7 DEF Next, TaskStep, ClientReads
<1> QED
  BY <1>1, <1>2, Inductive, PTL DEF Spec, KeepsPromise, Promise!Spec
=============================================================================
