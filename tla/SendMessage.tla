---------------------------- MODULE SendMessage -----------------------------
(***************************************************************************)
(* A turn of a chat session: the spawned task of SessionService.           *)
(* SendMessage (server/src/api/grpc), the bounded channel to the gRPC      *)
(* stream, and the client that reads the stream to its completion marker   *)
(* (cli/src/commands/session.rs).  Every store or LLM call is a step.      *)
(* Turns run concurrently: the server puts no order on the requests of a   *)
(* session.  A fault is a call that returns an error, with or without its  *)
(* effect, or a stop of the server.                                        *)
(***************************************************************************)
EXTENDS Naturals, Sequences, SequencesExt

CONSTANTS
  Turns,       \* the SendMessage requests
  Capacity,    \* of the reply channel: mpsc::channel(16)
  MaxDeltas,   \* bound: deltas of one LLM reply
  MaxFaults    \* bound: faults

ASSUME SendMessageAssumption ==
  /\ Capacity \in Nat \ {0}
  /\ MaxDeltas \in Nat
  /\ MaxFaults \in Nat

VARIABLES
  pc,          \* where the task of each turn is
  kind,        \* the request: content that is blank, a session not owned, or a valid one
  content,     \* assistant_content so far, a sequence of deltas
  sequence,    \* the number of deltas handed to the channel
  channel,     \* what the channel holds
  client,      \* the reader of the stream
  got,         \* the deltas it has read
  messages,    \* table message of the session, by created_at
  edges,       \* message_in_session edges, by message
  jobs,        \* memory jobs enqueued
  faults       \* faults so far

task  == <<pc, kind, content, sequence>>
wire  == <<channel, client, got>>
store == <<messages, edges, jobs>>
vars  == <<pc, kind, content, sequence, channel, client, got, messages, edges, jobs, faults>>

\* A delta is never the empty string, but it may be white space.
Delta == {"text", "blank"}

Contents == BoundedSeq(Delta, MaxDeltas)

Message == [turn : Turns, role : {"user", "assistant"}, content : Contents]

\* What travels on the channel: a delta or the marker, numbered, or an error.
Item == [type : {"delta"}, delta : Delta, sequence : Nat]
          \cup [type : {"done"}, sequence : Nat] \cup [type : {"error"}]

IsBlank(c) == \A i \in DOMAIN c : c[i] = "blank"

Init ==
  /\ pc = [t \in Turns |-> "idle"]
  /\ kind = [t \in Turns |-> "valid"]
  /\ content = [t \in Turns |-> <<>>]
  /\ sequence = [t \in Turns |-> 0]
  /\ channel = [t \in Turns |-> <<>>]
  /\ client = [t \in Turns |-> "idle"]
  /\ got = [t \in Turns |-> <<>>]
  /\ messages = <<>>
  /\ edges = {}
  /\ jobs = {}
  /\ faults = 0

Goto(t, from, to) == pc[t] = from /\ pc' = [pc EXCEPT ![t] = to]

-----------------------------------------------------------------------------
(* The task.                                                               *)

\* The client sends its request and the handler spawns the task.
Request(t) ==
  /\ Goto(t, "idle", "received")
  /\ \E k \in {"valid", "blank", "denied"} : kind' = [kind EXCEPT ![t] = k]
  /\ client' = [client EXCEPT ![t] = "reading"]
  /\ UNCHANGED <<content, sequence, channel, got, store, faults>>

\* The content check, then require_owned_session and get_game.
Admit(t) ==
  /\ Goto(t, "received", IF kind[t] = "valid" THEN "question" ELSE "report")
  /\ UNCHANGED <<kind, content, sequence, wire, store, faults>>

\* append_message creates the row, then upserts its edge to the session.
CreateMessage(t, role, c) ==
  messages' = Append(messages, [turn |-> t, role |-> role, content |-> c])

StoreQuestion(t) ==
  /\ Goto(t, "question", "question_edge")
  /\ CreateMessage(t, "user", <<>>)
  /\ UNCHANGED <<kind, content, sequence, wire, edges, jobs, faults>>

LinkQuestion(t) ==
  /\ Goto(t, "question_edge", "context")
  /\ edges' = edges \cup {<<t, "user">>}
  /\ UNCHANGED <<kind, content, sequence, wire, messages, jobs, faults>>

\* build_context_for_turn, which only reads, and stream_chat.
OpenStream(t) ==
  /\ Goto(t, "context", "stream")
  /\ UNCHANGED <<kind, content, sequence, wire, store, faults>>

NextDelta(t) ==
  /\ Goto(t, "stream", "send")
  /\ Len(content[t]) < MaxDeltas
  /\ \E d \in Delta : content' = [content EXCEPT ![t] = Append(@, d)]
  /\ sequence' = [sequence EXCEPT ![t] = @ + 1]
  /\ UNCHANGED <<kind, wire, store, faults>>

\* tx.send waits for room while the receiver is there.
Put(t, item) ==
  /\ Len(channel[t]) < Capacity
  /\ channel' = [channel EXCEPT ![t] = Append(@, item)]
  /\ UNCHANGED <<client, got>>

\* Mutant of SendDelta: try_send, which drops the delta when the channel is full.
SendDeltaOrDrop(t) ==
  /\ Goto(t, "send", "stream")
  /\ client[t] = "reading"
  /\ \/ Put(t, [type |-> "delta", delta |-> Last(content[t]), sequence |-> sequence[t]])
     \/ Len(channel[t]) = Capacity /\ UNCHANGED wire
  /\ UNCHANGED <<kind, content, sequence, store, faults>>

SendDelta(t) ==
  /\ Goto(t, "send", "stream")
  /\ client[t] = "reading"
  /\ Put(t, [type |-> "delta", delta |-> Last(content[t]), sequence |-> sequence[t]])
  /\ UNCHANGED <<kind, content, sequence, store, faults>>

\* Mutant of ReceiverGone: the delta is sent again.
ReceiverGoneRetried(t) ==
  /\ Goto(t, "send", "send")
  /\ client[t] # "reading"
  /\ UNCHANGED <<kind, content, sequence, wire, store, faults>>

\* The send of a delta fails: the task returns Ok and the reply is dropped.
ReceiverGone(t) ==
  /\ Goto(t, "send", "ended")
  /\ client[t] # "reading"
  /\ UNCHANGED <<kind, content, sequence, wire, store, faults>>

\* Mutant of EndOfStream: an empty reply is not an error.
EndOfStreamSilent(t) ==
  /\ Goto(t, "stream", IF IsBlank(content[t]) THEN "ended" ELSE "reply")
  /\ UNCHANGED <<kind, content, sequence, wire, store, faults>>

\* The reply ended, with [DONE] or with the end of the body.
EndOfStream(t) ==
  /\ Goto(t, "stream", IF IsBlank(content[t]) THEN "report" ELSE "reply")
  /\ UNCHANGED <<kind, content, sequence, wire, store, faults>>

StoreReply(t) ==
  /\ Goto(t, "reply", "reply_edge")
  /\ CreateMessage(t, "assistant", content[t])
  /\ UNCHANGED <<kind, content, sequence, wire, edges, jobs, faults>>

\* Mutants of LinkReply: a task whose client is gone stops here; the job is
\* not waited for.
LinkReplyIfHeard(t) ==
  /\ Goto(t, "reply_edge", IF client[t] = "reading" THEN "enqueue" ELSE "ended")
  /\ edges' = edges \cup {<<t, "assistant">>}
  /\ UNCHANGED <<kind, content, sequence, wire, messages, jobs, faults>>

LinkReplyThenMarker(t) ==
  /\ Goto(t, "reply_edge", "marker")
  /\ edges' = edges \cup {<<t, "assistant">>}
  /\ UNCHANGED <<kind, content, sequence, wire, messages, jobs, faults>>

LinkReply(t) ==
  /\ Goto(t, "reply_edge", "enqueue")
  /\ edges' = edges \cup {<<t, "assistant">>}
  /\ UNCHANGED <<kind, content, sequence, wire, messages, jobs, faults>>

\* The job carries the reply in its payload.
CreateJob(t) == jobs' = jobs \cup {[turn |-> t, content |-> content[t]]}

EnqueueJob(t) ==
  /\ Goto(t, "enqueue", "marker")
  /\ CreateJob(t)
  /\ UNCHANGED <<kind, content, sequence, wire, messages, edges, faults>>

\* A last send, of the marker or of the error; nobody minds that it fails.
SendLast(t, item) ==
  /\ \/ client[t] = "reading" /\ Put(t, item)
     \/ client[t] # "reading" /\ UNCHANGED wire
  /\ UNCHANGED <<kind, content, sequence, store, faults>>

SendMarker(t) ==
  /\ Goto(t, "marker", "ended")
  /\ SendLast(t, [type |-> "done", sequence |-> sequence[t] + 1])

ReportError(t) ==
  /\ Goto(t, "report", "ended")
  /\ SendLast(t, [type |-> "error"])

-----------------------------------------------------------------------------
(* The client: reads until the marker, an error or the end of the stream.  *)

Receive(t) ==
  /\ client[t] = "reading"
  /\ channel[t] # <<>>
  /\ LET item == Head(channel[t])
     IN  \/ /\ item.type = "delta"
            /\ got' = [got EXCEPT ![t] = Append(@, item.delta)]
            /\ channel' = [channel EXCEPT ![t] = Tail(@)]
            /\ UNCHANGED client
         \/ /\ item.type \in {"done", "error"}
            /\ client' = [client EXCEPT ![t] = IF item.type = "done" THEN "complete" ELSE "failed"]
            /\ channel' = [channel EXCEPT ![t] = <<>>]
            /\ UNCHANGED got
  /\ UNCHANGED <<task, store, faults>>

\* The sender was dropped and everything it sent was read.
EndOfReplies(t) ==
  /\ client[t] = "reading"
  /\ channel[t] = <<>>
  /\ pc[t] = "ended"
  /\ client' = [client EXCEPT ![t] = "cut_off"]
  /\ UNCHANGED <<task, channel, got, store, faults>>

\* The user interrupts the client, or its connection breaks: rx is dropped.
Leave(t) ==
  /\ client[t] = "reading"
  /\ client' = [client EXCEPT ![t] = "gone"]
  /\ channel' = [channel EXCEPT ![t] = <<>>]
  /\ UNCHANGED <<task, got, store, faults>>

-----------------------------------------------------------------------------
(* Faults.                                                                 *)

Fault == faults < MaxFaults /\ faults' = faults + 1

\* Mutant of CallFails: a turn goes on without its job.
CallFailsJobOptional(t) ==
  /\ pc[t] \in {"received", "question", "question_edge", "context", "stream", "reply",
                "reply_edge", "enqueue"}
  /\ Fault
  /\ pc' = [pc EXCEPT ![t] = IF @ = "enqueue" THEN "marker" ELSE "report"]
  /\ UNCHANGED <<kind, content, sequence, wire, store>>

CallFails(t) ==
  /\ pc[t] \in {"received", "question", "question_edge", "context", "stream", "reply",
                "reply_edge", "enqueue"}
  /\ Fault
  /\ pc' = [pc EXCEPT ![t] = "report"]
  /\ UNCHANGED <<kind, content, sequence, wire, store>>

\* The write took effect and its answer was lost.
AnswerLost(t) ==
  /\ Fault
  /\ pc' = [pc EXCEPT ![t] = "report"]
  /\ \/ pc[t] = "question" /\ CreateMessage(t, "user", <<>>) /\ UNCHANGED <<edges, jobs>>
     \/ pc[t] = "reply" /\ CreateMessage(t, "assistant", content[t]) /\ UNCHANGED <<edges, jobs>>
     \/ pc[t] = "enqueue" /\ CreateJob(t) /\ UNCHANGED <<messages, edges>>
  /\ UNCHANGED <<kind, content, sequence, wire>>

\* The server process ends with all its tasks and what their channels hold;
\* the clients find their streams at an end.
ServerStops ==
  /\ \E t \in Turns : pc[t] \notin {"idle", "ended"}
  /\ Fault
  /\ pc' = [t \in Turns |-> IF pc[t] = "idle" THEN "idle" ELSE "ended"]
  /\ channel' = [t \in Turns |-> <<>>]
  /\ UNCHANGED <<kind, content, sequence, client, got, store>>

-----------------------------------------------------------------------------
TaskStep(t) ==
  \/ Admit(t) \/ StoreQuestion(t) \/ LinkQuestion(t) \/ OpenStream(t) \/ NextDelta(t)
  \/ SendDelta(t) \/ ReceiverGone(t) \/ EndOfStream(t) \/ StoreReply(t) \/ LinkReply(t)
  \/ EnqueueJob(t) \/ SendMarker(t) \/ ReportError(t)

ClientReads(t) == Receive(t) \/ EndOfReplies(t)

Next ==
  \/ \E t \in Turns : \/ Request(t) \/ TaskStep(t) \/ ClientReads(t) \/ Leave(t)
                      \/ CallFails(t) \/ AnswerLost(t)
  \/ ServerStops

Spec == Init /\ [][Next]_vars

\* Calls return, the LLM ends its reply, and a client that is there reads.
Fairness == \A t \in Turns : WF_vars(TaskStep(t)) /\ WF_vars(ClientReads(t))

FairSpec == Spec /\ Fairness
-----------------------------------------------------------------------------
(* Correctness.                                                            *)

TypeOK ==
  /\ pc \in [Turns -> {"idle", "received", "question", "question_edge", "context", "stream",
                       "send", "reply", "reply_edge", "enqueue", "marker", "report", "ended"}]
  /\ kind \in [Turns -> {"valid", "blank", "denied"}]
  /\ content \in [Turns -> Contents]
  /\ sequence \in [Turns -> Nat]
  /\ channel \in [Turns -> Seq(Item)] /\ \A t \in Turns : Len(channel[t]) <= Capacity
  /\ client \in [Turns -> {"idle", "reading", "complete", "failed", "cut_off", "gone"}]
  /\ got \in [Turns -> Contents]
  /\ messages \in Seq(Message)
  /\ edges \subseteq Turns \X {"user", "assistant"}
  /\ jobs \subseteq [turn : Turns, content : Contents]
  /\ faults \in Nat

Question(t) == [turn |-> t, role |-> "user", content |-> <<>>]

Reply(t) == [turn |-> t, role |-> "assistant", content |-> content[t]]

HasReply(t) == \E i \in DOMAIN messages : messages[i].turn = t /\ messages[i].role = "assistant"

HasJob(t) == \E job \in jobs : job.turn = t

\* The completion marker is a receipt: the client that has read it has read
\* the whole reply, delta by delta, and the store holds that very reply, its
\* edge, the question before it, and one memory job that carries it.
CompleteMeansDurable ==
  \A t \in Turns : client[t] = "complete" =>
    /\ got[t] = content[t]
    /\ \E i, j \in DOMAIN messages : i < j /\ messages[i] = Question(t) /\ messages[j] = Reply(t)
    /\ <<t, "assistant">> \in edges
    /\ {job \in jobs : job.turn = t} = {[turn |-> t, content |-> got[t]]}

\* The deltas that wait in the channel: all it holds but the marker or the error at its end.
Waiting(t) ==
  IF channel[t] # <<>> /\ Last(channel[t]).type # "delta"
  THEN Len(channel[t]) - 1 ELSE Len(channel[t])

Ordered(t) ==
  LET sent == Len(got[t]) + Waiting(t)
  IN  /\ \A i \in DOMAIN got[t] : got[t][i] = content[t][i]
      /\ \A i \in 1..Waiting(t) :
           channel[t][i].type = "delta" /\ channel[t][i].delta = content[t][Len(got[t]) + i]
      /\ CASE pc[t] = "send"  -> Len(content[t]) = sent + 1
           [] pc[t] = "ended" -> Len(content[t]) >= sent
           [] OTHER           -> Len(content[t]) = sent
      /\ \A i \in DOMAIN channel[t] :
           channel[t][i].type # "error" => channel[t][i].sequence = Len(got[t]) + i

\* What the client has read and what waits in the channel are the reply so
\* far, with nothing lost, repeated or out of order, and the numbers the items
\* carry count it; only the delta being sent is still with the task.  After
\* the task has ended the client may have been left with the beginning.
InOrder == \A t \in Turns : client[t] = "reading" => Ordered(t)

\* Whoever leaves when, and unless a fault happens: a turn that has ended has
\* its reply, the reply's edge and the reply's job in the store, or none.
AllOrNothing ==
  faults = 0 =>
    \A t \in Turns : pc[t] = "ended" =>
      /\ HasReply(t) <=> HasJob(t)
      /\ HasReply(t) <=> <<t, "assistant">> \in edges

\* A client that stays learns how its turn ended: the stream does not just
\* stop unless the server did.
NoSilentEnd == faults = 0 => \A t \in Turns : client[t] # "cut_off"

\* What the store holds of a turn, and what a client that reads it is told.
StoredWhole  == CompleteMeansDurable /\ AllOrNothing
ToldTheTruth == TypeOK /\ InOrder /\ NoSilentEnd

\* Every request is answered in the end, or its client is gone: the bounded
\* channel holds up neither the task nor the client for ever.
EveryTurnEnds ==
  \A t \in Turns : client[t] = "reading" ~> client[t] # "reading" /\ pc[t] = "ended"

\* The turn implements its promise.
Stored(t) ==
  IF HasJob(t) THEN "job"
  ELSE IF HasReply(t) THEN "reply"
  ELSE IF \E i \in DOMAIN messages : messages[i].turn = t THEN "question"
  ELSE "nothing"

Told(t) ==
  CASE client[t] = "complete"                      -> "complete"
    [] client[t] \in {"failed", "cut_off", "gone"} -> "failure"
    [] OTHER                                       -> "nothing"

Promise == INSTANCE TurnPromise
             WITH stored <- [t \in Turns |-> Stored(t)], told <- [t \in Turns |-> Told(t)]

KeepsPromise == Promise!Spec
=============================================================================
