------------------------------- MODULE HttpLlm -------------------------------
(***************************************************************************)
(* One call of the OpenAI-compatible provider (server/src/llm/openai.rs,   *)
(* server/src/llm/sse.rs): the request and its repetitions, and for a chat *)
(* the stream of server-sent events that comes back in pieces of any size. *)
(* A body is a sequence of symbols: "x" is a character of one byte, "l"    *)
(* and "t" are the two bytes of another, "r" and "n" end a line, "D" is    *)
(* [DONE]; the JSON and the "data:" around a content are left out.         *)
(***************************************************************************)
EXTENDS Naturals, Sequences, FiniteSets, SequencesExt

CONSTANTS
    Configs,        \* configurations the call may be made with
    Ops,            \* of "stream", "summarize", "extract", "embed"
    Bodies,         \* bodies of a stream, each a sequence of events
    Answers,        \* what a request may come back with
    Delimiters,     \* ways the provider ends an event
    MaxRetries,     \* config.max_retries
    BaseDelay,      \* config.retry_base_delay
    MaxShift        \* the delay doubles so often at most: 8

Fields == {"base_url", "chat_model", "extraction_model", "embedding_model", "request_timeout"}

ASSUME HttpLlmAssumption ==
    /\ Configs \subseteq SUBSET Fields   \* the fields that are blank or zero
    /\ Ops \subseteq {"stream", "summarize", "extract", "embed"}
    /\ Answers \subseteq {"success", "client_error", "too_many", "server_error",
                           "timeout", "no_connection", "broken"}
    /\ Bodies \subseteq Seq(Seq({"x", "l", "t", "D"}))   \* events of one line
    /\ Delimiters \subseteq {<<"n", "n">>, <<"r", "n", "r", "n">>}
    /\ MaxRetries \in Nat /\ BaseDelay \in Nat /\ MaxShift \in Nat

VARIABLES
    phase,      \* "new", "request", "wait", "body", "ended"
    op,         \* the operation called
    attempt,    \* repetitions so far
    answers,    \* history: what came back from each request
    waits,      \* history: the delay before each repetition
    body,       \* the events the provider sends
    sent,       \* and the symbols it sends them in
    arrived,    \* symbols of it that have arrived
    buffer,     \* decoded symbols without a complete event so far
    yielded,    \* contents handed to the caller
    closed,     \* history: how the body ended: "no", "whole", "early", "broken"
    outcome     \* "none", "ok", "fallback", "error"

callVars == <<phase, op, attempt, answers, waits, body, sent, arrived, buffer, yielded, closed, outcome>>

\* The symbols of the last m events, each with the delimiter after it.
LastEvents(events, d) ==
    LET last[m \in 0..Len(events)] ==
          IF m = 0 THEN <<>> ELSE events[Len(events) - m + 1] \o d \o last[m - 1]
    IN  last

CallInit ==
    /\ phase = "new" /\ op \in Ops /\ attempt = 0
    /\ answers = <<>> /\ waits = <<>>
    /\ body \in Bodies /\ \E d \in Delimiters : sent = LastEvents(body, d)[Len(body)]
    /\ arrived = 0 /\ buffer = <<>> /\ yielded = <<>> /\ closed = "no"
    /\ outcome = "none"

End(result) == phase' = "ended" /\ outcome' = result

\* HttpLlm::new refuses a configuration with a blank field.
New ==
    /\ phase = "new"
    /\ \E blank \in Configs :
          IF blank = {} THEN phase' = "request" /\ UNCHANGED outcome ELSE End("error")
    /\ UNCHANGED <<op, attempt, answers, waits, body, sent, arrived, buffer, yielded, closed>>

-----------------------------------------------------------------------------
(* The request and its repetitions.  External: what the provider answers,  *)
(* or that nothing answers.                                                *)

should_retry == {"too_many", "server_error", "timeout", "no_connection"}

Repeat(a) == a \in should_retry /\ attempt < MaxRetries

\* 2^min(attempt, MaxShift) times the base; nothing is waited for when the base is 0.
multiplier[n \in 0..MaxShift] == IF n = 0 THEN 1 ELSE 2 * multiplier[n - 1]

\* Mutant: the delay is that of the repetition after this one.
DelayOfNext == BaseDelay * multiplier[Min({attempt + 1, MaxShift})]
Delay       == BaseDelay * multiplier[Min({attempt, MaxShift})]

Answer(a) ==
    /\ phase = "request"
    /\ answers' = Append(answers, a)
    /\ \/ Repeat(a) /\ phase' = "wait" /\ UNCHANGED outcome
       \/ ~Repeat(a) /\ a = "success" /\ phase' = "body" /\ UNCHANGED outcome
       \/ ~Repeat(a) /\ a # "success" /\ End("error")
    /\ UNCHANGED <<op, attempt, waits, body, sent, arrived, buffer, yielded, closed>>

sleep_before_retry ==
    /\ phase = "wait" /\ phase' = "request"
    /\ waits' = Append(waits, Delay) /\ attempt' = attempt + 1
    /\ UNCHANGED <<op, answers, body, sent, arrived, buffer, yielded, closed, outcome>>

-----------------------------------------------------------------------------
(* The bodies that are read at once.                                       *)

Unread == UNCHANGED <<op, attempt, answers, waits, body, sent, arrived, buffer, yielded, closed>>

\* The first choice with a text is the answer; there may be none, and the reply
\* may break off or not be JSON.
Replies == {"text", "object", "no_text", "broken"}

summarize ==
    /\ phase = "body" /\ op = "summarize"
    /\ \E reply \in Replies : End(IF reply \in {"text", "object"} THEN "ok" ELSE "error")
    /\ Unread

\* A text that does not parse as an extraction gives way to an event made from
\* the last assistant message.
extract_memory ==
    /\ phase = "body" /\ op = "extract"
    /\ \E reply \in Replies : End(CASE reply = "object" -> "ok"
                                   [] reply = "text" -> "fallback"
                                   [] OTHER -> "error")
    /\ Unread

\* The first item is the answer, unless it is empty.
embed ==
    /\ phase = "body" /\ op = "embed"
    /\ \E reply \in {"vector", "no_vector", "broken"} :
          End(IF reply = "vector" THEN "ok" ELSE "error")
    /\ Unread

-----------------------------------------------------------------------------
(* The stream.                                                             *)

Starts(pattern, s) == {i \in 1..(Len(s) - Len(pattern) + 1) : SubSeq(s, i, i + Len(pattern) - 1) = pattern}
First(S) == CHOOSE i \in S : \A j \in S : i <= j

\* The end of the first event in s and the length of its delimiter.
HasEvent(s) == \E d \in {<<"n", "n">>, <<"r", "n", "r", "n">>} : Starts(d, s) # {}
\* Mutant: both delimiters are taken to be of two symbols.
ShortDelimiter(s) ==
    LET lf == Starts(<<"n", "n">>, s)  crlf == Starts(<<"r", "n", "r", "n">>, s)
    IN  IF lf = {} \/ (crlf # {} /\ First(crlf) < First(lf))
        THEN <<First(crlf) - 1, 2>> ELSE <<First(lf) - 1, 2>>
next_sse_event(s) ==
    LET lf == Starts(<<"n", "n">>, s)  crlf == Starts(<<"r", "n", "r", "n">>, s)
    IN  IF lf = {} \/ (crlf # {} /\ First(crlf) < First(lf))
        THEN <<First(crlf) - 1, 4>> ELSE <<First(lf) - 1, 2>>

\* A piece decodes when no character is cut at either end of it.
Decodes(piece) ==
    \A i \in DOMAIN piece :
        /\ piece[i] = "l" => i < Len(piece) /\ piece[i + 1] = "t"
        /\ piece[i] = "t" => i > 1 /\ piece[i - 1] = "l"

ReadPiece ==
    /\ phase = "body" /\ op = "stream" /\ closed = "no" /\ ~HasEvent(buffer)
    /\ \E n \in arrived + 1..Len(sent) :
          LET piece == SubSeq(sent, arrived + 1, n)
          IN  /\ arrived' = n
              /\ IF Decodes(piece) THEN buffer' = buffer \o piece /\ UNCHANGED <<phase, outcome>>
                                   ELSE UNCHANGED buffer /\ End("error")
    /\ UNCHANGED <<op, attempt, answers, waits, body, sent, yielded, closed>>

\* An event without data is skipped; [DONE] ends the stream.
\* Mutant: of two events in one piece the second is forgotten.
DropRest(e)  == buffer' = <<>>
KeepRest(e)  == buffer' = SubSeq(buffer, e[1] + e[2] + 1, Len(buffer))

TakeEvent ==
    /\ phase = "body" /\ op = "stream" /\ HasEvent(buffer)
    /\ LET e == next_sse_event(buffer)  data == SubSeq(buffer, 1, e[1])
       IN  /\ KeepRest(e)
           /\ IF data = <<"D">> THEN End("ok") ELSE UNCHANGED <<phase, outcome>>
           /\ yielded' = IF data \in {<<>>, <<"D">>} THEN yielded ELSE Append(yielded, data)
    /\ UNCHANGED <<op, attempt, answers, waits, body, sent, arrived, closed>>

\* The provider ends the body, after all of it or before.
Close ==
    /\ phase = "body" /\ op = "stream" /\ closed = "no"
    /\ closed' = IF arrived = Len(sent) THEN "whole" ELSE "early"
    /\ UNCHANGED <<phase, op, attempt, answers, waits, body, sent, arrived, buffer, yielded, outcome>>

\* Mutant: a body that ends early is not noticed.
OverWhenWhole == closed = "whole"
Over          == closed \in {"whole", "early"}

\* The loop ends with the body: what is left in the buffer is dropped.
BodyEnds ==
    /\ phase = "body" /\ op = "stream" /\ Over /\ ~HasEvent(buffer)
    /\ End("ok")
    /\ UNCHANGED <<op, attempt, answers, waits, body, sent, arrived, buffer, yielded, closed>>

\* The connection breaks, or the timeout of the whole request has passed.
\* Mutant: a broken stream is asked for again.
AskAgain == phase' = "request" /\ UNCHANGED outcome
Fail     == End("error")
BodyFails ==
    /\ phase = "body" /\ op = "stream" /\ closed = "no" /\ ~HasEvent(buffer)
    /\ Fail /\ closed' = "broken"
    /\ UNCHANGED <<op, attempt, answers, waits, body, sent, arrived, buffer, yielded>>

CallEnded == phase = "ended" /\ UNCHANGED callVars

Call ==
    \/ New \/ sleep_before_retry \/ summarize \/ extract_memory \/ embed
    \/ ReadPiece \/ TakeEvent \/ BodyEnds \/ BodyFails
    \/ \E a \in Answers : Answer(a)

CallNext == Call \/ Close \/ CallEnded

CallSpec == CallInit /\ [][CallNext]_callVars

\* The runtime runs the task; every request is answered or times out.
FairCallSpec == CallSpec /\ WF_callVars(Call)

-----------------------------------------------------------------------------
(* Properties.                                                             *)

CallTypeOK ==
    /\ phase \in {"new", "request", "wait", "body", "ended"} /\ op \in Ops
    /\ attempt \in 0..MaxRetries /\ Len(answers) <= MaxRetries + 1
    /\ waits \in Seq(Nat) /\ arrived \in 0..Len(sent)
    /\ closed \in {"no", "whole", "early", "broken"}
    /\ outcome \in {"none", "ok", "fallback", "error"}

\* A request is repeated exactly as often as the configuration says: only a
\* transient answer is followed by another request, a transient answer is the
\* last one only when the repetitions are used up, and neither a success nor a
\* broken stream is ever followed by one.
RetriesExactly ==
    /\ \A i \in 1..(Len(answers) - 1) : answers[i] \in should_retry
    /\ phase = "ended" /\ answers # <<>> /\ Last(answers) \in should_retry =>
          Len(answers) = MaxRetries + 1

\* The first repetition waits the base delay, the next ones twice as long as the
\* one before, until the delay has doubled MaxShift times.
BacksOff ==
    /\ \A k \in DOMAIN waits :
          waits[k] = CASE k = 1 -> BaseDelay
                       [] k \in 2..MaxShift + 1 -> 2 * waits[k - 1]
                       [] OTHER -> waits[k - 1]
    /\ phase = "request" => Len(waits) = Len(answers)

\* The contents of the first k events of a body, as the provider meant them.
Told(events) ==
    LET told[k \in 0..Len(events)] ==
          IF k = 0 THEN <<>>
          ELSE IF events[k] = <<>> \/ \E j \in 1..k : events[j] = <<"D">> THEN told[k - 1]
          ELSE Append(told[k - 1], events[k])
    IN  told
Contents(events) == Told(events)[Len(events)]

\* However the network cuts the body, the caller gets the contents in order,
\* none twice and none in parts.
ContentsInOrder == IsPrefix(yielded, Contents(body))

\* A stream that ends well has handed over everything the provider sent, unless
\* the provider itself ended the body early.
EndedWellIsWhole ==
    op = "stream" /\ outcome = "ok" /\ closed # "early" => yielded = Contents(body)

\* The requests a call makes, and the contents it hands over.
RepeatsAreRight == RetriesExactly /\ BacksOff
ContentsAreTrue == CallTypeOK /\ ContentsInOrder /\ EndedWellIsWhole

\* Every call ends, although the provider may answer nothing but errors.
CallEnds == <>(phase = "ended")
=============================================================================
