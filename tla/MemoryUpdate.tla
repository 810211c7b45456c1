---------------------------- MODULE MemoryUpdate ----------------------------
(***************************************************************************)
(* What a background job does: update_memory_after_turn                    *)
(* (server/src/jobs/memory_update.rs) folds the recent messages of a       *)
(* session into its story summary, stores the reply as a memory chunk, and *)
(* stores what the LLM extracts from the transcript, with the edges of the *)
(* memory graph.  Every store call is a step of its own, any of them may   *)
(* fail, and a failed job is executed again from its beginning.            *)
(*                                                                         *)
(* Jobs are claimed and settled as JobLifecycle says, which JobQueue       *)
(* implements.  One session of one game is modelled; a message stands for  *)
(* the question and the reply of a turn, a key for the names that          *)
(* same_name takes for one.                                                *)
(***************************************************************************)
EXTENDS Integers, Sequences, FiniteSets, FiniteSetsExt

CONSTANTS
  Workers,       \* job runners that share the store
  Extractions,   \* what extract_memory may return: for each kind a set of keys
  Window,        \* messages that list_recent_messages returns: 24, of 12 turns
  FactLimit,     \* facts that list_world_facts returns: 100
  MaxAttempts,   \* max_attempts of a job
  AdminAttempts, \* max_attempts an admin may ask for when a failed job is retried
  MaxTurns,      \* bound: turns of the session
  MaxFaults,     \* bound: faults
  MaxReopens     \* bound: failed jobs that an admin retries

ASSUME MemoryUpdateAssumption ==
  /\ Window \in Nat \ {0}
  /\ FactLimit \in Nat
  /\ MaxAttempts \in 1..10
  /\ AdminAttempts \subseteq 1..10
  /\ MaxTurns \in Nat
  /\ MaxFaults \in Nat
  /\ MaxReopens \in Nat

VARIABLES
  messages,      \* the number of turns whose messages are stored
  phase,         \* of the job of each turn: see JobLifecycle
  attempts,
  granted,
  summary,       \* the messages the story summary covers
  records,       \* tables event, character, world_fact and location
  chunks,        \* table memory_chunk
  edges,         \* the relation tables, as pairs of ids
  pc,            \* where each worker is
  job,           \* the job it executes, 0 for none
  local,         \* the variables of update_memory_after_turn and persist_extraction
  runs,          \* history: how often each job was started
  allowed,       \* history: the attempts it was granted in all
  reopens,       \* failed jobs that were retried so far
  outcome,       \* history: what a succeeded job had extracted
  cut,           \* history: edges whose DELETE was done and whose RELATE was not
  alone,         \* history: no two executions have overlapped
  faults         \* faults so far

jobs   == <<phase, attempts, granted>>
memory == <<summary, records, chunks, edges>>
worker == <<pc, job, local>>
counts == <<runs, allowed, reopens>>
ghosts == <<outcome, cut, alone, faults>>
vars   == <<messages, phase, attempts, granted, summary, records, chunks, edges,
            pc, job, local, runs, allowed, reopens, outcome, cut, alone, faults>>

Job == 1..MaxTurns

Lifecycle == INSTANCE JobLifecycle

\* In the order in which persist_extraction stores them.
Kinds == <<"event", "character", "fact", "location">>

Kind == {"event", "character", "fact", "location"}

\* The session and the game, which every record has an edge to.
Home == <<0, 0, 0>>

Nothing == [k \in Kind |-> {}]

Fresh == [previous |-> {}, recent |-> {}, extraction |-> Nothing, stage |-> 0, todo |-> {},
          existing |-> {}, made |-> 0, current |-> Home, turnChunk |-> Home,
          item |-> [id |-> Home], saved |-> {}, links |-> {}]

Init ==
  /\ messages = 0
  /\ Lifecycle!Init
  /\ summary = {} /\ records = {} /\ chunks = {} /\ edges = {}
  /\ pc = [w \in Workers |-> "idle"]
  /\ job = [w \in Workers |-> 0]
  /\ local = [w \in Workers |-> Fresh]
  /\ runs = [j \in Job |-> 0]
  /\ allowed = [j \in Job |-> 0]
  /\ reopens = 0
  /\ outcome = [j \in Job |-> Nothing]
  /\ cut = {}
  /\ alone = TRUE
  /\ faults = 0

\* new_id: the job, its execution and the number of the row in it.
NewId(w) == <<job[w], runs[job[w]], local[w].made + 1>>

Goto(w, from, to) == pc[w] = from /\ pc' = [pc EXCEPT ![w] = to]

-----------------------------------------------------------------------------
(* Turns, and the jobs they enqueue some time after the reply is stored.   *)

StoreMessages ==
  /\ messages < MaxTurns
  /\ messages' = messages + 1
  /\ UNCHANGED <<jobs, memory, worker, counts, ghosts>>

Enqueue(j) ==
  /\ j <= messages
  /\ Lifecycle!Enqueue(j)
  /\ granted'[j] = MaxAttempts
  /\ allowed' = [allowed EXCEPT ![j] = MaxAttempts]
  /\ UNCHANGED <<messages, memory, worker, ghosts, runs, reopens>>

-----------------------------------------------------------------------------
(* Admin requests: retry_failed_job and purge_failed_job.                  *)

\* The attempts begin again: with as many as before, or as the request asks for.
Reopen(j) ==
  /\ reopens < MaxReopens
  /\ reopens' = reopens + 1
  /\ Lifecycle!Reopen(j)
  /\ granted'[j] \in AdminAttempts \cup {granted[j]}
  /\ allowed' = [allowed EXCEPT ![j] = @ + granted'[j]]
  /\ UNCHANGED <<messages, memory, worker, ghosts, runs>>

\* What the job has stored stays.
Purge(j) ==
  /\ Lifecycle!Purge(j)
  /\ UNCHANGED <<messages, memory, worker, ghosts, counts>>

-----------------------------------------------------------------------------
(* The worker: process_next_job around update_memory_after_turn.           *)

Claim(w) ==
  /\ Goto(w, "idle", "read_summary")
  /\ \E j \in Job : /\ Lifecycle!Claim(j)
                    /\ job' = [job EXCEPT ![w] = j]
                    /\ runs' = [runs EXCEPT ![j] = @ + 1]
  /\ local' = [local EXCEPT ![w] = Fresh]
  /\ alone' = (alone /\ \A v \in Workers \ {w} : pc[v] = "idle")
  /\ UNCHANGED <<messages, memory, outcome, cut, faults, allowed, reopens>>

ReadSummary(w) ==
  /\ Goto(w, "read_summary", "read_messages")
  /\ local' = [local EXCEPT ![w].previous = summary]
  /\ UNCHANGED <<messages, jobs, memory, job, counts, ghosts>>

\* Mutant of Recent: the oldest messages, as without DESC.
RecentOldest == {m \in 1..messages : m <= Window}

\* list_recent_messages
Recent == {m \in 1..messages : m > messages - Window}

ReadMessages(w) ==
  /\ Goto(w, "read_messages", "write_summary")
  /\ local' = [local EXCEPT ![w].recent = Recent]
  /\ UNCHANGED <<messages, jobs, memory, job, counts, ghosts>>

\* Mutant of Summarize: the previous summary is not passed on.
SummarizeRecent(previous, recent) == recent

\* summarize is given the previous summary and the recent messages.
Summarize(previous, recent) == previous \cup recent

WriteSummary(w) ==
  /\ Goto(w, "write_summary", "save_turn")
  /\ summary' = Summarize(local[w].previous, local[w].recent)
  /\ UNCHANGED <<messages, jobs, records, chunks, edges, job, local, counts, ghosts>>

\* save_memory_chunk: a new row each time, and its edge in a later step.
CreateChunk(w, kind, key) ==
  chunks' = chunks \cup {[id |-> NewId(w), kind |-> kind, key |-> key, job |-> job[w]]}

\* Mutant of SaveTurn: the row is created again when its answer was lost.
SaveTurnRepeated(w) ==
  /\ pc[w] = "save_turn"
  /\ pc' \in {[pc EXCEPT ![w] = "save_turn"], [pc EXCEPT ![w] = "attach_turn"]}
  /\ CreateChunk(w, "turn", "reply")
  /\ local' = [local EXCEPT ![w].turnChunk = NewId(w), ![w].current = NewId(w),
                            ![w].made = @ + 1]
  /\ UNCHANGED <<messages, jobs, summary, records, edges, job, counts, ghosts>>

SaveTurn(w) ==
  /\ Goto(w, "save_turn", "attach_turn")
  /\ CreateChunk(w, "turn", "reply")
  /\ local' = [local EXCEPT ![w].turnChunk = NewId(w), ![w].current = NewId(w),
                            ![w].made = @ + 1]
  /\ UNCHANGED <<messages, jobs, summary, records, edges, job, counts, ghosts>>

\* upsert_graph_relation from what was just stored to the session or game.
Attach(w) ==
  /\ \/ Goto(w, "attach_turn", "extract")
     \/ Goto(w, "attach_item", "embed")
     \/ Goto(w, "attach_chunk", "item")
  /\ edges' = edges \cup {<<local[w].current, Home>>}
  /\ UNCHANGED <<messages, jobs, summary, records, chunks, job, local, counts, ghosts>>

Extract(w) ==
  /\ Goto(w, "extract", "item")
  /\ \E x \in Extractions :
       local' = [local EXCEPT ![w].extraction = x, ![w].stage = 1, ![w].todo = x["event"]]
  /\ UNCHANGED <<messages, jobs, memory, job, counts, ghosts>>

-----------------------------------------------------------------------------
(* persist_extraction.                                                     *)

KindOf(w) == Kinds[local[w].stage]

OfKind(kind) == {r \in records : r.kind = kind}

\* list_characters, list_world_facts, list_locations.  Which facts are the
\* latest is left open; only their number is limited.
Listed(kind) ==
  IF kind = "fact" /\ Cardinality(OfKind(kind)) > FactLimit
  THEN kSubset(FactLimit, OfKind(kind))
  ELSE {OfKind(kind)}

\* All items of a kind are stored: list what the game has of the next kind.
NextKind(w) ==
  /\ Goto(w, "item", "item")
  /\ local[w].todo = {}
  /\ local[w].stage < Len(Kinds)
  /\ LET kind == Kinds[local[w].stage + 1]
     IN  \E listed \in Listed(kind) :
           local' = [local EXCEPT ![w].stage = @ + 1, ![w].existing = listed,
                                  ![w].todo = local[w].extraction[kind]]
  /\ UNCHANGED <<messages, jobs, memory, job, counts, ghosts>>

\* Mutant of RecordFor: what was listed is not looked up.
RecordForNew(w, key) ==
  {[id |-> NewId(w), kind |-> KindOf(w), key |-> key,
    job |-> IF KindOf(w) = "event" THEN job[w] ELSE 0]}

\* An event is a new row; an entity takes the id that was listed for its key.
RecordFor(w, key) ==
  LET known == {r \in local[w].existing : r.key = key}
  IN  IF KindOf(w) = "event"
      THEN {[id |-> NewId(w), kind |-> "event", key |-> key, job |-> job[w]]}
      ELSE IF known # {}
           THEN known
           ELSE {[id |-> NewId(w), kind |-> KindOf(w), key |-> key, job |-> 0]}

SaveItem(w) ==
  /\ Goto(w, "item", "attach_item")
  /\ \E key \in local[w].todo : \E r \in RecordFor(w, key) :
       /\ records' = records \cup {r}
       /\ local' = [local EXCEPT ![w].todo = @ \ {key}, ![w].item = r, ![w].current = r.id,
                                 ![w].saved = @ \cup {r}, ![w].made = @ + 1]
  /\ UNCHANGED <<messages, jobs, summary, chunks, edges, job, counts, ghosts>>

\* save_embedded_memory of the item; a fact is linked to its chunk and the turn's.
Embed(w) ==
  /\ Goto(w, "embed", "attach_chunk")
  /\ CreateChunk(w, KindOf(w), local[w].item.key)
  /\ local' = [local EXCEPT ![w].current = NewId(w), ![w].made = @ + 1,
                 ![w].links = IF KindOf(w) = "fact"
                              THEN @ \cup {<<local[w].turnChunk, local[w].item.id>>,
                                           <<NewId(w), local[w].item.id>>}
                              ELSE @]
  /\ UNCHANGED <<messages, jobs, summary, records, edges, job, counts, ghosts>>

\* character_matches_fact: the character is the fact's subject or object.
Knows(character, fact) == character.key \in {fact.key.subject, fact.key.object}

Saved(w, kind) == {r \in local[w].saved : r.kind = kind}

Graph(w) ==
  {<<e.id, r.id>> : e \in Saved(w, "event"), r \in Saved(w, "character") \cup Saved(w, "location")}
    \cup {<<p[1].id, p[2].id>> : p \in {q \in Saved(w, "character") \X Saved(w, "fact") :
                                          Knows(q[1], q[2])}}

\* Mutant of StartLinks: the edges of facts to chunks are forgotten.
StartLinksOfGraph(w) ==
  /\ Goto(w, "item", "link")
  /\ local[w].todo = {}
  /\ local[w].stage = Len(Kinds)
  /\ local' = [local EXCEPT ![w].links = Graph(w)]
  /\ UNCHANGED <<messages, jobs, memory, job, counts, ghosts>>

StartLinks(w) ==
  /\ Goto(w, "item", "link")
  /\ local[w].todo = {}
  /\ local[w].stage = Len(Kinds)
  /\ local' = [local EXCEPT ![w].links = @ \cup Graph(w)]
  /\ UNCHANGED <<messages, jobs, memory, job, counts, ghosts>>

\* link_extraction_graph, an edge at a time, in an order that does not matter.
Link(w) ==
  /\ Goto(w, "link", "link")
  /\ local[w].links # {}
  /\ LET edge == CHOOSE e \in local[w].links : TRUE
     IN  /\ edges' = edges \cup {edge}
         /\ local' = [local EXCEPT ![w].links = @ \ {edge}]
  /\ UNCHANGED <<messages, jobs, summary, records, chunks, job, counts, ghosts>>

-----------------------------------------------------------------------------
(* The end of an execution: complete_job, retry_job or fail_job.           *)

Idle(w) ==
  /\ pc' = [pc EXCEPT ![w] = "idle"]
  /\ job' = [job EXCEPT ![w] = 0]
  /\ local' = [local EXCEPT ![w] = Fresh]

Succeed(w) ==
  /\ pc[w] = "link"
  /\ local[w].links = {}
  /\ Lifecycle!Complete(job[w])
  /\ outcome' = [outcome EXCEPT ![job[w]] = local[w].extraction]
  /\ Idle(w)
  /\ UNCHANGED <<messages, memory, counts, cut, alone, faults>>

GiveBack(w) ==
  /\ pc[w] = "failed"
  /\ Lifecycle!Retry(job[w]) \/ Lifecycle!Exhaust(job[w])
  /\ Idle(w)
  /\ UNCHANGED <<messages, memory, counts, ghosts>>

-----------------------------------------------------------------------------
(* Faults.  A call whose answer is lost is one that worked followed by one *)
(* that did not.                                                           *)

Fault == faults < MaxFaults /\ faults' = faults + 1

Fail(w) ==
  /\ pc' = [pc EXCEPT ![w] = "failed"]
  /\ local' = [local EXCEPT ![w] = Fresh]

CallFails(w) ==
  /\ pc[w] \notin {"idle", "failed"}
  /\ Fault
  /\ Fail(w)
  /\ UNCHANGED <<messages, jobs, memory, job, counts, outcome, cut, alone>>

\* upsert_graph_relation deletes the edge and fails before it relates anew.
\* Where the edge has a new end there is nothing to delete.
RelateFails(w) ==
  /\ pc[w] = "link" \/ pc[w] = "attach_item"
  /\ Fault
  /\ Fail(w)
  /\ \E edge \in IF pc[w] = "link" THEN local[w].links ELSE {<<local[w].current, Home>>} :
       /\ edges' = edges \ {edge}
       /\ cut' = cut \cup {edge}
  /\ UNCHANGED <<messages, jobs, summary, records, chunks, job, counts, outcome, alone>>

\* The process ends; JobQueue shows that the job stays Running.
Stop(w) ==
  /\ pc[w] # "idle"
  /\ Fault
  /\ Idle(w)
  /\ UNCHANGED <<messages, jobs, memory, counts, outcome, cut, alone>>

-----------------------------------------------------------------------------
WorkerStep(w) ==
  \/ Claim(w) \/ ReadSummary(w) \/ ReadMessages(w) \/ WriteSummary(w) \/ SaveTurn(w)
  \/ Attach(w) \/ Extract(w) \/ NextKind(w) \/ SaveItem(w) \/ Embed(w) \/ StartLinks(w)
  \/ Link(w) \/ Succeed(w) \/ GiveBack(w)

Next ==
  \/ StoreMessages
  \/ \E j \in Job : Enqueue(j) \/ Reopen(j) \/ Purge(j)
  \/ \E w \in Workers : WorkerStep(w) \/ CallFails(w) \/ RelateFails(w) \/ Stop(w)

Spec == Init /\ [][Next]_vars
-----------------------------------------------------------------------------
(* Correctness.                                                            *)

Id == {r.id : r \in records \cup chunks}

TypeOK ==
  /\ messages \in 0..MaxTurns
  /\ summary \subseteq 1..messages
  /\ \A a, b \in records \cup chunks : a.id = b.id => a = b
  /\ \A r \in records : r.kind \in Kind /\ r.job \in Job \cup {0}
  /\ \A c \in chunks : c.kind \in Kind \cup {"turn"} /\ c.job \in Job
  /\ edges \subseteq Id \X (Id \cup {Home})
  /\ job \in [Workers -> Job \cup {0}]
  /\ \A w \in Workers : (pc[w] = "idle" <=> job[w] = 0) /\ local[w].stage \in 0..Len(Kinds)
  /\ alone \in BOOLEAN /\ faults \in 0..MaxFaults

\* As long as executions do not overlap: a game never has two characters, two
\* locations or, below the limit of the listing, two facts that same_name and
\* same_fact take for one, whatever failed and was tried again in between.
UniqueEntities ==
  alone =>
    \A r, s \in records :
      /\ r.kind = s.kind /\ r.kind # "event" /\ r.key = s.key
      /\ r.kind = "fact" => Cardinality(OfKind("fact")) <= FactLimit
      => r = s

Related(a, b) == <<a, b>> \in edges \cup cut

\* A job that has succeeded has left all it extracted in the store: the turn's
\* chunk, a chunk of each item, every record with its edge to the session or
\* game, and the edges between them; except the edges that a later upsert of
\* them has cut by failing in the middle.
SucceededIsComplete ==
  \A j \in Job : phase[j] = "succeeded" =>
    LET x == outcome[j]
        Has(kind, key) == {r \in OfKind(kind) : r.key = key /\ r.job \in {0, j} /\ Related(r.id, Home)}
        Chunk(kind, key) == {c \in chunks : c.kind = kind /\ c.key = key /\ c.job = j
                                              /\ Related(c.id, Home)}
        Joined(A, B) == \E a \in A, b \in B : Related(a.id, b.id)
    IN  /\ Chunk("turn", "reply") # {}
        /\ \A kind \in Kind : \A key \in x[kind] : Has(kind, key) # {} /\ Chunk(kind, key) # {}
        /\ \A e \in x["event"], kind \in {"character", "location"} : \A key \in x[kind] :
             Joined(Has("event", e), Has(kind, key))
        /\ \A f \in x["fact"] :
             /\ Joined(Chunk("turn", "reply"), Has("fact", f))
             /\ Joined(Chunk("fact", f), Has("fact", f))
             /\ \A c \in x["character"] :
                  c \in {f.subject, f.object} => Joined(Has("character", c), Has("fact", f))

\* Executing a job again stores chunks and events again, but never more often
\* than the job was granted attempts, when it was enqueued and by the admins
\* who retried it; its attempts begin at 0 again with each of these grants.
RepeatsAreBounded ==
  \A j \in Job :
    /\ Cardinality({c \in chunks : c.job = j /\ c.kind = "turn"}) <= allowed[j]
    /\ \A key \in UNION {x["event"] : x \in Extractions} :
         Cardinality({r \in OfKind("event") : r.job = j /\ r.key = key}) <= allowed[j]

\* As long as executions do not overlap: what the summary covers it never forgets.
SummaryKeeps == [][alone' => summary \subseteq summary']_vars

\* As long as executions do not overlap: when the job of a turn has succeeded the
\* summary covers the turn, unless a whole window of turns has followed it.
SummaryCovers ==
  alone => \A j \in Job : phase[j] = "succeeded" => j \in summary \/ messages >= j + Window

\* What a job that has succeeded leaves in the store, the summary included.
SucceededIsWhole == TypeOK /\ SucceededIsComplete /\ SummaryCovers
=============================================================================
