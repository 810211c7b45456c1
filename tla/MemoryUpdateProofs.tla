-------------------------- MODULE MemoryUpdateProofs --------------------------
(***************************************************************************)
(* Proofs about MemoryUpdate, for any number of workers, turns, attempts   *)
(* and faults, and whatever the LLM extracts.  Everything rests on who     *)
(* runs a job: one worker at most, since a claim takes it from "pending",  *)
(* so the ids of an execution are its own.  What a worker has in hand is   *)
(* then told by where it is, and what it has stored is never taken back.   *)
(***************************************************************************)
EXTENDS MemoryUpdate, FiniteSetTheorems, TLAPS

\* What workers may hold.
Key     == UNION {x[k] : x \in Extractions, k \in Kind}
RowId   == Nat \X Nat \X Nat
Row     == [id: RowId, kind: Kind, key: Key, job: Nat]
Place   == {"idle", "failed", "read_summary", "read_messages", "write_summary", "save_turn",
            "attach_turn", "extract", "item", "attach_item", "embed", "attach_chunk", "link"}
Local   == [previous: SUBSET Nat, recent: SUBSET Nat, extraction: Extractions \cup {Nothing},
            stage: 0..4, todo: SUBSET Key, existing: SUBSET Row, made: Nat, current: RowId,
            turnChunk: RowId, item: Row \cup {[id |-> Home]}, saved: SUBSET Row,
            links: SUBSET (RowId \X RowId)]

\* Where an execution has not stored anything, where it stores an item, and where it is under way.
Early   == {"read_summary", "read_messages", "write_summary", "save_turn"}
Storing == {"attach_item", "embed", "attach_chunk"}
Working(w) == pc[w] \notin {"idle", "failed"}

Phase == {"absent", "pending", "running", "succeeded", "failed", "purged"}

TypedInv ==
  /\ messages \in Nat /\ messages <= MaxTurns /\ faults \in 0..MaxFaults /\ alone \in BOOLEAN
  /\ phase \in [Job -> Phase]
  /\ attempts \in [Job -> Nat] /\ granted \in [Job -> Nat] /\ runs \in [Job -> Nat]
  /\ pc \in [Workers -> Place] /\ job \in [Workers -> Job \cup {0}]
  /\ local \in [Workers -> Local]
  /\ outcome \in [Job -> Extractions \cup {Nothing}]
  /\ records \subseteq Row /\ IsFiniteSet(records)

\* A job that is absent was never started, one that runs was, and one has a turn behind it.
LifeInv ==
  \A j \in Job : /\ phase[j] = "absent" => runs[j] = 0
                 /\ phase[j] = "running" => runs[j] >= 1
                 /\ phase[j] # "absent" => j <= messages

\* The attempts that are left of those granted last have been allowed, as those before them.
GrantInv ==
  /\ allowed \in [Job -> Nat]
  /\ \A j \in Job : /\ attempts[j] <= granted[j]
                    /\ runs[j] + (granted[j] - attempts[j]) <= allowed[j]

\* One worker runs a job.
HeldInv ==
  /\ \A w \in Workers : /\ pc[w] = "idle" <=> job[w] = 0
                        /\ pc[w] # "idle" => job[w] \in Job /\ phase[job[w]] = "running"
  /\ \A v, w \in Workers : job[v] = job[w] /\ job[v] # 0 => v = w

\* How far an execution is, where the worker is.
Staged(w) ==
  /\ pc[w] \in Early \cup {"idle", "failed", "attach_turn", "extract"} => local[w].stage = 0
  /\ pc[w] \in Early => local[w].made = 0
  /\ pc[w] \in Storing \cup {"item"} => local[w].stage \in 1..4
  /\ pc[w] = "link" => local[w].stage = 4 /\ local[w].todo = {}

StageInv == \A w \in Workers : Staged(w)

\* A row names the execution it is of, and its place in it.
OfExecution(r, j, a) == r.id[1] = j /\ r.id[2] = a

RowInv ==
  /\ \A r \in records \cup chunks : /\ r.id \in RowId /\ r.id[1] \in Job
                                    /\ r.id[2] \in 1..runs[r.id[1]] /\ r.id[3] >= 1
  /\ \A r \in records : r.job = IF r.kind = "event" THEN r.id[1] ELSE 0
  /\ \A c \in chunks : /\ c.job = c.id[1] /\ c.kind \in Kind \cup {"turn"}
                       /\ c.kind = "turn" => c.id[3] = 1
  /\ \A a, b \in records \cup chunks : a.id = b.id => a = b

\* No row of an execution has a number its worker has not given yet.
Numbered(w) ==
  Working(w) =>
    \A r \in records \cup chunks :
        OfExecution(r, job[w], runs[job[w]]) => r.id[3] <= local[w].made

IdInv == RowInv /\ \A w \in Workers : Numbered(w)

EdgeInv == edges \subseteq Id \X (Id \cup {Home})

\* An execution stores an event once: those it has stored are not left to do.
EventsOnce ==
  \A r, s \in OfKind("event") : r.key = s.key /\ OfExecution(r, s.id[1], s.id[2]) => r = s
EventsLeft(w) ==
  Working(w) =>
    \A r \in OfKind("event") :
        OfExecution(r, job[w], runs[job[w]]) =>
            local[w].stage >= 1 /\ (local[w].stage = 1 => r.key \notin local[w].todo)

EventInv == EventsOnce /\ \A w \in Workers : EventsLeft(w)

\* The summary while one worker works: what it was read, and whose turn it has to cover.
Covered(j, set) == j \in set \/ messages >= j + Window

HasWritten(w) == pc[w] = "save_turn" \/ (Working(w) /\ pc[w] \notin Early)

ReadInv(w) ==
  /\ local[w].previous \subseteq 1..messages /\ local[w].recent \subseteq 1..messages
  /\ pc[w] = "write_summary" => Covered(job[w], local[w].recent)

WrittenInv(w) ==
  /\ pc[w] \in {"read_messages", "write_summary"} => local[w].previous = summary
  /\ HasWritten(w) => Covered(job[w], summary)

OneWorks == \A v, w \in Workers : pc[v] # "idle" /\ pc[w] # "idle" => v = w

SummaryInv ==
  /\ summary \subseteq 1..messages
  /\ \A w \in Workers : ReadInv(w)
  /\ alone => OneWorks /\ \A w \in Workers : WrittenInv(w)

\* What was listed and what was stored since is all there is, unless the list was cut off.
KnowsAll(w) ==
  \/ OfKind(KindOf(w)) \subseteq local[w].existing \cup local[w].saved
  \/ KindOf(w) = "fact" /\ Cardinality(OfKind("fact")) > FactLimit

Listing(w) ==
  /\ \A r \in local[w].saved : \E i \in 1..local[w].stage : r.kind = Kinds[i]
  /\ local[w].stage >= 2 => local[w].existing \subseteq OfKind(KindOf(w))
  /\ local[w].stage >= 1 =>
        \A r \in local[w].saved : r.kind = KindOf(w) => r.key \notin local[w].todo
  /\ alone /\ local[w].stage >= 2 => KnowsAll(w)

EntityInv == \A w \in Workers : Working(w) => Listing(w)

\* A chunk of a job that is attached to the session, and an edge that is there or will be.
ChunkOf(c, j, kind, key) == c \in chunks /\ c.kind = kind /\ c.key = key /\ c.job = j
Linked(w, a, b) == <<a, b>> \in local[w].links \/ Related(a, b)

\* What an execution has stored so far, and what it still has to attach or link.
Turned(w) ==
  \E c \in chunks : ChunkOf(c, job[w], "turn", "reply") /\ c.id = local[w].turnChunk
Attached(w, r) == (pc[w] = "attach_item" /\ r = local[w].item) \/ Related(r.id, Home)
Embedded(w, r) ==
  \/ pc[w] \in Storing /\ r = local[w].item
  \/ \E c \in chunks : /\ ChunkOf(c, job[w], r.kind, r.key) /\ Related(c.id, Home)
                       /\ r.kind = "fact" => Linked(w, c.id, r.id)
Told(w, r) ==
  \/ pc[w] \in {"attach_item", "embed"} /\ r = local[w].item
  \/ r.kind = "fact" => Linked(w, local[w].turnChunk, r.id)

TurnInv(w) ==
  /\ pc[w] = "attach_turn" => Turned(w) /\ local[w].current = local[w].turnChunk
  /\ Working(w) /\ pc[w] \notin Early \cup {"attach_turn"} =>
        Turned(w) /\ Related(local[w].turnChunk, Home)

ItemInv(w) ==
  /\ pc[w] \in Storing => local[w].item \in local[w].saved /\ local[w].item.kind = KindOf(w)
  /\ pc[w] = "attach_item" => local[w].current = local[w].item.id
  /\ pc[w] = "attach_chunk" =>
        /\ \E c \in chunks : /\ ChunkOf(c, job[w], local[w].item.kind, local[w].item.key)
                             /\ c.id = local[w].current
        /\ local[w].item.kind = "fact" => Linked(w, local[w].current, local[w].item.id)

SavedInv(w) ==
  Working(w) =>
    \A r \in local[w].saved : /\ r \in records /\ r.job \in {0, job[w]}
                              /\ Attached(w, r) /\ Embedded(w, r) /\ Told(w, r)

DoneInv(w) ==
  Working(w) =>
    /\ \A i \in 1..local[w].stage : \A key \in local[w].extraction[Kinds[i]] :
          \/ i = local[w].stage /\ key \in local[w].todo
          \/ \E r \in local[w].saved : r.kind = Kinds[i] /\ r.key = key
    /\ pc[w] = "link" =>
          /\ \A e \in Saved(w, "event"), r \in Saved(w, "character") \cup Saved(w, "location") :
                Linked(w, e.id, r.id)
          /\ \A c \in Saved(w, "character"), f \in Saved(w, "fact") :
                Knows(c, f) => Linked(w, c.id, f.id)

LinksInv(w) == Working(w) => local[w].links \subseteq Id \X Id

Progress(w) == TurnInv(w) /\ ItemInv(w) /\ SavedInv(w) /\ DoneInv(w) /\ LinksInv(w)

ProgressInv == \A w \in Workers : Progress(w)

IInv ==
  /\ TypedInv /\ LifeInv /\ GrantInv /\ HeldInv /\ StageInv /\ IdInv /\ EdgeInv /\ EventInv
  /\ SummaryInv /\ EntityInv /\ ProgressInv /\ UniqueEntities /\ SucceededIsComplete /\ SummaryCovers

-----------------------------------------------------------------------------
(* What workers hold, and the steps they take.                             *)

\* Who does not act stays.
OthersKept(w) ==
  \A v \in Workers \ {w} : pc'[v] = pc[v] /\ job'[v] = job[v] /\ local'[v] = local[v]

\* The parts of what a worker holds.
LEMMA LocalFields ==
  ASSUME NEW l \in Local
  PROVE  /\ l.previous \in SUBSET Nat /\ l.recent \in SUBSET Nat
         /\ l.extraction \in Extractions \cup {Nothing} /\ l.stage \in 0..4
         /\ l.todo \in SUBSET Key /\ l.existing \in SUBSET Row /\ l.made \in Nat
         /\ l.current \in RowId /\ l.turnChunk \in RowId /\ l.item \in Row \cup {[id |-> Home]}
         /\ l.saved \in SUBSET Row /\ l.links \in SUBSET (RowId \X RowId)
BY DEF Local

\* A worker starts with empty variables.
LEMMA FreshIsLocal ==
  /\ Fresh \in Local /\ Fresh.stage = 0 /\ Fresh.made = 0 /\ Fresh.previous = {}
  /\ Fresh.recent = {} /\ Fresh.links = {} /\ Fresh.saved = {} /\ Fresh.existing = {}
<1>1. Home \in RowId
  BY DEF Home, RowId
<1> QED
  BY <1>1 DEF Fresh, Local

\* Who acts gets what its step gives it, and the others keep what they hold.
LEMMA Acts ==
  ASSUME TypedInv, NEW w \in Workers, NEW l \in Local, local' = [local EXCEPT ![w] = l]
  PROVE  /\ local' \in [Workers -> Local] /\ local'[w] = l
         /\ \A v \in Workers \ {w} : local'[v] = local[v]
BY DEF TypedInv

\* So with where it goes.
LEMMA Goes ==
  ASSUME TypedInv, NEW w \in Workers, NEW to \in Place, pc' = [pc EXCEPT ![w] = to]
  PROVE  /\ pc' \in [Workers -> Place] /\ pc'[w] = to
         /\ \A v \in Workers \ {w} : pc'[v] = pc[v]
BY DEF TypedInv

\* The types of a worker's state, one worker at a time.
LEMMA WorkerTypes ==
  ASSUME TypedInv, NEW w \in Workers
  PROVE  /\ local[w] \in Local /\ pc[w] \in Place /\ job[w] \in Job \cup {0}
         /\ local \in [Workers -> Local]
         /\ \A j \in Job : runs[j] \in Nat /\ j \in Nat /\ j # 0
         /\ records \subseteq Row /\ IsFiniteSet(records) /\ messages \in Nat
<1>1. \A j \in Job : j \in Nat /\ j # 0
  BY DEF Job
<1> QED
  BY <1>1 DEF TypedInv

\* The id of the row that comes next is one, of the job and the execution.
LEMMA NewIdFacts ==
  ASSUME TypedInv, NEW w \in Workers, job[w] \in Job
  PROVE  /\ NewId(w) \in RowId /\ NewId(w)[1] = job[w] /\ NewId(w)[2] = runs[job[w]]
         /\ NewId(w)[3] = local[w].made + 1 /\ local[w].made \in Nat
         /\ local[w].made + 1 \in Nat /\ runs[job[w]] \in Nat
<1>1. job[w] \in Nat /\ runs[job[w]] \in Nat
  BY WorkerTypes
<1>2. local[w].made \in Nat
  BY WorkerTypes, LocalFields
<1>3. local[w].made + 1 \in Nat
  BY <1>2
<1> QED
  BY <1>1, <1>2, <1>3 DEF NewId, RowId

\* A worker has moved, and the others have not.
Moved(w, to) ==
  /\ pc' \in [Workers -> Place] /\ local' \in [Workers -> Local]
  /\ job' \in [Workers -> Job \cup {0}]
  /\ pc'[w] = to /\ OthersKept(w)

\* The steps of an execution that leave the worker its job.
LEMMA MovesOn ==
  ASSUME TypedInv, NEW w \in Workers, NEW l \in Local, NEW to \in Place,
         local' = [local EXCEPT ![w] = l], pc' = [pc EXCEPT ![w] = to], job' = job
  PROVE  Moved(w, to) /\ local'[w] = l
<1>1. job' \in [Workers -> Job \cup {0}] /\ \A v \in Workers : job'[v] = job[v]
  BY DEF TypedInv
<1>2. local' \in [Workers -> Local] /\ local'[w] = l /\ \A v \in Workers \ {w} : local'[v] = local[v]
  BY Acts
<1>3. pc' \in [Workers -> Place] /\ pc'[w] = to /\ \A v \in Workers \ {w} : pc'[v] = pc[v]
  BY Goes
<1> QED
  BY <1>1, <1>2, <1>3 DEF Moved, OthersKept

\* A claim: a job of the lifecycle is taken and the worker begins to read.
LEMMA ClaimMoves ==
  ASSUME TypedInv, NEW w \in Workers, Claim(w)
  PROVE  \E j \in Job : /\ Lifecycle!Claim(j) /\ job'[w] = j /\ pc[w] = "idle"
                        /\ runs' = [runs EXCEPT ![j] = runs[j] + 1]
                        /\ Moved(w, "read_summary") /\ local'[w] = Fresh
<1>1. /\ pc[w] = "idle" /\ pc' = [pc EXCEPT ![w] = "read_summary"]
      /\ local' = [local EXCEPT ![w] = Fresh]
  BY DEF Claim, Goto
<1>2. PICK j \in Job : /\ Lifecycle!Claim(j) /\ job' = [job EXCEPT ![w] = j]
                       /\ runs' = [runs EXCEPT ![j] = runs[j] + 1]
  BY DEF Claim
<1>3. job' \in [Workers -> Job \cup {0}] /\ job'[w] = j /\ \A v \in Workers \ {w} : job'[v] = job[v]
  BY <1>2 DEF TypedInv
<1>4. local' \in [Workers -> Local] /\ local'[w] = Fresh /\ \A v \in Workers \ {w} : local'[v] = local[v]
  BY <1>1, FreshIsLocal, Acts
<1>5. pc' \in [Workers -> Place] /\ pc'[w] = "read_summary" /\ \A v \in Workers \ {w} : pc'[v] = pc[v]
  BY <1>1, Goes DEF Place
<1> QED
  BY <1>1, <1>2, <1>3, <1>4, <1>5 DEF Moved, OthersKept

\* A worker that becomes idle holds no job and forgets its variables.
LEMMA IdleMoves ==
  ASSUME TypedInv, NEW w \in Workers, Idle(w)
  PROVE  Moved(w, "idle") /\ job'[w] = 0 /\ local'[w] = Fresh
<1>1. /\ pc' = [pc EXCEPT ![w] = "idle"] /\ job' = [job EXCEPT ![w] = 0]
      /\ local' = [local EXCEPT ![w] = Fresh]
  BY DEF Idle
<1>2. job' \in [Workers -> Job \cup {0}] /\ job'[w] = 0 /\ \A v \in Workers \ {w} : job'[v] = job[v]
  BY <1>1 DEF TypedInv
<1>3. local' \in [Workers -> Local] /\ local'[w] = Fresh /\ \A v \in Workers \ {w} : local'[v] = local[v]
  BY <1>1, FreshIsLocal, Acts
<1>4. pc' \in [Workers -> Place] /\ pc'[w] = "idle" /\ \A v \in Workers \ {w} : pc'[v] = pc[v]
  BY <1>1, Goes DEF Place
<1> QED
  BY <1>2, <1>3, <1>4 DEF Moved, OthersKept

\* A worker whose execution fails forgets its variables.
LEMMA FailMoves ==
  ASSUME TypedInv, NEW w \in Workers, Fail(w), job' = job
  PROVE  Moved(w, "failed") /\ local'[w] = Fresh
<1>1. pc' = [pc EXCEPT ![w] = "failed"] /\ local' = [local EXCEPT ![w] = Fresh]
  BY DEF Fail
<1>2. "failed" \in Place
  BY DEF Place
<1> QED
  BY <1>1, <1>2, FreshIsLocal, MovesOn

\* What a worker holds, but for what it reads.
KeepsPlan(w) ==
  /\ local'[w].extraction = local[w].extraction /\ local'[w].stage = local[w].stage
  /\ local'[w].existing = local[w].existing
KeepsWork(w) ==
  /\ local'[w].todo = local[w].todo /\ local'[w].item = local[w].item
  /\ local'[w].saved = local[w].saved
KeepsRead(w) == local'[w].previous = local[w].previous /\ local'[w].recent = local[w].recent
KeepsHand(w) ==
  /\ local'[w].made = local[w].made /\ local'[w].current = local[w].current
  /\ local'[w].turnChunk = local[w].turnChunk

\* What the worker knows after it read the summary.
LEMMA ReadSummaryMoves ==
  ASSUME TypedInv, SummaryInv, NEW w \in Workers, ReadSummary(w)
  PROVE  /\ pc[w] = "read_summary" /\ Moved(w, "read_messages") /\ job'[w] = job[w]
         /\ local'[w].previous = summary /\ local'[w].recent = local[w].recent
         /\ KeepsPlan(w) /\ KeepsWork(w) /\ KeepsHand(w) /\ local'[w].links = local[w].links
<1> DEFINE l == local[w]
           m == [l EXCEPT !.previous = summary]
<1>1. /\ pc[w] = "read_summary" /\ pc' = [pc EXCEPT ![w] = "read_messages"]
      /\ local' = [local EXCEPT ![w] = m] /\ job' = job /\ "read_messages" \in Place
  BY DEF ReadSummary, Goto, Place
<1>2. l \in Local /\ summary \in SUBSET Nat
  BY WorkerTypes DEF SummaryInv
<1>3. /\ m \in Local /\ m.previous = summary /\ m.recent = l.recent /\ m.extraction = l.extraction
      /\ m.stage = l.stage /\ m.todo = l.todo /\ m.existing = l.existing /\ m.made = l.made
      /\ m.current = l.current /\ m.turnChunk = l.turnChunk /\ m.item = l.item
      /\ m.saved = l.saved /\ m.links = l.links
  BY <1>2 DEF Local
<1> HIDE DEF m
<1>4. Moved(w, "read_messages") /\ local'[w] = m
  BY <1>1, <1>3, MovesOn
<1> QED
  BY <1>1, <1>3, <1>4 DEF KeepsPlan, KeepsWork, KeepsHand

\* What it knows after it read the latest messages.
LEMMA ReadMessagesMoves ==
  ASSUME TypedInv, NEW w \in Workers, ReadMessages(w)
  PROVE  /\ pc[w] = "read_messages" /\ Moved(w, "write_summary") /\ job'[w] = job[w]
         /\ local'[w].recent = Recent /\ local'[w].previous = local[w].previous
         /\ KeepsPlan(w) /\ KeepsWork(w) /\ KeepsHand(w) /\ local'[w].links = local[w].links
<1> DEFINE l == local[w]
           s == Recent
           m == [l EXCEPT !.recent = s]
<1>1. /\ pc[w] = "read_messages" /\ pc' = [pc EXCEPT ![w] = "write_summary"]
      /\ local' = [local EXCEPT ![w] = m] /\ job' = job /\ "write_summary" \in Place
  BY DEF ReadMessages, Goto, Place
<1>2. l \in Local /\ s \in SUBSET Nat
  BY WorkerTypes DEF Recent
<1> HIDE DEF l, s
<1>3. /\ m \in Local /\ m.previous = l.previous /\ m.recent = s /\ m.extraction = l.extraction
      /\ m.stage = l.stage /\ m.todo = l.todo /\ m.existing = l.existing /\ m.made = l.made
      /\ m.current = l.current /\ m.turnChunk = l.turnChunk /\ m.item = l.item
      /\ m.saved = l.saved /\ m.links = l.links
  BY <1>2 DEF Local
<1> HIDE DEF m
<1>4. Moved(w, "write_summary") /\ local'[w] = m
  BY <1>1, <1>3, MovesOn
<1> QED
  BY <1>1, <1>3, <1>4 DEF KeepsPlan, KeepsWork, KeepsHand, l, s

\* The steps that change nothing but where the worker is.
LEMMA PlaceMoves ==
  ASSUME TypedInv, NEW w \in Workers, NEW to \in Place,
         pc' = [pc EXCEPT ![w] = to], job' = job, local' = local
  PROVE  Moved(w, to) /\ \A v \in Workers : local'[v] = local[v] /\ job'[v] = job[v]
<1>1. pc' \in [Workers -> Place] /\ pc'[w] = to /\ \A v \in Workers \ {w} : pc'[v] = pc[v]
  BY Goes
<1> QED
  BY <1>1 DEF Moved, OthersKept, TypedInv

\* The written summary moves the worker on and changes no variable of any.
LEMMA WriteSummaryMoves ==
  ASSUME TypedInv, NEW w \in Workers, WriteSummary(w)
  PROVE  /\ pc[w] = "write_summary" /\ Moved(w, "save_turn")
         /\ \A v \in Workers : local'[v] = local[v] /\ job'[v] = job[v]
<1>1. /\ pc[w] = "write_summary" /\ pc' = [pc EXCEPT ![w] = "save_turn"]
      /\ job' = job /\ local' = local /\ "save_turn" \in Place
  BY DEF WriteSummary, Goto, Place
<1> QED
  BY <1>1, PlaceMoves

\* Where what was stored is attached from, and where the worker goes on.
AttachStep(from, to) ==
  \/ from = "attach_turn" /\ to = "extract"
  \/ from = "attach_item" /\ to = "embed"
  \/ from = "attach_chunk" /\ to = "item"

AttachFrom(w) == pc[w] \in {"attach_turn", "attach_item", "attach_chunk"}

\* An attached edge moves the worker on and changes no variable of any.
LEMMA AttachMoves ==
  ASSUME TypedInv, NEW w \in Workers, Attach(w)
  PROVE  \E to \in Place : /\ AttachStep(pc[w], to) /\ Moved(w, to)
                           /\ \A v \in Workers : local'[v] = local[v] /\ job'[v] = job[v]
<1>1. job' = job /\ local' = local
  BY DEF Attach
<1>2. PICK to \in Place : AttachStep(pc[w], to) /\ pc' = [pc EXCEPT ![w] = to]
  BY DEF Attach, Goto, AttachStep, Place
<1>3. Moved(w, to) /\ \A v \in Workers : local'[v] = local[v] /\ job'[v] = job[v]
  BY <1>1, <1>2, PlaceMoves
<1> QED
  BY <1>2, <1>3

\* The chunk of the turn gets a new id, which the worker keeps.
LEMMA SaveTurnMoves ==
  ASSUME TypedInv, NEW w \in Workers, job[w] \in Job, SaveTurn(w)
  PROVE  /\ pc[w] = "save_turn" /\ Moved(w, "attach_turn") /\ job'[w] = job[w]
         /\ local'[w].turnChunk = NewId(w) /\ local'[w].current = NewId(w)
         /\ local'[w].made = local[w].made + 1
         /\ KeepsRead(w) /\ KeepsPlan(w) /\ KeepsWork(w) /\ local'[w].links = local[w].links
<1> DEFINE l == local[w]
           i == NewId(w)
           n == l.made + 1
           m == [l EXCEPT !.turnChunk = i, !.current = i, !.made = n]
<1>1. /\ pc[w] = "save_turn" /\ pc' = [pc EXCEPT ![w] = "attach_turn"]
      /\ local' = [local EXCEPT ![w] = m] /\ job' = job /\ "attach_turn" \in Place
  BY DEF SaveTurn, Goto, Place
<1>2. l \in Local /\ i \in RowId /\ n \in Nat
  BY WorkerTypes, NewIdFacts
<1> HIDE DEF i, n, l
<1>3. /\ m \in Local /\ m.previous = l.previous /\ m.recent = l.recent
      /\ m.extraction = l.extraction /\ m.stage = l.stage /\ m.todo = l.todo
      /\ m.existing = l.existing /\ m.made = n /\ m.current = i /\ m.turnChunk = i
      /\ m.item = l.item /\ m.saved = l.saved /\ m.links = l.links
  BY <1>2 DEF Local
<1> HIDE DEF m
<1>4. Moved(w, "attach_turn") /\ local'[w] = m
  BY <1>1, <1>3, MovesOn
<1> QED
  BY <1>1, <1>3, <1>4 DEF KeepsPlan, KeepsWork, KeepsRead, i, n, l

\* The kinds, in the order in which they are stored.
LEMMA KindsFacts ==
  /\ Len(Kinds) = 4
  /\ Kinds[1] = "event" /\ Kinds[2] = "character" /\ Kinds[3] = "fact" /\ Kinds[4] = "location"
  /\ \A i \in 1..4 : Kinds[i] \in Kind
  /\ \A i, k \in 1..4 : Kinds[i] = Kinds[k] => i = k
  /\ \A kind \in Kind : \E i \in 1..4 : Kinds[i] = kind
<1>1. Kinds = <<"event", "character", "fact", "location">>
  BY DEF Kinds
<1>2. /\ Len(Kinds) = 4
      /\ Kinds[1] = "event" /\ Kinds[2] = "character" /\ Kinds[3] = "fact" /\ Kinds[4] = "location"
  BY <1>1
<1>3. \A i \in 1..4 : i = 1 \/ i = 2 \/ i = 3 \/ i = 4
  OBVIOUS
<1>4. \A i \in 1..4 : Kinds[i] \in Kind
  BY <1>2, <1>3 DEF Kind
<1>5. \A i, k \in 1..4 : Kinds[i] = Kinds[k] => i = k
  BY <1>2, <1>3
<1>6. \A kind \in Kind : \E i \in 1..4 : Kinds[i] = kind
  BY <1>2 DEF Kind
<1> QED
  BY <1>2, <1>4, <1>5, <1>6

\* What is extracted of a kind are keys.
LEMMA ExtractionKeys ==
  ASSUME NEW x \in Extractions \cup {Nothing}, NEW k \in Kind
  PROVE  x[k] \subseteq Key
<1>1. CASE x \in Extractions
  BY <1>1 DEF Key
<1>2. CASE x = Nothing
  BY <1>2 DEF Nothing
<1> QED
  BY <1>1, <1>2

\* The extraction becomes the plan of the worker, events first.
LEMMA ExtractMoves ==
  ASSUME TypedInv, NEW w \in Workers, Extract(w)
  PROVE  \E x \in Extractions :
            /\ pc[w] = "extract" /\ Moved(w, "item") /\ job'[w] = job[w]
            /\ local'[w].extraction = x /\ local'[w].stage = 1 /\ local'[w].todo = x["event"]
            /\ local'[w].existing = local[w].existing /\ local'[w].item = local[w].item
            /\ local'[w].saved = local[w].saved
            /\ KeepsRead(w) /\ KeepsHand(w) /\ local'[w].links = local[w].links
<1>1. PICK x \in Extractions :
         local' = [local EXCEPT ![w].extraction = x, ![w].stage = 1, ![w].todo = x["event"]]
  BY DEF Extract
<1> DEFINE l == local[w]
           t == x["event"]
           m == [l EXCEPT !.extraction = x, !.stage = 1, !.todo = t]
<1>2. /\ pc[w] = "extract" /\ pc' = [pc EXCEPT ![w] = "item"]
      /\ local' = [local EXCEPT ![w] = m] /\ job' = job /\ "item" \in Place
  BY <1>1 DEF Extract, Goto, Place
<1>3. l \in Local /\ t \in SUBSET Key /\ 1 \in 0..4
  <2>1. "event" \in Kind
    BY DEF Kind
  <2> QED
    BY <2>1, WorkerTypes, ExtractionKeys
<1> HIDE DEF l, t
<1>4. /\ m \in Local /\ m.previous = l.previous /\ m.recent = l.recent
      /\ m.extraction = x /\ m.stage = 1 /\ m.todo = t /\ m.existing = l.existing
      /\ m.made = l.made /\ m.current = l.current /\ m.turnChunk = l.turnChunk
      /\ m.item = l.item /\ m.saved = l.saved /\ m.links = l.links
  BY <1>3 DEF Local
<1> HIDE DEF m
<1>5. Moved(w, "item") /\ local'[w] = m
  BY <1>2, <1>3, <1>4, MovesOn DEF l
<1> QED
  BY <1>2, <1>4, <1>5 DEF KeepsRead, KeepsHand, l, t

\* What is listed of a kind is of it, and is all unless there are too many facts.
LEMMA ListedFacts ==
  ASSUME NEW kind, NEW listed \in Listed(kind)
  PROVE  /\ listed \subseteq OfKind(kind)
         /\ \/ listed = OfKind(kind)
            \/ kind = "fact" /\ Cardinality(OfKind(kind)) > FactLimit
<1>1. CASE kind = "fact" /\ Cardinality(OfKind(kind)) > FactLimit
  <2>1. listed \in kSubset(FactLimit, OfKind(kind))
    BY <1>1 DEF Listed
  <2> QED
    BY <1>1, <2>1 DEF kSubset
<1>2. CASE ~(kind = "fact" /\ Cardinality(OfKind(kind)) > FactLimit)
  <2>1. listed \in {OfKind(kind)}
    BY <1>2 DEF Listed
  <2> QED
    BY <2>1
<1> QED
  BY <1>1, <1>2

\* The next kind of records begins with a look at those of the game there
\* are.
LEMMA NextKindMoves ==
  ASSUME TypedInv, NEW w \in Workers, NextKind(w)
  PROVE  LET kind == Kinds[local[w].stage + 1]
         IN  \E listed \in Listed(kind) :
                /\ pc[w] = "item" /\ Moved(w, "item") /\ job'[w] = job[w] /\ local[w].todo = {}
                /\ local[w].stage \in 0..3
                /\ local'[w].extraction = local[w].extraction
                /\ local'[w].stage = local[w].stage + 1 /\ local'[w].existing = listed
                /\ local'[w].todo = local[w].extraction[kind]
                /\ local'[w].item = local[w].item /\ local'[w].saved = local[w].saved
                /\ KeepsRead(w) /\ KeepsHand(w) /\ local'[w].links = local[w].links
<1> DEFINE l    == local[w]
           n    == l.stage + 1
           kind == Kinds[n]
           t    == l.extraction[kind]
<1>1. PICK listed \in Listed(kind) :
         local' = [local EXCEPT ![w].stage = l.stage + 1, ![w].existing = listed, ![w].todo = t]
  BY DEF NextKind
<1> DEFINE m == [l EXCEPT !.stage = n, !.existing = listed, !.todo = t]
<1>2. /\ pc[w] = "item" /\ pc' = [pc EXCEPT ![w] = "item"] /\ l.todo = {}
      /\ local' = [local EXCEPT ![w] = m] /\ job' = job /\ "item" \in Place
  BY <1>1 DEF NextKind, Goto, Place
<1>3. l \in Local
  BY WorkerTypes
<1>4. l.stage \in 0..3 /\ n \in 0..4 /\ n \in 1..4
  <2>1. l.stage < 4 /\ l.stage \in 0..4
    BY <1>3, KindsFacts, LocalFields DEF NextKind
  <2> QED
    BY <2>1
<1>5. listed \in SUBSET Row
  <2>1. listed \subseteq OfKind(kind)
    BY ListedFacts
  <2>2. OfKind(kind) \subseteq Row
    BY WorkerTypes DEF OfKind
  <2> QED
    BY <2>1, <2>2
<1>6. t \in SUBSET Key
  <2>1. kind \in Kind
    BY <1>4, KindsFacts
  <2>2. l.extraction \in Extractions \cup {Nothing}
    BY <1>3, LocalFields
  <2> HIDE DEF l, kind
  <2> QED
    BY <2>1, <2>2, ExtractionKeys
<1> HIDE DEF l, t, n, kind
<1>7. /\ m \in Local /\ m.previous = l.previous /\ m.recent = l.recent
      /\ m.extraction = l.extraction /\ m.stage = n /\ m.todo = t /\ m.existing = listed
      /\ m.made = l.made /\ m.current = l.current /\ m.turnChunk = l.turnChunk
      /\ m.item = l.item /\ m.saved = l.saved /\ m.links = l.links
  BY <1>3, <1>4, <1>5, <1>6 DEF Local
<1> HIDE DEF m
<1>8. Moved(w, "item") /\ local'[w] = m
  BY <1>2, <1>7, MovesOn
<1> QED
  BY <1>2, <1>4, <1>7, <1>8 DEF KeepsRead, KeepsHand, l, t, n, kind

\* What is stored for a key is a row of the kind and the key: one that was listed, or a new one.
LEMMA RecordFacts ==
  ASSUME TypedInv, EntityInv, NEW w \in Workers, pc[w] = "item", job[w] \in Job,
         local[w].stage \in 1..4, NEW key \in local[w].todo, NEW r \in RecordFor(w, key)
  PROVE  /\ r \in Row /\ key \in Key /\ r.kind = KindOf(w) /\ r.key = key /\ KindOf(w) \in Kind
         /\ \/ /\ r.id = NewId(w) /\ r.job = IF KindOf(w) = "event" THEN job[w] ELSE 0
               /\ KindOf(w) # "event" => \A s \in local[w].existing : s.key # key
            \/ r \in local[w].existing /\ KindOf(w) # "event"
<1>1. local[w] \in Local /\ NewId(w) \in RowId /\ job[w] \in Nat
  BY WorkerTypes, NewIdFacts
<1>2. key \in Key /\ local[w].existing \subseteq Row
  BY <1>1, LocalFields
<1>3. KindOf(w) \in Kind
  BY KindsFacts DEF KindOf
<1> DEFINE known == {s \in local[w].existing : s.key = key}
<1>4. CASE KindOf(w) = "event"
  <2>1. r = [id |-> NewId(w), kind |-> "event", key |-> key, job |-> job[w]]
    BY <1>4 DEF RecordFor
  <2> QED
    BY <1>1, <1>2, <1>3, <1>4, <2>1 DEF Row
<1>5. CASE KindOf(w) # "event" /\ known # {}
  <2>1. r \in local[w].existing /\ r.key = key
    BY <1>5 DEF RecordFor
  <2>2. local[w].stage # 1
    BY <1>5, KindsFacts DEF KindOf
  <2>3. local[w].stage >= 2
    BY <2>2
  <2>4. local[w].existing \subseteq OfKind(KindOf(w))
    BY <2>3 DEF EntityInv, Listing, Working
  <2>5. r.kind = KindOf(w)
    BY <2>1, <2>4 DEF OfKind
  <2> QED
    BY <1>2, <1>3, <1>5, <2>1, <2>5
<1>6. CASE KindOf(w) # "event" /\ known = {}
  <2>1. r = [id |-> NewId(w), kind |-> KindOf(w), key |-> key, job |-> 0]
    BY <1>6 DEF RecordFor
  <2> QED
    BY <1>1, <1>2, <1>3, <1>6, <2>1 DEF Row
<1> QED
  BY <1>4, <1>5, <1>6

\* A record is stored for one item that waits, and the item no longer waits.
LEMMA SaveItemMoves ==
  ASSUME TypedInv, EntityInv, NEW w \in Workers, job[w] \in Job, local[w].stage \in 1..4, SaveItem(w)
  PROVE  \E key \in local[w].todo : \E r \in RecordFor(w, key) :
            /\ pc[w] = "item" /\ Moved(w, "attach_item") /\ job'[w] = job[w]
            /\ records' = records \cup {r} /\ r \in Row
            /\ local'[w].todo = local[w].todo \ {key} /\ local'[w].item = r
            /\ local'[w].current = r.id /\ local'[w].turnChunk = local[w].turnChunk
            /\ local'[w].saved = local[w].saved \cup {r}
            /\ local'[w].made = local[w].made + 1
            /\ KeepsRead(w) /\ KeepsPlan(w) /\ local'[w].links = local[w].links
<1> DEFINE l == local[w]
           n == l.made + 1
<1>0. PICK key \in l.todo : \E r \in RecordFor(w, key) :
         /\ records' = records \cup {r}
         /\ local' = [local EXCEPT ![w].todo = l.todo \ {key}, ![w].item = r, ![w].current = r.id,
                                   ![w].saved = l.saved \cup {r}, ![w].made = n]
  BY DEF SaveItem
<1>1. PICK r \in RecordFor(w, key) :
         /\ records' = records \cup {r}
         /\ local' = [local EXCEPT ![w].todo = l.todo \ {key}, ![w].item = r, ![w].current = r.id,
                                   ![w].saved = l.saved \cup {r}, ![w].made = n]
  BY <1>0
<1> DEFINE t == l.todo \ {key}
           s == l.saved \cup {r}
           i == r.id
           m == [l EXCEPT !.todo = t, !.item = r, !.current = i, !.saved = s, !.made = n]
<1>2. /\ pc[w] = "item" /\ pc' = [pc EXCEPT ![w] = "attach_item"]
      /\ local' = [local EXCEPT ![w] = m] /\ job' = job /\ "attach_item" \in Place
  <2>1. local' = [local EXCEPT ![w] = m]
    BY <1>1
  <2>2. /\ pc[w] = "item" /\ pc' = [pc EXCEPT ![w] = "attach_item"] /\ job' = job
        /\ "attach_item" \in Place
    BY DEF SaveItem, Goto, Place
  <2> QED
    BY <2>1, <2>2
<1>3. r \in Row
  BY <1>2, RecordFacts
<1>4. l \in Local /\ n \in Nat /\ i \in RowId /\ t \in SUBSET Key /\ s \in SUBSET Row
  BY <1>3, WorkerTypes, NewIdFacts, LocalFields DEF Row
<1> HIDE DEF l, t, s, i, n
<1>5. /\ m \in Local /\ m.previous = l.previous /\ m.recent = l.recent
      /\ m.extraction = l.extraction /\ m.stage = l.stage /\ m.todo = t
      /\ m.existing = l.existing /\ m.made = n /\ m.current = i
      /\ m.turnChunk = l.turnChunk /\ m.item = r /\ m.saved = s /\ m.links = l.links
  BY <1>3, <1>4 DEF Local
<1> HIDE DEF m
<1>6. Moved(w, "attach_item") /\ local'[w] = m
  BY <1>2, <1>5, MovesOn
<1>7. key \in local[w].todo
  BY <1>1 DEF l
<1> QED
  BY <1>1, <1>2, <1>3, <1>5, <1>6, <1>7 DEF KeepsRead, KeepsPlan, l, t, s, i, n

\* The chunk of a record gets a new id; for a fact its edge is remembered.
LEMMA EmbedMoves ==
  ASSUME TypedInv, NEW w \in Workers, job[w] \in Job, Embed(w)
  PROVE  /\ pc[w] = "embed" /\ Moved(w, "attach_chunk") /\ job'[w] = job[w]
         /\ local'[w].current = NewId(w) /\ local'[w].turnChunk = local[w].turnChunk
         /\ local'[w].made = local[w].made + 1
         /\ local'[w].links =
               IF KindOf(w) = "fact"
               THEN local[w].links \cup {<<local[w].turnChunk, local[w].item.id>>,
                                         <<NewId(w), local[w].item.id>>}
               ELSE local[w].links
         /\ KeepsRead(w) /\ KeepsPlan(w) /\ KeepsWork(w)
<1> DEFINE l == local[w]
           i == NewId(w)
           n == l.made + 1
           k == IF KindOf(w) = "fact"
                THEN l.links \cup {<<l.turnChunk, l.item.id>>, <<i, l.item.id>>}
                ELSE l.links
           m == [l EXCEPT !.current = i, !.made = n, !.links = k]
<1>1. /\ pc[w] = "embed" /\ pc' = [pc EXCEPT ![w] = "attach_chunk"]
      /\ local' = [local EXCEPT ![w] = m] /\ job' = job /\ "attach_chunk" \in Place
  BY DEF Embed, Goto, Place
<1>2. l \in Local /\ i \in RowId /\ n \in Nat
  BY WorkerTypes, NewIdFacts
<1>3. k \in SUBSET (RowId \X RowId)
  <2>1. l.links \subseteq RowId \X RowId /\ l.turnChunk \in RowId /\ l.item \in Row \cup {[id |-> Home]}
    BY <1>2, LocalFields
  <2>2. l.item.id \in RowId
    <3>1. Home \in RowId
      BY DEF Home, RowId
    <3>2. \A r \in Row : r.id \in RowId
      BY DEF Row
    <3> QED
      BY <2>1, <3>1, <3>2
  <2> QED
    BY <1>2, <2>1, <2>2
<1> HIDE DEF l, i, n, k
<1>4. /\ m \in Local /\ m.previous = l.previous /\ m.recent = l.recent
      /\ m.extraction = l.extraction /\ m.stage = l.stage /\ m.todo = l.todo
      /\ m.existing = l.existing /\ m.made = n /\ m.current = i
      /\ m.turnChunk = l.turnChunk /\ m.item = l.item /\ m.saved = l.saved /\ m.links = k
  BY <1>2, <1>3 DEF Local
<1> HIDE DEF m
<1>5. Moved(w, "attach_chunk") /\ local'[w] = m
  BY <1>1, <1>4, MovesOn
<1> QED
  BY <1>1, <1>4, <1>5 DEF KeepsRead, KeepsPlan, KeepsWork, l, i, n, k

\* The steps that change nothing but the links to make, and where the worker is.
LEMMA LinkMoves ==
  ASSUME TypedInv, NEW w \in Workers, NEW k \in SUBSET (RowId \X RowId), NEW to \in Place,
         local' = [local EXCEPT ![w].links = k], pc' = [pc EXCEPT ![w] = to], job' = job
  PROVE  /\ Moved(w, to) /\ job'[w] = job[w] /\ local'[w].links = k
         /\ KeepsRead(w) /\ KeepsPlan(w) /\ KeepsWork(w) /\ KeepsHand(w)
<1> DEFINE l == local[w]
           m == [l EXCEPT !.links = k]
<1>1. local' = [local EXCEPT ![w] = m]
  OBVIOUS
<1>2. l \in Local
  BY WorkerTypes
<1> HIDE DEF l
<1>3. /\ m \in Local /\ m.previous = l.previous /\ m.recent = l.recent
      /\ m.extraction = l.extraction /\ m.stage = l.stage /\ m.todo = l.todo
      /\ m.existing = l.existing /\ m.made = l.made /\ m.current = l.current
      /\ m.turnChunk = l.turnChunk /\ m.item = l.item /\ m.saved = l.saved /\ m.links = k
  BY <1>2 DEF Local
<1> HIDE DEF m
<1>4. Moved(w, to) /\ local'[w] = m
  BY <1>1, <1>3, MovesOn
<1> QED
  BY <1>3, <1>4 DEF KeepsRead, KeepsPlan, KeepsWork, KeepsHand, l

\* What is saved of a kind are rows of it, so the graph's edges are pairs of ids.
LEMMA GraphTypes ==
  ASSUME TypedInv, NEW w \in Workers
  PROVE  Graph(w) \subseteq RowId \X RowId
<1>1. \A kind : Saved(w, kind) \subseteq Row
  BY WorkerTypes, LocalFields DEF Saved
<1>2. \A r \in Row : r.id \in RowId
  BY DEF Row
<1> QED
  BY <1>1, <1>2 DEF Graph

\* After the last record the worker turns to the edges among them.
LEMMA StartLinksMoves ==
  ASSUME TypedInv, NEW w \in Workers, StartLinks(w)
  PROVE  /\ pc[w] = "item" /\ local[w].todo = {} /\ local[w].stage = 4
         /\ Moved(w, "link") /\ job'[w] = job[w]
         /\ local'[w].links = local[w].links \cup Graph(w)
         /\ KeepsRead(w) /\ KeepsPlan(w) /\ KeepsWork(w) /\ KeepsHand(w)
<1> DEFINE k == local[w].links \cup Graph(w)
<1>1. /\ pc[w] = "item" /\ pc' = [pc EXCEPT ![w] = "link"] /\ local[w].todo = {}
      /\ local[w].stage = 4 /\ local' = [local EXCEPT ![w].links = k] /\ job' = job
      /\ "link" \in Place
  BY KindsFacts DEF StartLinks, Goto, Place
<1>2. k \in SUBSET (RowId \X RowId)
  BY WorkerTypes, LocalFields, GraphTypes
<1> HIDE DEF k
<1>3. /\ Moved(w, "link") /\ job'[w] = job[w] /\ local'[w].links = k
      /\ KeepsRead(w) /\ KeepsPlan(w) /\ KeepsWork(w) /\ KeepsHand(w)
  BY <1>1, <1>2, LinkMoves
<1> QED
  BY <1>1, <1>3 DEF k

\* A linked edge is in the store and no longer waits.
LEMMA LinkStep ==
  ASSUME TypedInv, NEW w \in Workers, Link(w)
  PROVE  \E edge \in local[w].links :
            /\ pc[w] = "link" /\ Moved(w, "link") /\ job'[w] = job[w]
            /\ edges' = edges \cup {edge} /\ local'[w].links = local[w].links \ {edge}
            /\ KeepsRead(w) /\ KeepsPlan(w) /\ KeepsWork(w) /\ KeepsHand(w)
<1> DEFINE edge == CHOOSE e \in local[w].links : TRUE
           k == local[w].links \ {edge}
<1>1. /\ pc[w] = "link" /\ pc' = [pc EXCEPT ![w] = "link"] /\ edge \in local[w].links
      /\ local' = [local EXCEPT ![w].links = k] /\ job' = job /\ edges' = edges \cup {edge}
      /\ "link" \in Place
  BY DEF Link, Goto, Place
<1>2. k \in SUBSET (RowId \X RowId)
  BY WorkerTypes, LocalFields
<1> HIDE DEF k
<1>3. /\ Moved(w, "link") /\ job'[w] = job[w] /\ local'[w].links = k
      /\ KeepsRead(w) /\ KeepsPlan(w) /\ KeepsWork(w) /\ KeepsHand(w)
  BY <1>1, <1>2, LinkMoves
<1> QED
  BY <1>1, <1>3 DEF k

-----------------------------------------------------------------------------
(* Jobs and the workers that run them.                                     *)

\* The steps of an execution between the claim and the end.
Going(w) ==
  \/ ReadSummary(w) \/ ReadMessages(w) \/ WriteSummary(w) \/ SaveTurn(w)
  \/ Attach(w) \/ Extract(w) \/ NextKind(w) \/ SaveItem(w) \/ Embed(w) \/ StartLinks(w)
  \/ Link(w) \/ CallFails(w) \/ RelateFails(w)

\* A step of an execution that goes on: the worker keeps its job, and no job is moved.
OnJob(w, to) ==
  /\ Moved(w, to) /\ job'[w] = job[w] /\ pc[w] # "idle" /\ to # "idle"
  /\ UNCHANGED <<messages, phase, attempts, granted, runs, allowed, outcome, alone>>

\* Who is not idle has a job that runs.
LEMMA HasJob ==
  ASSUME TypedInv, LifeInv, HeldInv, NEW w \in Workers, pc[w] # "idle"
  PROVE  job[w] \in Job /\ phase[job[w]] = "running" /\ runs[job[w]] >= 1
                        /\ job[w] <= messages /\ job[w] # 0
<1>1. job[w] \in Job /\ phase[job[w]] = "running" /\ job[w] # 0
  BY WorkerTypes DEF HeldInv
<1> QED
  BY <1>1 DEF LifeInv

\* Which steps go on with a job.
LEMMA GoesOn ==
  ASSUME TypedInv, LifeInv, HeldInv, StageInv, SummaryInv, EntityInv, NEW w \in Workers,
         Going(w)
  PROVE  \E to \in Place : OnJob(w, to)
<1> DEFINE Same == UNCHANGED <<messages, phase, attempts, granted, runs, allowed, outcome, alone>>
<1>0. \A to : to \in Place /\ Moved(w, to) /\ job'[w] = job[w] /\ pc[w] # "idle" /\ to # "idle" /\ Same
                 => OnJob(w, to)
  BY DEF OnJob
<1>1. CASE ReadSummary(w)
  <2>1. Same
    BY <1>1 DEF ReadSummary, jobs, counts, ghosts
  <2> QED
    BY <1>0, <1>1, <2>1, ReadSummaryMoves DEF Place
<1>2. CASE ReadMessages(w)
  <2>1. Same
    BY <1>2 DEF ReadMessages, jobs, counts, ghosts
  <2> QED
    BY <1>0, <1>2, <2>1, ReadMessagesMoves DEF Place
<1>3. CASE WriteSummary(w)
  <2>1. Same
    BY <1>3 DEF WriteSummary, jobs, counts, ghosts
  <2> QED
    BY <1>0, <1>3, <2>1, WriteSummaryMoves DEF Place
<1>4. CASE SaveTurn(w)
  <2>1. Same /\ pc[w] = "save_turn"
    BY <1>4 DEF SaveTurn, jobs, counts, ghosts, Goto
  <2>2. job[w] \in Job
    BY <2>1, HasJob
  <2> QED
    BY <1>0, <1>4, <2>1, <2>2, SaveTurnMoves DEF Place
<1>5. CASE Attach(w)
  <2>1. Same
    BY <1>5 DEF Attach, jobs, counts, ghosts
  <2>2. PICK to \in Place : AttachStep(pc[w], to) /\ Moved(w, to) /\ job'[w] = job[w]
    BY <1>5, AttachMoves
  <2>3. pc[w] # "idle" /\ to # "idle"
    BY <2>2 DEF AttachStep
  <2> QED
    BY <1>0, <2>1, <2>2, <2>3
<1>6. CASE Extract(w)
  <2>1. Same
    BY <1>6 DEF Extract, jobs, counts, ghosts
  <2>2. pc[w] = "extract" /\ Moved(w, "item") /\ job'[w] = job[w]
    BY <1>6, ExtractMoves
  <2> QED
    BY <1>0, <2>1, <2>2 DEF Place
<1>7. CASE NextKind(w)
  <2>1. Same
    BY <1>7 DEF NextKind, jobs, counts, ghosts
  <2>2. pc[w] = "item" /\ Moved(w, "item") /\ job'[w] = job[w]
    BY <1>7, NextKindMoves
  <2> QED
    BY <1>0, <2>1, <2>2 DEF Place
<1>8. CASE SaveItem(w)
  <2>1. Same /\ pc[w] = "item"
    BY <1>8 DEF SaveItem, jobs, counts, ghosts, Goto
  <2>2. job[w] \in Job /\ local[w].stage \in 1..4
    BY <2>1, HasJob DEF StageInv, Staged
  <2>3. Moved(w, "attach_item") /\ job'[w] = job[w]
    BY <1>8, <2>2, SaveItemMoves
  <2> QED
    BY <1>0, <2>1, <2>3 DEF Place
<1>9. CASE Embed(w)
  <2>1. Same /\ pc[w] = "embed"
    BY <1>9 DEF Embed, jobs, counts, ghosts, Goto
  <2>2. job[w] \in Job
    BY <2>1, HasJob
  <2>3. Moved(w, "attach_chunk") /\ job'[w] = job[w]
    BY <1>9, <2>2, EmbedMoves
  <2> QED
    BY <1>0, <2>1, <2>3 DEF Place
<1>10. CASE StartLinks(w)
  <2>1. Same
    BY <1>10 DEF StartLinks, jobs, counts, ghosts
  <2>2. pc[w] = "item" /\ Moved(w, "link") /\ job'[w] = job[w]
    BY <1>10, StartLinksMoves
  <2> QED
    BY <1>0, <2>1, <2>2 DEF Place
<1>11. CASE Link(w)
  <2>1. Same
    BY <1>11 DEF Link, jobs, counts, ghosts
  <2>2. pc[w] = "link" /\ Moved(w, "link") /\ job'[w] = job[w]
    BY <1>11, LinkStep
  <2> QED
    BY <1>0, <2>1, <2>2 DEF Place
<1>12. CASE CallFails(w)
  <2>1. Same /\ pc[w] # "idle" /\ Fail(w) /\ job' = job
    BY <1>12 DEF CallFails, jobs, counts
  <2>2. Moved(w, "failed")
    BY <2>1, FailMoves
  <2> QED
    BY <1>0, <2>1, <2>2 DEF Place
<1>13. CASE RelateFails(w)
  <2>1. Same /\ pc[w] # "idle" /\ Fail(w) /\ job' = job
    BY <1>13 DEF RelateFails, jobs, counts
  <2>2. Moved(w, "failed")
    BY <2>1, FailMoves
  <2> QED
    BY <1>0, <2>1, <2>2 DEF Place
<1> QED
  BY <1>1, <1>2, <1>3, <1>4, <1>5, <1>6, <1>7, <1>8, <1>9, <1>10, <1>11, <1>12, <1>13 DEF Going

\* Who has failed does not go on.
LEMMA GoingWorks ==
  ASSUME NEW w \in Workers, Going(w)
  PROVE  Working(w)
<1>1. AttachFrom(w) => Working(w)
  BY DEF AttachFrom, Working
<1> QED
  BY <1>1 DEF Going, Working, ReadSummary, ReadMessages, WriteSummary, SaveTurn, Attach, AttachFrom,
              Extract, NextKind, SaveItem, Embed, StartLinks, Link, CallFails, RelateFails, Goto

\* What is typed besides the rows and what workers hold.
JobsTyped ==
  /\ messages' \in Nat /\ messages' <= MaxTurns /\ alone' \in BOOLEAN
  /\ phase' \in [Job -> Phase]
  /\ attempts' \in [Job -> Nat] /\ granted' \in [Job -> Nat] /\ runs' \in [Job -> Nat]
  /\ outcome' \in [Job -> Extractions \cup {Nothing}]

\* An execution that goes on leaves the jobs and who runs them as they were.
LEMMA OnJobKeeps ==
  ASSUME TypedInv, LifeInv, HeldInv, NEW w \in Workers, NEW to, OnJob(w, to)
  PROVE  JobsTyped /\ LifeInv' /\ HeldInv'
<1>1. /\ pc'[w] = to /\ job'[w] = job[w] /\ pc[w] # "idle" /\ to # "idle"
      /\ \A v \in Workers \ {w} : pc'[v] = pc[v] /\ job'[v] = job[v]
      /\ UNCHANGED <<messages, phase, attempts, granted, runs, allowed, outcome, alone>>
  BY DEF OnJob, Moved, OthersKept
<1>2. \A v \in Workers : job'[v] = job[v] /\ (pc'[v] = "idle" <=> pc[v] = "idle")
  BY <1>1
<1>3. HeldInv'
  BY <1>1, <1>2 DEF HeldInv
<1>4. JobsTyped
  BY <1>1 DEF TypedInv, JobsTyped
<1>5. LifeInv'
  BY <1>1 DEF LifeInv
<1> QED
  BY <1>3, <1>4, <1>5

\* A claim takes a job that nobody runs.
LEMMA ClaimKeeps ==
  ASSUME TypedInv, LifeInv, HeldInv, NEW w \in Workers, Claim(w)
  PROVE  JobsTyped /\ LifeInv' /\ HeldInv'
<1>1. PICK j \in Job : /\ Lifecycle!Claim(j) /\ job'[w] = j /\ pc[w] = "idle"
                       /\ runs' = [runs EXCEPT ![j] = runs[j] + 1]
                       /\ Moved(w, "read_summary")
  BY ClaimMoves
<1>2. /\ phase[j] = "pending" /\ phase' = [phase EXCEPT ![j] = "running"]
      /\ attempts' = [attempts EXCEPT ![j] = attempts[j] + 1] /\ granted' = granted
  BY <1>1 DEF Lifecycle!Claim, Lifecycle!Move
<1>3. /\ UNCHANGED <<messages, outcome>>
      /\ alone' = (alone /\ \A v \in Workers \ {w} : pc[v] = "idle")
  BY DEF Claim
<1>4. /\ pc'[w] = "read_summary"
      /\ \A v \in Workers \ {w} : pc'[v] = pc[v] /\ job'[v] = job[v]
  BY <1>1 DEF Moved, OthersKept
<1>5. attempts[j] + 1 \in Nat /\ runs[j] + 1 \in Nat /\ runs[j] + 1 >= 1
  BY DEF TypedInv
<1>6. JobsTyped
  BY <1>1, <1>2, <1>3, <1>5 DEF TypedInv, JobsTyped, Phase
<1>7. /\ phase'[j] = "running" /\ runs'[j] = runs[j] + 1
      /\ \A i \in Job \ {j} : phase'[i] = phase[i] /\ runs'[i] = runs[i]
  BY <1>1, <1>2 DEF TypedInv
<1>8. LifeInv'
  BY <1>2, <1>3, <1>5, <1>7 DEF LifeInv
<1>9. \A v \in Workers : pc[v] # "idle" => job[v] # j /\ job[v] \in Job
  BY <1>2 DEF HeldInv
<1>10. \A v \in Workers : pc[v] = "idle" <=> job[v] = 0
  BY DEF HeldInv
<1>11. j # 0
  BY WorkerTypes
<1>12. ASSUME NEW v \in Workers
       PROVE  /\ pc'[v] = "idle" <=> job'[v] = 0
              /\ pc'[v] # "idle" => job'[v] \in Job /\ phase'[job'[v]] = "running"
  <2>1. CASE v = w
    BY <1>1, <1>4, <1>7, <1>11, <2>1
  <2>2. CASE v # w
    <3>1. pc'[v] = pc[v] /\ job'[v] = job[v]
      BY <1>4, <2>2
    <3>2. pc[v] # "idle" => phase[job[v]] = "running"
      BY DEF HeldInv
    <3> QED
      BY <1>7, <1>9, <1>10, <3>1, <3>2
  <2> QED
    BY <2>1, <2>2
<1>13. ASSUME NEW u \in Workers, NEW v \in Workers, job'[u] = job'[v], job'[u] # 0
       PROVE  u = v
  <2>1. \A x \in Workers \ {w} : job'[x] # j
    BY <1>4, <1>9, <1>10, <1>11
  <2>2. CASE u = w \/ v = w
    BY <1>1, <1>13, <2>1, <2>2
  <2>3. CASE u # w /\ v # w
    BY <1>4, <1>13, <2>3 DEF HeldInv
  <2> QED
    BY <2>2, <2>3
<1>14. HeldInv'
  BY <1>12, <1>13 DEF HeldInv
<1> QED
  BY <1>6, <1>8, <1>14

\* A worker that ends leaves its job to nobody.
LEMMA EndKeepsHeld ==
  ASSUME TypedInv, HeldInv, NEW w \in Workers, Idle(w),
         \A j \in Job \ {job[w]} : phase'[j] = phase[j]
  PROVE  HeldInv'
<1>1. /\ pc'[w] = "idle" /\ job'[w] = 0
      /\ \A v \in Workers \ {w} : pc'[v] = pc[v] /\ job'[v] = job[v]
  BY IdleMoves DEF Moved, OthersKept
<1>2. ASSUME NEW v \in Workers \ {w}, pc[v] # "idle"
      PROVE  job[v] \in Job /\ phase'[job[v]] = "running"
  <2>1. job[v] \in Job /\ phase[job[v]] = "running" /\ job[v] # 0
    BY <1>2 DEF HeldInv
  <2>2. job[v] # job[w]
    BY <2>1 DEF HeldInv
  <2> QED
    BY <2>1, <2>2
<1>3. \A v \in Workers : pc[v] = "idle" <=> job[v] = 0
  BY DEF HeldInv
<1>4. \A u, v \in Workers : job[u] = job[v] /\ job[u] # 0 => u = v
  BY DEF HeldInv
<1>5. \A v \in Workers : /\ pc'[v] = "idle" <=> job'[v] = 0
                         /\ pc'[v] # "idle" => job'[v] \in Job /\ phase'[job'[v]] = "running"
  BY <1>1, <1>2, <1>3
<1>6. \A u, v \in Workers : job'[u] = job'[v] /\ job'[u] # 0 => u = v
  BY <1>1, <1>4
<1> QED
  BY <1>5, <1>6 DEF HeldInv

\* A job that succeeds keeps the life of jobs and who holds them.
LEMMA SucceedKeeps ==
  ASSUME TypedInv, LifeInv, HeldInv, NEW w \in Workers, Succeed(w)
  PROVE  JobsTyped /\ LifeInv' /\ HeldInv'
<1> DEFINE j == job[w]
<1>1. /\ pc[w] = "link" /\ Lifecycle!Complete(j) /\ Idle(w)
      /\ outcome' = [outcome EXCEPT ![j] = local[w].extraction]
      /\ UNCHANGED <<messages, alone, runs>>
  BY DEF Succeed, counts
<1>2. j \in Job /\ j <= messages
  BY <1>1, HasJob
<1>3. /\ phase[j] = "running" /\ phase' = [phase EXCEPT ![j] = "succeeded"]
      /\ attempts' = attempts /\ granted' = granted
  BY <1>1 DEF Lifecycle!Complete, Lifecycle!Move
<1>4. local[w].extraction \in Extractions \cup {Nothing}
  BY WorkerTypes, LocalFields
<1> HIDE DEF j
<1>5. JobsTyped
  BY <1>1, <1>2, <1>3, <1>4 DEF TypedInv, JobsTyped, Phase
<1>6. phase'[j] = "succeeded" /\ \A i \in Job \ {j} : phase'[i] = phase[i]
  BY <1>2, <1>3 DEF TypedInv
<1>7. LifeInv'
  BY <1>1, <1>2, <1>3, <1>6 DEF LifeInv
<1>8. HeldInv'
  BY <1>1, <1>6, EndKeepsHeld DEF j
<1> QED
  BY <1>5, <1>7, <1>8

\* So does a job given back for a retry or as failed.
LEMMA GiveBackKeeps ==
  ASSUME TypedInv, LifeInv, HeldInv, NEW w \in Workers, GiveBack(w)
  PROVE  JobsTyped /\ LifeInv' /\ HeldInv'
<1> DEFINE j == job[w]
<1>1. /\ pc[w] = "failed" /\ (Lifecycle!Retry(j) \/ Lifecycle!Exhaust(j)) /\ Idle(w)
      /\ UNCHANGED <<messages, alone, outcome, runs>>
  BY DEF GiveBack, ghosts, counts
<1>2. j \in Job /\ j <= messages
  BY <1>1, HasJob
<1> HIDE DEF j
<1>3. PICK to \in {"pending", "failed"} : phase' = [phase EXCEPT ![j] = to]
  BY <1>1 DEF Lifecycle!Retry, Lifecycle!Exhaust, Lifecycle!Move
<1>4. attempts' = attempts /\ granted' = granted
  BY <1>1 DEF Lifecycle!Retry, Lifecycle!Exhaust
<1>5. JobsTyped
  BY <1>1, <1>2, <1>3, <1>4 DEF TypedInv, JobsTyped, Phase
<1>6. phase'[j] = to /\ \A i \in Job \ {j} : phase'[i] = phase[i]
  BY <1>2, <1>3 DEF TypedInv
<1>7. LifeInv'
  BY <1>1, <1>2, <1>6 DEF LifeInv
<1>8. HeldInv'
  BY <1>1, <1>6, EndKeepsHeld DEF j
<1> QED
  BY <1>5, <1>7, <1>8

\* So does a process that stops.
LEMMA StopKeeps ==
  ASSUME TypedInv, LifeInv, HeldInv, NEW w \in Workers, Stop(w)
  PROVE  JobsTyped /\ LifeInv' /\ HeldInv'
<1>1. Idle(w) /\ UNCHANGED <<messages, phase, attempts, granted, runs, alone, outcome>>
  BY DEF Stop, jobs, counts
<1>2. JobsTyped
  BY <1>1 DEF TypedInv, JobsTyped
<1>3. LifeInv'
  BY <1>1 DEF LifeInv
<1>4. HeldInv'
  BY <1>1, EndKeepsHeld
<1> QED
  BY <1>2, <1>3, <1>4

\* So does a job that a turn enqueues, which was absent before, and one that an
\* admin grants new attempts, which had failed.
LEMMA GrantKeeps ==
  ASSUME TypedInv, LifeInv, HeldInv, NEW j \in Job, Enqueue(j) \/ Reopen(j)
  PROVE  /\ JobsTyped /\ LifeInv' /\ HeldInv'
         /\ phase' = [phase EXCEPT ![j] = "pending"]
<1>1. /\ phase[j] \in {"absent", "failed"} /\ phase' = [phase EXCEPT ![j] = "pending"]
      /\ attempts' = [attempts EXCEPT ![j] = 0]
      /\ \E m \in 1..10 : granted' = [granted EXCEPT ![j] = m]
      /\ UNCHANGED <<messages, outcome, alone, pc, job, local, runs>>
  BY DEF Enqueue, Reopen, Lifecycle!Enqueue, Lifecycle!Reopen, Lifecycle!Grant, Lifecycle!Move,
         worker, ghosts
<1>2. j <= messages
  <2>1. CASE Enqueue(j)
    BY <2>1 DEF Enqueue
  <2>2. CASE Reopen(j)
    <3>1. phase[j] = "failed"
      BY <2>2 DEF Reopen, Lifecycle!Reopen, Lifecycle!Grant, Lifecycle!Move
    <3> QED
      BY <3>1 DEF LifeInv
  <2> QED
    BY <2>1, <2>2
<1>3. attempts' \in [Job -> Nat]
  BY <1>1 DEF TypedInv
<1>4. PICK m \in 1..10 : granted' = [granted EXCEPT ![j] = m]
  BY <1>1
<1>5. granted' \in [Job -> Nat]
  <2>1. m \in Nat
    OBVIOUS
  <2> QED
    BY <1>4, <2>1 DEF TypedInv
<1>6. JobsTyped
  BY <1>1, <1>3, <1>5 DEF TypedInv, JobsTyped, Phase
<1>7. phase'[j] = "pending" /\ \A i \in Job \ {j} : phase'[i] = phase[i]
  BY <1>1 DEF TypedInv
<1>8. LifeInv'
  BY <1>1, <1>2, <1>7 DEF LifeInv
<1>9. HeldInv'
  BY <1>1, <1>7 DEF HeldInv
<1> QED
  BY <1>1, <1>6, <1>8, <1>9

\* So does a failed job that is deleted.
LEMMA PurgeKeeps ==
  ASSUME TypedInv, LifeInv, HeldInv, NEW j \in Job, Purge(j)
  PROVE  /\ JobsTyped /\ LifeInv' /\ HeldInv'
         /\ phase' = [phase EXCEPT ![j] = "purged"]
<1>1. /\ phase[j] = "failed" /\ phase' = [phase EXCEPT ![j] = "purged"]
      /\ attempts' = [attempts EXCEPT ![j] = 0] /\ granted' = [granted EXCEPT ![j] = 0]
      /\ UNCHANGED <<messages, outcome, alone, pc, job, local, runs>>
  BY DEF Purge, Lifecycle!Purge, Lifecycle!Move, worker, ghosts, counts
<1>2. j <= messages
  BY <1>1 DEF LifeInv
<1>3. JobsTyped
  BY <1>1 DEF TypedInv, JobsTyped, Phase
<1>4. phase'[j] = "purged" /\ \A i \in Job \ {j} : phase'[i] = phase[i]
  BY <1>1 DEF TypedInv
<1>5. LifeInv'
  BY <1>1, <1>2, <1>4 DEF LifeInv
<1>6. HeldInv'
  BY <1>1, <1>4 DEF HeldInv
<1> QED
  BY <1>1, <1>3, <1>5, <1>6

\* So do the messages of the next turn.
LEMMA StoreMessagesKeeps ==
  ASSUME TypedInv, LifeInv, HeldInv, StoreMessages
  PROVE  JobsTyped /\ LifeInv' /\ HeldInv'
<1>1. /\ messages' = messages + 1
      /\ UNCHANGED <<phase, attempts, granted, runs, outcome, alone, pc, job, local>>
  BY DEF StoreMessages, jobs, counts, worker, ghosts
<1>2. messages \in Nat /\ messages < MaxTurns /\ MaxTurns \in Nat
  BY MemoryUpdateAssumption DEF TypedInv, StoreMessages
<1>3. JobsTyped
  BY <1>1, <1>2 DEF TypedInv, JobsTyped
<1>4. ASSUME NEW j \in Job PROVE j <= messages => j <= messages'
  BY <1>1, <1>2 DEF Job
<1>5. LifeInv'
  BY <1>1, <1>4 DEF LifeInv
<1>6. HeldInv'
  BY <1>1 DEF HeldInv
<1> QED
  BY <1>3, <1>5, <1>6

\* Who does not act is as far as it was.
LEMMA StageKept ==
  ASSUME StageInv, NEW w \in Workers, NEW to, Moved(w, to), Staged(w)'
  PROVE  StageInv'
<1>1. ASSUME NEW v \in Workers \ {w} PROVE Staged(v)'
  <2>1. pc'[v] = pc[v] /\ local'[v] = local[v] /\ Staged(v)
    BY DEF Moved, OthersKept, StageInv
  <2> QED
    BY <2>1 DEF Staged
<1> QED
  BY <1>1 DEF StageInv

\* An execution is as far as its worker's place says.
LEMMA WorkerStages ==
  ASSUME TypedInv, LifeInv, HeldInv, StageInv, SummaryInv, EntityInv, NEW w \in Workers,
         WorkerStep(w) \/ CallFails(w) \/ RelateFails(w) \/ Stop(w)
  PROVE  StageInv'
<1>0. Staged(w) /\ local[w].stage \in 0..4
  BY WorkerTypes, LocalFields DEF StageInv
<1>1. ASSUME NEW to \in {"idle", "failed", "read_summary"}, Moved(w, to), local'[w] = Fresh
      PROVE  StageInv'
  <2>1. pc'[w] = to /\ local'[w].stage = 0 /\ local'[w].made = 0
    BY <1>1, FreshIsLocal DEF Moved
  <2>2. Staged(w)'
    BY <2>1 DEF Staged, Early, Storing
  <2> QED
    BY <1>1, <2>2, StageKept
<1>2. CASE Claim(w)
  BY <1>1, <1>2, ClaimMoves
<1>3. CASE Succeed(w) \/ GiveBack(w) \/ Stop(w)
  <2>1. Idle(w)
    BY <1>3 DEF Succeed, GiveBack, Stop
  <2> QED
    BY <1>1, <2>1, IdleMoves
<1>4. CASE CallFails(w) \/ RelateFails(w)
  <2>1. Fail(w) /\ job' = job
    BY <1>4 DEF CallFails, RelateFails
  <2> QED
    BY <1>1, <2>1, FailMoves
<1>5. CASE ReadSummary(w)
  <2>1. /\ pc[w] = "read_summary" /\ Moved(w, "read_messages") /\ pc'[w] = "read_messages"
        /\ local'[w].stage = local[w].stage /\ local'[w].made = local[w].made
    BY <1>5, ReadSummaryMoves DEF KeepsPlan, KeepsHand, Moved
  <2>2. Staged(w)'
    BY <1>0, <2>1 DEF Staged, Early, Storing
  <2> QED
    BY <2>1, <2>2, StageKept
<1>6. CASE ReadMessages(w)
  <2>1. /\ pc[w] = "read_messages" /\ Moved(w, "write_summary") /\ pc'[w] = "write_summary"
        /\ local'[w].stage = local[w].stage /\ local'[w].made = local[w].made
    BY <1>6, ReadMessagesMoves DEF KeepsPlan, KeepsHand, Moved
  <2>2. Staged(w)'
    BY <1>0, <2>1 DEF Staged, Early, Storing
  <2> QED
    BY <2>1, <2>2, StageKept
<1>7. CASE WriteSummary(w)
  <2>1. /\ pc[w] = "write_summary" /\ Moved(w, "save_turn") /\ pc'[w] = "save_turn"
        /\ local'[w] = local[w]
    BY <1>7, WriteSummaryMoves DEF Moved
  <2>2. Staged(w)'
    BY <1>0, <2>1 DEF Staged, Early, Storing
  <2> QED
    BY <2>1, <2>2, StageKept
<1>8. CASE SaveTurn(w)
  <2>1. pc[w] = "save_turn"
    BY <1>8 DEF SaveTurn, Goto
  <2>2. /\ Moved(w, "attach_turn") /\ pc'[w] = "attach_turn" /\ local'[w].stage = local[w].stage
    BY <1>8, <2>1, HasJob, SaveTurnMoves DEF KeepsPlan, Moved
  <2>3. Staged(w)'
    BY <1>0, <2>1, <2>2 DEF Staged, Early, Storing
  <2> QED
    BY <2>2, <2>3, StageKept
<1>9. CASE Attach(w)
  <2>1. PICK to \in Place : AttachStep(pc[w], to) /\ Moved(w, to) /\ local'[w] = local[w]
    BY <1>9, AttachMoves
  <2>2. pc'[w] = to
    BY <2>1 DEF Moved
  <2>3. Staged(w)'
    BY <1>0, <2>1, <2>2 DEF Staged, Early, Storing, AttachStep
  <2> QED
    BY <2>1, <2>3, StageKept
<1>10. CASE Extract(w)
  <2>1. Moved(w, "item") /\ pc'[w] = "item" /\ local'[w].stage = 1
    BY <1>10, ExtractMoves DEF Moved
  <2>2. Staged(w)'
    BY <2>1 DEF Staged, Early, Storing
  <2> QED
    BY <2>1, <2>2, StageKept
<1>11. CASE NextKind(w)
  <2>1. /\ Moved(w, "item") /\ pc'[w] = "item" /\ local[w].stage \in 0..3
        /\ local'[w].stage = local[w].stage + 1
    BY <1>11, NextKindMoves DEF Moved
  <2>2. local'[w].stage \in 1..4
    BY <2>1
  <2>3. Staged(w)'
    BY <2>1, <2>2 DEF Staged, Early, Storing
  <2> QED
    BY <2>1, <2>3, StageKept
<1>12. CASE SaveItem(w)
  <2>1. pc[w] = "item"
    BY <1>12 DEF SaveItem, Goto
  <2>2. job[w] \in Job /\ local[w].stage \in 1..4
    BY <1>0, <2>1, HasJob DEF Staged
  <2>3. Moved(w, "attach_item") /\ pc'[w] = "attach_item" /\ local'[w].stage = local[w].stage
    BY <1>12, <2>2, SaveItemMoves DEF KeepsPlan, Moved
  <2>4. Staged(w)'
    BY <2>2, <2>3 DEF Staged, Early, Storing
  <2> QED
    BY <2>3, <2>4, StageKept
<1>13. CASE Embed(w)
  <2>1. pc[w] = "embed"
    BY <1>13 DEF Embed, Goto
  <2>2. Moved(w, "attach_chunk") /\ pc'[w] = "attach_chunk" /\ local'[w].stage = local[w].stage
    BY <1>13, <2>1, HasJob, EmbedMoves DEF KeepsPlan, Moved
  <2>3. Staged(w)'
    BY <1>0, <2>1, <2>2 DEF Staged, Early, Storing
  <2> QED
    BY <2>2, <2>3, StageKept
<1>14. CASE StartLinks(w)
  <2>1. /\ local[w].todo = {} /\ local[w].stage = 4 /\ Moved(w, "link") /\ pc'[w] = "link"
        /\ local'[w].stage = local[w].stage /\ local'[w].todo = local[w].todo
    BY <1>14, StartLinksMoves DEF KeepsPlan, KeepsWork, Moved
  <2>2. Staged(w)'
    BY <2>1 DEF Staged, Early, Storing
  <2> QED
    BY <2>1, <2>2, StageKept
<1>15. CASE Link(w)
  <2>1. /\ pc[w] = "link" /\ Moved(w, "link") /\ pc'[w] = "link"
        /\ local'[w].stage = local[w].stage /\ local'[w].todo = local[w].todo
    BY <1>15, LinkStep DEF KeepsPlan, KeepsWork, Moved
  <2>2. Staged(w)'
    BY <1>0, <2>1 DEF Staged, Early, Storing
  <2> QED
    BY <2>1, <2>2, StageKept
<1> QED
  BY <1>2, <1>3, <1>4, <1>5, <1>6, <1>7, <1>8, <1>9, <1>10, <1>11, <1>12, <1>13, <1>14, <1>15
     DEF WorkerStep

\* The steps of no worker: turns are stored, jobs are enqueued for them, admins
\* retry and purge those that failed.
Outside ==
  StoreMessages \/ (\E j \in Job : Enqueue(j) \/ Reopen(j) \/ Purge(j)) \/ UNCHANGED vars

Waits ==
  /\ UNCHANGED <<pc, job, local, memory, cut, alone, outcome, runs>>
  /\ messages <= messages'
  /\ \A j \in Job : phase[j] # "succeeded" => phase'[j] # "succeeded"

\* The steps of turns and admins, and a stutter, touch no worker and no row the
\* memory update writes.
LEMMA Waiting ==
  ASSUME TypedInv, LifeInv, HeldInv, Outside
  PROVE  Waits /\ JobsTyped /\ LifeInv' /\ HeldInv'
<1>0. messages \in Nat
  BY DEF TypedInv
<1>1. CASE StoreMessages
  <2>1. messages <= messages'
    BY <1>0, <1>1 DEF StoreMessages
  <2> QED
    BY <1>1, <2>1, StoreMessagesKeeps DEF StoreMessages, jobs, worker, counts, ghosts, Waits
<1>2. ASSUME NEW j \in Job, Enqueue(j) \/ Reopen(j) \/ Purge(j)
      PROVE  Waits /\ JobsTyped /\ LifeInv' /\ HeldInv'
  <2>1. UNCHANGED <<messages, memory, pc, job, local, outcome, alone, cut, runs>>
    BY <1>2 DEF Enqueue, Reopen, Purge, worker, counts, ghosts
  <2>2. /\ JobsTyped /\ LifeInv' /\ HeldInv'
        /\ \E to \in {"pending", "purged"} : phase' = [phase EXCEPT ![j] = to]
    BY <1>2, GrantKeeps, PurgeKeeps
  <2>3. messages <= messages' /\ \A i \in Job : phase[i] # "succeeded" => phase'[i] # "succeeded"
    BY <1>0, <2>1, <2>2 DEF TypedInv
  <2> QED
    BY <2>1, <2>2, <2>3 DEF Waits
<1>3. CASE UNCHANGED vars
  <2>1. Waits
    BY <1>0, <1>3 DEF vars, memory, Waits
  <2>2. JobsTyped
    BY <1>3 DEF vars, TypedInv, JobsTyped
  <2>3. LifeInv'
    BY <1>3 DEF vars, LifeInv
  <2>4. HeldInv'
    BY <1>3 DEF vars, HeldInv
  <2> QED
    BY <2>1, <2>2, <2>3, <2>4
<1> QED
  BY <1>1, <1>2, <1>3 DEF Outside

\* The steps that end an execution.
Ends(w) ==
  /\ Moved(w, "idle") /\ job'[w] = 0 /\ local'[w] = Fresh
  /\ UNCHANGED <<messages, memory, cut, alone, runs>>

\* The steps that end an execution free its worker and change no row.
LEMMA Ending ==
  ASSUME TypedInv, LifeInv, HeldInv, NEW w \in Workers, Succeed(w) \/ GiveBack(w) \/ Stop(w)
  PROVE  Ends(w) /\ JobsTyped /\ LifeInv' /\ HeldInv'
<1>1. Idle(w) /\ UNCHANGED <<messages, memory, cut, alone>>
  BY DEF Succeed, GiveBack, Stop, ghosts
<1>2. runs' = runs
  BY DEF Succeed, GiveBack, Stop, counts
<1>3. Ends(w)
  BY <1>1, <1>2, IdleMoves DEF Ends
<1> QED
  BY <1>3, SucceedKeeps, GiveBackKeeps, StopKeeps

-----------------------------------------------------------------------------
(* The rows and their ids.                                                 *)

\* A row that a worker stores, numbered after those of its execution.
NewRow(w, x) ==
  /\ x.id = NewId(w) /\ Working(w) /\ local'[w].made = local[w].made + 1

NewChunk(w, c) ==
  /\ NewRow(w, c) /\ chunks' = chunks \cup {c} /\ records' = records
  /\ c.job = job[w] /\ c.kind \in Kind \cup {"turn"}
  /\ c.kind = "turn" => pc[w] = "save_turn"
  /\ c.key = IF c.kind = "turn" THEN "reply" ELSE local[w].item.key

NewRecord(w, r) ==
  /\ NewRow(w, r) /\ records' = records \cup {r} /\ chunks' = chunks /\ r \in Row
  /\ r.kind = KindOf(w) /\ r.job = IF r.kind = "event" THEN job[w] ELSE 0
  /\ pc[w] = "item" /\ r.key \in local[w].todo /\ local'[w].todo = local[w].todo \ {r.key}
  /\ local'[w].stage = local[w].stage /\ local[w].stage \in 1..4
  /\ local'[w].saved = local[w].saved \cup {r} /\ local'[w].existing = local[w].existing
  /\ r.kind # "event" => \A s \in local[w].existing : s.key # r.key

\* The rows stay, and the number of rows that a worker has given does not fall.
RowsStay(w) ==
  /\ UNCHANGED <<records, chunks>>
  /\ pc'[w] # "failed" => local'[w].made >= local[w].made

\* What SaveItem does: it stores a new row, or again one that was listed.
LEMMA SaveItemFacts ==
  ASSUME TypedInv, LifeInv, HeldInv, StageInv, EntityInv, NEW w \in Workers, SaveItem(w)
  PROVE  \E r \in Row :
            /\ pc[w] = "item" /\ job[w] \in Job /\ local[w].stage \in 1..4
            /\ Moved(w, "attach_item") /\ job'[w] = job[w]
            /\ chunks' = chunks /\ records' = records \cup {r}
            /\ r.kind = KindOf(w) /\ r.key \in local[w].todo
            /\ local'[w].todo = local[w].todo \ {r.key} /\ local'[w].item = r
            /\ local'[w].current = r.id /\ local'[w].turnChunk = local[w].turnChunk
            /\ local'[w].saved = local[w].saved \cup {r} /\ local'[w].made = local[w].made + 1
            /\ KeepsRead(w) /\ KeepsPlan(w) /\ local'[w].links = local[w].links
            /\ NewRecord(w, r) \/ (r \in records /\ KindOf(w) # "event")
<1>1. pc[w] = "item" /\ chunks' = chunks
  BY DEF SaveItem, Goto
<1>2. job[w] \in Job /\ local[w].stage \in 1..4
  BY <1>1, HasJob DEF StageInv, Staged
<1>3. PICK key \in local[w].todo : \E r \in RecordFor(w, key) :
            /\ pc[w] = "item" /\ Moved(w, "attach_item") /\ job'[w] = job[w]
            /\ records' = records \cup {r} /\ r \in Row
            /\ local'[w].todo = local[w].todo \ {key} /\ local'[w].item = r
            /\ local'[w].current = r.id /\ local'[w].turnChunk = local[w].turnChunk
            /\ local'[w].saved = local[w].saved \cup {r}
            /\ local'[w].made = local[w].made + 1
            /\ KeepsRead(w) /\ KeepsPlan(w) /\ local'[w].links = local[w].links
  BY <1>2, SaveItemMoves
<1>4. PICK r \in RecordFor(w, key) :
            /\ pc[w] = "item" /\ Moved(w, "attach_item") /\ job'[w] = job[w]
            /\ records' = records \cup {r} /\ r \in Row
            /\ local'[w].todo = local[w].todo \ {key} /\ local'[w].item = r
            /\ local'[w].current = r.id /\ local'[w].turnChunk = local[w].turnChunk
            /\ local'[w].saved = local[w].saved \cup {r}
            /\ local'[w].made = local[w].made + 1
            /\ KeepsRead(w) /\ KeepsPlan(w) /\ local'[w].links = local[w].links
  BY <1>3
<1>5. /\ r.kind = KindOf(w) /\ r.key = key
      /\ \/ /\ r.id = NewId(w) /\ r.job = IF KindOf(w) = "event" THEN job[w] ELSE 0
            /\ KindOf(w) # "event" => \A s \in local[w].existing : s.key # key
         \/ r \in local[w].existing /\ KindOf(w) # "event"
  BY <1>1, <1>2, RecordFacts
<1>6. CASE r \in local[w].existing /\ KindOf(w) # "event"
  <2>1. local[w].stage # 1
    BY <1>6, KindsFacts DEF KindOf
  <2>2. local[w].stage >= 2
    BY <1>2, <2>1
  <2>3. r \in records
    BY <1>1, <1>6, <2>2 DEF EntityInv, Listing, OfKind, Working
  <2> QED
    BY <1>1, <1>2, <1>4, <1>5, <1>6, <2>3
<1>7. CASE /\ r.id = NewId(w) /\ r.job = IF KindOf(w) = "event" THEN job[w] ELSE 0
           /\ KindOf(w) # "event" => \A s \in local[w].existing : s.key # key
  <2>1. NewRecord(w, r)
    BY <1>1, <1>2, <1>4, <1>5, <1>7 DEF NewRecord, NewRow, Working, KeepsPlan
  <2> QED
    BY <1>1, <1>2, <1>4, <1>5, <2>1
<1> QED
  BY <1>5, <1>6, <1>7

\* An execution that goes on stores one row at most.
LEMMA RowCases ==
  ASSUME TypedInv, LifeInv, HeldInv, StageInv, SummaryInv, EntityInv, NEW w \in Workers,
         Going(w)
  PROVE  RowsStay(w) \/ (\E c : NewChunk(w, c)) \/ (\E r : NewRecord(w, r))
<1>0. local[w].made \in Nat /\ local[w].made >= local[w].made
  BY WorkerTypes, LocalFields
<1>1. CASE CallFails(w) \/ RelateFails(w)
  <2>1. Fail(w) /\ job' = job /\ UNCHANGED <<records, chunks>>
    BY <1>1 DEF CallFails, RelateFails, memory
  <2> QED
    BY <2>1, FailMoves DEF RowsStay, Moved
<1>2. CASE \/ ReadSummary(w) \/ ReadMessages(w) \/ WriteSummary(w)
           \/ Attach(w) \/ Extract(w) \/ NextKind(w) \/ StartLinks(w) \/ Link(w)
  <2>1. UNCHANGED <<records, chunks>>
    BY <1>2 DEF ReadSummary, ReadMessages, WriteSummary, Attach, Extract, NextKind, StartLinks,
                Link, memory
  <2>2. local'[w].made = local[w].made
    BY <1>2, ReadSummaryMoves, ReadMessagesMoves, WriteSummaryMoves, AttachMoves, ExtractMoves,
       NextKindMoves, StartLinksMoves, LinkStep DEF KeepsHand
  <2> QED
    BY <1>0, <2>1, <2>2 DEF RowsStay
<1>3. CASE SaveTurn(w)
  <2> DEFINE c == [id |-> NewId(w), kind |-> "turn", key |-> "reply", job |-> job[w]]
  <2>1. pc[w] = "save_turn" /\ chunks' = chunks \cup {c} /\ records' = records
    BY <1>3 DEF SaveTurn, Goto, CreateChunk
  <2>2. local'[w].made = local[w].made + 1
    BY <1>3, <2>1, HasJob, SaveTurnMoves
  <2>3. NewChunk(w, c)
    BY <2>1, <2>2 DEF NewChunk, NewRow, Working
  <2> QED
    BY <2>3
<1>4. CASE Embed(w)
  <2> DEFINE c == [id |-> NewId(w), kind |-> KindOf(w), key |-> local[w].item.key, job |-> job[w]]
  <2>1. pc[w] = "embed" /\ chunks' = chunks \cup {c} /\ records' = records
    BY <1>4 DEF Embed, Goto, CreateChunk
  <2>2. local'[w].made = local[w].made + 1
    BY <1>4, <2>1, HasJob, EmbedMoves
  <2>3. KindOf(w) \in Kind /\ "turn" \notin Kind
    <3>1. local[w].stage \in 1..4
      BY <2>1 DEF StageInv, Staged, Storing
    <3> QED
      BY <3>1, KindsFacts DEF KindOf, Kind
  <2>4. NewChunk(w, c)
    BY <2>1, <2>2, <2>3 DEF NewChunk, NewRow, Working
  <2> QED
    BY <2>4
<1>5. CASE SaveItem(w)
  <2>1. PICK r \in Row :
            /\ chunks' = chunks /\ records' = records \cup {r} /\ local'[w].made = local[w].made + 1
            /\ NewRecord(w, r) \/ (r \in records /\ KindOf(w) # "event")
    BY <1>5, SaveItemFacts
  <2>2. local'[w].made >= local[w].made
    BY <1>0, <2>1
  <2> QED
    BY <2>1, <2>2 DEF RowsStay
<1> QED
  BY <1>1, <1>2, <1>3, <1>4, <1>5 DEF Going

\* A new row's id is nobody's.
LEMMA NewRowFacts ==
  ASSUME TypedInv, LifeInv, HeldInv, IdInv, NEW w \in Workers, NEW x, NewRow(w, x)
  PROVE  /\ x.id \in RowId /\ x.id[1] = job[w] /\ x.id[2] = runs[job[w]]
         /\ x.id[3] = local[w].made + 1 /\ x.id[3] >= 1
         /\ job[w] \in Job /\ x.id[2] \in 1..runs[job[w]]
         /\ \A r \in records \cup chunks : r.id # x.id
<1>1. job[w] \in Job /\ runs[job[w]] >= 1
  BY HasJob DEF NewRow, Working
<1>2. /\ x.id \in RowId /\ x.id[1] = job[w] /\ x.id[2] = runs[job[w]]
      /\ x.id[3] = local[w].made + 1 /\ local[w].made \in Nat /\ runs[job[w]] \in Nat
  BY <1>1, NewIdFacts DEF NewRow
<1>3. x.id[3] >= 1 /\ x.id[2] \in 1..runs[job[w]]
  BY <1>1, <1>2
<1>4. ASSUME NEW r \in records \cup chunks, r.id = x.id PROVE FALSE
  <2>1. OfExecution(r, job[w], runs[job[w]])
    BY <1>2, <1>4 DEF OfExecution
  <2>2. r.id[3] <= local[w].made
    BY <2>1 DEF IdInv, Numbered, NewRow
  <2> QED
    BY <1>2, <1>4, <2>2
<1> QED
  BY <1>1, <1>2, <1>3, <1>4

\* Where rows stay and runs do not fall, rows are as they were.
LEMMA RowsKept ==
  ASSUME RowInv, UNCHANGED <<records, chunks>>,
         \A j \in Job : runs[j] \in Nat /\ runs'[j] \in Nat /\ runs[j] <= runs'[j]
  PROVE  RowInv'
<1>1. ASSUME NEW r \in records \cup chunks PROVE r.id[2] \in 1..runs'[r.id[1]]
  <2>1. r.id[1] \in Job /\ r.id[2] \in 1..runs[r.id[1]]
    BY DEF RowInv
  <2> QED
    BY <2>1
<1> QED
  BY <1>1 DEF RowInv

\* A new row keeps ids apart.
LEMMA RowsGrow ==
  ASSUME TypedInv, LifeInv, HeldInv, StageInv, IdInv, NEW w \in Workers, runs' = runs,
         (\E c : NewChunk(w, c)) \/ (\E r : NewRecord(w, r))
  PROVE  RowInv'
<1>1. ASSUME NEW x, NewRow(w, x), (records \cup chunks)' = (records \cup chunks) \cup {x}
      PROVE  /\ \A r \in (records \cup chunks)' :
                   /\ r.id \in RowId /\ r.id[1] \in Job
                   /\ r.id[2] \in 1..runs'[r.id[1]] /\ r.id[3] >= 1
             /\ \A a, b \in (records \cup chunks)' : a.id = b.id => a = b
  BY <1>1, NewRowFacts DEF IdInv, RowInv
<1>2. ASSUME NEW c, NewChunk(w, c) PROVE RowInv'
  <2>1. /\ NewRow(w, c) /\ chunks' = chunks \cup {c} /\ records' = records
        /\ c.job = job[w] /\ c.kind \in Kind \cup {"turn"}
        /\ c.kind = "turn" => pc[w] = "save_turn"
    BY <1>2 DEF NewChunk
  <2>2. (records \cup chunks)' = (records \cup chunks) \cup {c}
    BY <2>1
  <2>3. c.id[1] = job[w] /\ c.id[3] = local[w].made + 1
    BY <2>1, NewRowFacts
  <2>4. c.kind = "turn" => c.id[3] = 1
    BY <2>1, <2>3 DEF StageInv, Staged, Early
  <2> QED
    BY <1>1, <2>1, <2>2, <2>3, <2>4 DEF IdInv, RowInv
<1>3. ASSUME NEW r, NewRecord(w, r) PROVE RowInv'
  <2>1. /\ NewRow(w, r) /\ records' = records \cup {r} /\ chunks' = chunks
        /\ r.job = IF r.kind = "event" THEN job[w] ELSE 0
    BY <1>3 DEF NewRecord
  <2>2. (records \cup chunks)' = (records \cup chunks) \cup {r}
    BY <2>1
  <2>3. r.id[1] = job[w]
    BY <2>1, NewRowFacts
  <2> QED
    BY <1>1, <2>1, <2>2, <2>3 DEF IdInv, RowInv
<1> QED
  BY <1>2, <1>3

\* What an execution that goes on does to the rows: it adds some of its own.
GrowsRows(w) ==
  /\ records \subseteq records' /\ chunks \subseteq chunks'
  /\ \A r \in records' : r \notin records => r.id[1] = job[w]
  /\ \A c \in chunks' : c \notin chunks => c.id[1] = job[w]

\* A step of an execution takes no row away, and those it adds are of its
\* job.
LEMMA GoingGrows ==
  ASSUME TypedInv, LifeInv, HeldInv, StageInv, IdInv, SummaryInv, EntityInv,
         NEW w \in Workers, Going(w)
  PROVE  GrowsRows(w)
<1>1. CASE RowsStay(w)
  BY <1>1 DEF RowsStay, GrowsRows
<1>2. ASSUME NEW c, NewChunk(w, c) PROVE GrowsRows(w)
  <2>1. NewRow(w, c) /\ chunks' = chunks \cup {c} /\ records' = records
    BY <1>2 DEF NewChunk
  <2> QED
    BY <2>1, NewRowFacts DEF GrowsRows
<1>3. ASSUME NEW r, NewRecord(w, r) PROVE GrowsRows(w)
  <2>1. NewRow(w, r) /\ records' = records \cup {r} /\ chunks' = chunks
    BY <1>3 DEF NewRecord
  <2> QED
    BY <2>1, NewRowFacts DEF GrowsRows
<1> QED
  BY <1>1, <1>2, <1>3, RowCases

\* Who does not act is given no number, and its execution no row.
LEMMA NumbersKept ==
  ASSUME IdInv, NEW v \in Workers,
         pc'[v] = pc[v], job'[v] = job[v], local'[v] = local[v],
         runs'[job[v]] = runs[job[v]],
         \A r \in (records \cup chunks)' : r \in records \cup chunks \/ r.id[1] # job[v]
  PROVE  Numbered(v)'
BY DEF IdInv, Numbered, Working, OfExecution

\* A row still names its execution when nothing of the memory moves;
LEMMA IdWaits ==
  ASSUME TypedInv, LifeInv, HeldInv, IdInv, Waits
  PROVE  IdInv'
<1>1. UNCHANGED <<pc, job, local, records, chunks, runs>>
  BY DEF Waits, memory
<1>2. \A v \in Workers : Numbered(v)'
  BY <1>1, NumbersKept
<1>3. RowInv'
  BY <1>1 DEF IdInv, RowInv
<1> QED
  BY <1>2, <1>3 DEF IdInv

\* when an execution ends;
LEMMA IdEnds ==
  ASSUME TypedInv, LifeInv, HeldInv, IdInv, NEW w \in Workers, Ends(w)
  PROVE  IdInv'
<1>1. /\ UNCHANGED <<records, chunks, runs>> /\ pc'[w] = "idle"
      /\ \A v \in Workers \ {w} : pc'[v] = pc[v] /\ job'[v] = job[v] /\ local'[v] = local[v]
  BY DEF Ends, memory, Moved, OthersKept
<1>2. \A v \in Workers \ {w} : Numbered(v)'
  BY <1>1, NumbersKept
<1>3. Numbered(w)'
  BY <1>1 DEF Numbered, Working
<1>4. RowInv'
  BY <1>1 DEF IdInv, RowInv
<1> QED
  BY <1>2, <1>3, <1>4 DEF IdInv

\* A claim starts an execution that no row is of.
LEMMA ClaimFacts ==
  ASSUME TypedInv, LifeInv, HeldInv, NEW w \in Workers, Claim(w)
  PROVE  \E j \in Job :
            /\ pc[w] = "idle" /\ job'[w] = j /\ phase[j] = "pending"
            /\ Moved(w, "read_summary") /\ local'[w] = Fresh
            /\ UNCHANGED <<messages, memory, cut, outcome>>
            /\ runs'[j] = runs[j] + 1 /\ phase' = [phase EXCEPT ![j] = "running"]
            /\ \A i \in Job \ {j} : runs'[i] = runs[i]
            /\ \A v \in Workers : job[v] # j
<1>1. PICK j \in Job : /\ Lifecycle!Claim(j) /\ job'[w] = j /\ pc[w] = "idle"
                       /\ runs' = [runs EXCEPT ![j] = runs[j] + 1]
                       /\ Moved(w, "read_summary") /\ local'[w] = Fresh
  BY ClaimMoves
<1>2. phase[j] = "pending" /\ phase' = [phase EXCEPT ![j] = "running"]
  BY <1>1 DEF Lifecycle!Claim, Lifecycle!Move
<1>3. UNCHANGED <<messages, memory, cut, outcome>>
  BY DEF Claim
<1>4. /\ runs'[j] = runs[j] + 1
      /\ \A i \in Job \ {j} : runs'[i] = runs[i]
  BY <1>1 DEF TypedInv
<1>5. ASSUME NEW v \in Workers PROVE job[v] # j
  <2>1. j # 0
    BY WorkerTypes
  <2> QED
    BY <1>2, <2>1 DEF HeldInv
<1> QED
  BY <1>1, <1>2, <1>3, <1>4, <1>5

\* when one begins: its attempt is a new one, so no row has its ids yet;
LEMMA IdClaims ==
  ASSUME TypedInv, LifeInv, HeldInv, IdInv, NEW w \in Workers, Claim(w)
  PROVE  IdInv'
<1>1. PICK j \in Job :
            /\ job'[w] = j /\ Moved(w, "read_summary")
            /\ UNCHANGED <<messages, memory, cut, outcome>>
            /\ runs'[j] = runs[j] + 1
            /\ \A i \in Job \ {j} : runs'[i] = runs[i]
            /\ \A v \in Workers : job[v] # j
  BY ClaimFacts
<1>2. /\ UNCHANGED <<records, chunks>>
      /\ \A v \in Workers \ {w} : pc'[v] = pc[v] /\ job'[v] = job[v] /\ local'[v] = local[v]
  BY <1>1 DEF memory, Moved, OthersKept
<1>3. \A i \in Job : runs[i] \in Nat
  BY DEF TypedInv
<1>4. \A i \in Job : runs'[i] \in Nat /\ runs[i] <= runs'[i]
  BY <1>1, <1>3
<1>5. RowInv'
  BY <1>2, <1>3, <1>4, RowsKept DEF IdInv
<1>6. ASSUME NEW v \in Workers \ {w} PROVE Numbered(v)'
  <2>1. CASE Working(v)
    <3>1. job[v] \in Job \ {j}
      BY <1>1, <2>1, HasJob DEF Working
    <3> QED
      BY <1>1, <1>2, <3>1, NumbersKept
  <2>2. CASE ~Working(v)
    BY <1>2, <2>2 DEF Numbered, Working
  <2> QED
    BY <2>1, <2>2
<1>7. Numbered(w)'
  <2>1. ASSUME NEW r \in records \cup chunks, OfExecution(r, j, runs[j] + 1) PROVE FALSE
    BY <1>3, <2>1 DEF IdInv, RowInv, OfExecution
  <2> QED
    BY <1>1, <1>2, <2>1 DEF Numbered
<1> QED
  BY <1>5, <1>6, <1>7 DEF IdInv

\* and when one goes on: the id it uses next is above all it has used.
LEMMA IdGoes ==
  ASSUME TypedInv, LifeInv, HeldInv, StageInv, IdInv, SummaryInv, EntityInv,
         NEW w \in Workers, Going(w)
  PROVE  IdInv'
<1>1. PICK to \in Place : OnJob(w, to)
  BY GoesOn
<1>2. /\ pc'[w] = to /\ job'[w] = job[w] /\ pc[w] # "idle" /\ runs' = runs
      /\ \A v \in Workers \ {w} : pc'[v] = pc[v] /\ job'[v] = job[v] /\ local'[v] = local[v]
  BY <1>1 DEF OnJob, Moved, OthersKept
<1>3. GrowsRows(w)
  BY GoingGrows
<1>4. ASSUME NEW v \in Workers \ {w} PROVE Numbered(v)'
  <2>1. CASE Working(v)
    <3>1. job[v] # job[w]
      BY <1>2, <2>1, HasJob DEF HeldInv, Working
    <3> QED
      BY <1>2, <1>3, <3>1, NumbersKept DEF GrowsRows
  <2>2. CASE ~Working(v)
    BY <1>2, <2>2 DEF Numbered, Working
  <2> QED
    BY <2>1, <2>2
<1>5. Numbered(w)
  BY DEF IdInv
<1>6. local[w].made \in Nat /\ \A r \in records \cup chunks : r.id[3] \in Nat
  <2>1. \A i \in RowId : i[3] \in Nat
    BY DEF RowId
  <2> QED
    BY <2>1, WorkerTypes, LocalFields DEF IdInv, RowInv
<1>7. Working(w)' => pc'[w] # "failed"
  BY DEF Working
<1>8. ASSUME NEW x, NewRow(w, x), (records \cup chunks)' = (records \cup chunks) \cup {x}
      PROVE  Numbered(w)'
  <2>1. /\ Working(w) /\ local'[w].made = local[w].made + 1 /\ x.id[3] = local[w].made + 1
    BY <1>8, NewRowFacts DEF NewRow
  <2>2. ASSUME NEW r \in records \cup chunks, OfExecution(r, job[w], runs[job[w]])
        PROVE  r.id[3] <= local'[w].made
    <3>1. r.id[3] <= local[w].made
      BY <1>5, <2>1, <2>2 DEF Numbered
    <3> QED
      BY <1>6, <2>1, <3>1
  <2>3. x.id[3] <= local'[w].made
    BY <1>6, <2>1
  <2> QED
    BY <1>2, <1>8, <2>2, <2>3 DEF Numbered, OfExecution
<1>9. CASE RowsStay(w)
  <2>1. UNCHANGED <<records, chunks>> /\ (pc'[w] # "failed" => local'[w].made >= local[w].made)
    BY <1>9 DEF RowsStay
  <2>2. RowInv'
    BY <1>2, <2>1 DEF IdInv, RowInv
  <2>3. Numbered(w)'
    <3>1. SUFFICES ASSUME Working(w)' PROVE Numbered(w)'
      BY DEF Numbered
    <3>2. Working(w)
      BY <3>1, GoingWorks
    <3>3. local'[w].made \in Nat /\ local'[w].made >= local[w].made
      <4>1. local'[w] \in Local
        BY <1>1 DEF OnJob, Moved
      <4> QED
        BY <1>7, <2>1, <3>1, <4>1, LocalFields
    <3>4. ASSUME NEW r \in records \cup chunks, OfExecution(r, job[w], runs[job[w]])
          PROVE  r.id[3] <= local'[w].made
      <4>1. r.id[3] <= local[w].made
        BY <1>5, <3>2, <3>4 DEF Numbered
      <4> QED
        BY <1>6, <3>3, <4>1
    <3> QED
      BY <1>2, <2>1, <3>4 DEF Numbered, OfExecution
  <2> QED
    BY <1>4, <2>2, <2>3 DEF IdInv
<1>10. ASSUME NEW c, NewChunk(w, c) PROVE IdInv'
  <2>1. NewRow(w, c) /\ chunks' = chunks \cup {c} /\ records' = records
    BY <1>10 DEF NewChunk
  <2>2. (records \cup chunks)' = (records \cup chunks) \cup {c}
    BY <2>1
  <2>3. RowInv'
    BY <1>2, <1>10, RowsGrow
  <2> QED
    BY <1>4, <1>8, <2>1, <2>2, <2>3 DEF IdInv
<1>11. ASSUME NEW r, NewRecord(w, r) PROVE IdInv'
  <2>1. NewRow(w, r) /\ records' = records \cup {r} /\ chunks' = chunks
    BY <1>11 DEF NewRecord
  <2>2. (records \cup chunks)' = (records \cup chunks) \cup {r}
    BY <2>1
  <2>3. RowInv'
    BY <1>2, <1>11, RowsGrow
  <2> QED
    BY <1>4, <1>8, <2>1, <2>2, <2>3 DEF IdInv
<1> QED
  BY <1>9, <1>10, <1>11, RowCases

-----------------------------------------------------------------------------
(* Events are stored once in an execution.                                 *)

\* Of whom no record is stored, and who does not act, has the events it had.
LEMMA EventsKept ==
  ASSUME EventInv, NEW v \in Workers, pc'[v] = pc[v], job'[v] = job[v], local'[v] = local[v],
         runs'[job[v]] = runs[job[v]],
         \A r \in records' : r \in records \/ r.id[1] # job[v]
  PROVE  EventsLeft(v)'
BY DEF EventInv, EventsLeft, Working, OfExecution, OfKind

\* That an event is stored once by an execution stays true when nothing of
\* the memory moves;
LEMMA EventWaits ==
  ASSUME EventInv, Waits
  PROVE  EventInv'
<1>1. UNCHANGED <<pc, job, local, records, runs>>
  BY DEF Waits, memory
<1>2. \A v \in Workers : EventsLeft(v)'
  BY <1>1, EventsKept
<1>3. EventsOnce'
  BY <1>1 DEF EventInv, EventsOnce, OfKind
<1> QED
  BY <1>2, <1>3 DEF EventInv

\* when an execution ends;
LEMMA EventEnds ==
  ASSUME EventInv, NEW w \in Workers, Ends(w)
  PROVE  EventInv'
<1>1. /\ UNCHANGED <<records, runs>> /\ pc'[w] = "idle"
      /\ \A v \in Workers \ {w} : pc'[v] = pc[v] /\ job'[v] = job[v] /\ local'[v] = local[v]
  BY DEF Ends, memory, Moved, OthersKept
<1>2. \A v \in Workers \ {w} : EventsLeft(v)'
  BY <1>1, EventsKept
<1>3. EventsLeft(w)'
  BY <1>1 DEF EventsLeft, Working
<1>4. EventsOnce'
  BY <1>1 DEF EventInv, EventsOnce, OfKind
<1> QED
  BY <1>2, <1>3, <1>4 DEF EventInv

\* when one begins: the new attempt has no events;
LEMMA EventClaims ==
  ASSUME TypedInv, LifeInv, HeldInv, IdInv, EventInv, NEW w \in Workers, Claim(w)
  PROVE  EventInv'
<1>1. PICK j \in Job :
            /\ job'[w] = j /\ Moved(w, "read_summary")
            /\ UNCHANGED <<messages, memory, cut, outcome>>
            /\ runs'[j] = runs[j] + 1
            /\ \A i \in Job \ {j} : runs'[i] = runs[i]
            /\ \A v \in Workers : job[v] # j
  BY ClaimFacts
<1>2. /\ records' = records
      /\ \A v \in Workers \ {w} : pc'[v] = pc[v] /\ job'[v] = job[v] /\ local'[v] = local[v]
  BY <1>1 DEF memory, Moved, OthersKept
<1>3. ASSUME NEW v \in Workers \ {w} PROVE EventsLeft(v)'
  <2>1. CASE Working(v)
    <3>1. job[v] \in Job \ {j}
      BY <1>1, <2>1, HasJob DEF Working
    <3> QED
      BY <1>1, <1>2, <3>1, EventsKept
  <2>2. CASE ~Working(v)
    BY <1>2, <2>2 DEF EventsLeft, Working
  <2> QED
    BY <2>1, <2>2
<1>4. EventsLeft(w)'
  <2>1. runs[j] \in Nat
    BY DEF TypedInv
  <2>2. ASSUME NEW r \in records, OfExecution(r, j, runs[j] + 1) PROVE FALSE
    BY <2>1, <2>2 DEF IdInv, RowInv, OfExecution
  <2> QED
    BY <1>1, <1>2, <2>2 DEF EventsLeft, OfKind
<1>5. EventsOnce'
  BY <1>2 DEF EventInv, EventsOnce, OfKind
<1> QED
  BY <1>3, <1>4, <1>5 DEF EventInv

\* Where a worker's step stores no event, it has no more to do of them than before.
EventsNoMore(w) ==
  \/ local[w].stage = 0 \/ local'[w].stage >= 2
  \/ local'[w].stage = local[w].stage /\ local'[w].todo \subseteq local[w].todo

\* A step that saves no record leaves no more events to do than before.
LEMMA GoingEvents ==
  ASSUME TypedInv, LifeInv, HeldInv, StageInv, IdInv, SummaryInv, EntityInv, EventInv,
         NEW w \in Workers, Going(w), ~SaveItem(w)
  PROVE  pc'[w] = "failed" \/ EventsNoMore(w)
<1>1. CASE CallFails(w) \/ RelateFails(w)
  <2>1. Fail(w) /\ job' = job
    BY <1>1 DEF CallFails, RelateFails
  <2> QED
    BY <2>1, FailMoves DEF Moved
<1>2. CASE ReadSummary(w)
  BY <1>2, ReadSummaryMoves DEF KeepsPlan, KeepsWork, EventsNoMore
<1>3. CASE ReadMessages(w)
  BY <1>3, ReadMessagesMoves DEF KeepsPlan, KeepsWork, EventsNoMore
<1>4. CASE WriteSummary(w)
  BY <1>4, WriteSummaryMoves DEF EventsNoMore
<1>5. CASE SaveTurn(w)
  <2>1. job[w] \in Job
    BY <1>5, HasJob DEF SaveTurn, Goto
  <2> QED
    BY <1>5, <2>1, SaveTurnMoves DEF KeepsPlan, KeepsWork, EventsNoMore
<1>6. CASE Attach(w)
  BY <1>6, AttachMoves DEF EventsNoMore
<1>7. CASE Extract(w)
  BY <1>7 DEF Extract, Goto, StageInv, Staged, EventsNoMore
<1>8. CASE NextKind(w)
  <2>1. local[w].stage \in 0..3 /\ local'[w].stage = local[w].stage + 1 /\ pc[w] = "item"
    BY <1>8, NextKindMoves
  <2>2. local[w].stage \in 1..4
    BY <2>1 DEF StageInv, Staged
  <2>3. local'[w].stage >= 2
    BY <2>1, <2>2
  <2> QED
    BY <2>3 DEF EventsNoMore
<1>9. CASE Embed(w)
  <2>1. job[w] \in Job
    BY <1>9, HasJob DEF Embed, Goto
  <2> QED
    BY <1>9, <2>1, EmbedMoves DEF KeepsPlan, KeepsWork, EventsNoMore
<1>10. CASE StartLinks(w)
  BY <1>10, StartLinksMoves DEF KeepsPlan, KeepsWork, EventsNoMore
<1>11. CASE Link(w)
  BY <1>11, LinkStep DEF KeepsPlan, KeepsWork, EventsNoMore
<1> QED
  BY <1>1, <1>2, <1>3, <1>4, <1>5, <1>6, <1>7, <1>8, <1>9, <1>10, <1>11 DEF Going

\* No other step of an execution stores a record.
LEMMA RecordsStay ==
  ASSUME NEW w \in Workers, Going(w), ~SaveItem(w)
  PROVE  records' = records
BY DEF Going, ReadSummary, ReadMessages, WriteSummary, SaveTurn, Attach, Extract, NextKind, Embed,
       StartLinks, Link, CallFails, RelateFails, memory

\* and when one goes on: an event saved is one that waited.
LEMMA EventGoes ==
  ASSUME TypedInv, LifeInv, HeldInv, StageInv, IdInv, SummaryInv, EntityInv, EventInv,
         NEW w \in Workers, Going(w)
  PROVE  EventInv'
<1>1. PICK to \in Place : OnJob(w, to)
  BY GoesOn
<1>2. /\ job'[w] = job[w] /\ runs' = runs /\ job[w] \in Job
      /\ \A v \in Workers \ {w} : pc'[v] = pc[v] /\ job'[v] = job[v] /\ local'[v] = local[v]
  BY <1>1, HasJob DEF OnJob, Moved, OthersKept
<1>3. GrowsRows(w) /\ Working(w)
  BY GoingGrows, GoingWorks
<1>4. ASSUME NEW v \in Workers \ {w} PROVE EventsLeft(v)'
  <2>1. CASE Working(v)
    <3>1. job[v] # job[w]
      BY <1>2, <2>1, HasJob DEF HeldInv, Working
    <3> QED
      BY <1>2, <1>3, <3>1, EventsKept DEF GrowsRows
  <2>2. CASE ~Working(v)
    BY <1>2, <2>2 DEF EventsLeft, Working
  <2> QED
    BY <2>1, <2>2
<1>5. EventsLeft(w) /\ EventsOnce
  BY DEF EventInv
<1>6. local[w].stage \in Nat
  BY WorkerTypes, LocalFields
<1>7. CASE ~SaveItem(w)
  <2>1. records' = records
    BY <1>7, RecordsStay
  <2>2. EventsOnce'
    BY <1>5, <2>1 DEF EventsOnce, OfKind
  <2>3. ASSUME Working(w)', NEW r \in OfKind("event"), OfExecution(r, job[w], runs[job[w]])
        PROVE  local'[w].stage >= 1 /\ (local'[w].stage = 1 => r.key \notin local'[w].todo)
    <3>1. local[w].stage >= 1 /\ (local[w].stage = 1 => r.key \notin local[w].todo)
      BY <1>3, <1>5, <2>3 DEF EventsLeft
    <3>2. EventsNoMore(w)
      BY <1>7, <2>3, GoingEvents DEF Working
    <3>3. local'[w].stage \in Nat
      BY <1>1, LocalFields DEF OnJob, Moved
    <3> QED
      BY <1>6, <3>1, <3>2, <3>3 DEF EventsNoMore
  <2>4. EventsLeft(w)'
    BY <1>2, <2>1, <2>3 DEF EventsLeft, OfKind
  <2> QED
    BY <1>4, <2>2, <2>4 DEF EventInv
<1>8. CASE SaveItem(w)
  <2>1. PICK r \in Row :
            /\ local[w].stage \in 1..4 /\ records' = records \cup {r}
            /\ r.kind = KindOf(w) /\ r.key \in local[w].todo
            /\ local'[w].todo = local[w].todo \ {r.key} /\ local'[w].stage = local[w].stage
            /\ NewRecord(w, r) \/ (r \in records /\ KindOf(w) # "event")
    BY <1>8, SaveItemFacts DEF KeepsPlan
  <2>2. ASSUME NEW s \in OfKind("event"), OfExecution(s, job[w], runs[job[w]])
        PROVE  local[w].stage >= 1 /\ (local[w].stage = 1 => s.key \notin local[w].todo)
    BY <1>3, <1>5, <2>2 DEF EventsLeft
  <2>3. KindOf(w) = "event" => local[w].stage = 1
    BY <2>1, KindsFacts DEF KindOf
  <2>4. CASE r.kind # "event"
    <3>1. {s \in records' : s.kind = "event"} = OfKind("event")
      BY <2>1, <2>4 DEF OfKind
    <3>2. EventsOnce'
      BY <1>5, <3>1 DEF EventsOnce, OfKind
    <3>3. EventsLeft(w)'
      BY <1>2, <2>1, <2>2, <3>1 DEF EventsLeft, OfKind
    <3> QED
      BY <1>4, <3>2, <3>3 DEF EventInv
  <2>5. CASE r.kind = "event"
    <3>1. NewRow(w, r) /\ local[w].stage = 1
      BY <2>1, <2>3, <2>5 DEF NewRecord
    <3>2. OfExecution(r, job[w], runs[job[w]])
      BY <3>1, NewRowFacts DEF OfExecution
    <3>3. {s \in records' : s.kind = "event"} = OfKind("event") \cup {r}
      BY <2>1, <2>5 DEF OfKind
    <3>4. ASSUME NEW s \in OfKind("event"), s.key = r.key
          PROVE  ~OfExecution(s, job[w], runs[job[w]])
      BY <2>1, <2>2, <3>1, <3>4
    <3>5. EventsOnce'
      <4>1. ASSUME NEW a \in OfKind("event") \cup {r}, NEW b \in OfKind("event") \cup {r},
                   a.key = b.key, OfExecution(a, b.id[1], b.id[2])
            PROVE  a = b
        <5>1. CASE a \in OfKind("event") /\ b \in OfKind("event")
          BY <1>5, <4>1, <5>1 DEF EventsOnce
        <5>2. CASE a = r /\ b \in OfKind("event")
          BY <3>2, <3>4, <4>1, <5>2 DEF OfExecution
        <5>3. CASE b = r /\ a \in OfKind("event")
          BY <3>2, <3>4, <4>1, <5>3 DEF OfExecution
        <5> QED
          BY <4>1, <5>1, <5>2, <5>3
      <4> QED
        BY <3>3, <4>1 DEF EventsOnce, OfKind
    <3>6. EventsLeft(w)'
      <4>1. ASSUME NEW s \in OfKind("event") \cup {r}, OfExecution(s, job[w], runs[job[w]])
            PROVE  s.key \notin local'[w].todo
        BY <2>1, <2>2, <3>1, <4>1
      <4> QED
        BY <1>2, <2>1, <3>1, <3>3, <4>1 DEF EventsLeft, OfKind
    <3> QED
      BY <1>4, <3>5, <3>6 DEF EventInv
  <2> QED
    BY <2>4, <2>5
<1> QED
  BY <1>7, <1>8

-----------------------------------------------------------------------------
(* The summary.                                                            *)

\* What is covered stays so while turns follow.
LEMMA CoveredStays ==
  ASSUME TypedInv, messages' \in Nat, messages <= messages', NEW j \in Job \cup {0}, NEW set, NEW larger,
         set \subseteq larger, Covered(j, set)
  PROVE  j \in larger \/ messages' >= j + Window
<1>1. j \in Nat /\ Window \in Nat /\ messages \in Nat
  BY MemoryUpdateAssumption DEF Job, TypedInv
<1> QED
  BY <1>1 DEF Covered

\* Who does not act has read what it had, and its turn is covered as it was.
LEMMA SummaryKept ==
  ASSUME TypedInv, SummaryInv, messages' \in Nat, messages <= messages', summary' = summary,
         NEW v \in Workers, pc'[v] = pc[v], job'[v] = job[v], local'[v] = local[v]
  PROVE  ReadInv(v)' /\ (alone => WrittenInv(v)')
<1>1. job[v] \in Job \cup {0} /\ messages \in Nat
  BY DEF TypedInv
<1>2. ReadInv(v) /\ (alone => WrittenInv(v))
  BY DEF SummaryInv
<1>3. 1..messages \subseteq 1..messages'
  BY <1>1
<1>4. ReadInv(v)'
  <2>1. pc[v] = "write_summary" => job[v] \in local[v].recent \/ messages' >= job[v] + Window
    BY <1>1, <1>2, CoveredStays DEF ReadInv
  <2> QED
    BY <1>2, <1>3, <2>1 DEF ReadInv, Covered
<1>5. ASSUME alone PROVE WrittenInv(v)'
  <2>1. HasWritten(v) => job[v] \in summary \/ messages' >= job[v] + Window
    BY <1>1, <1>2, <1>5, CoveredStays DEF WrittenInv
  <2> QED
    BY <1>2, <1>5, <2>1 DEF WrittenInv, Covered, HasWritten, Working, Early
<1> QED
  BY <1>4, <1>5

\* Who is idle or has failed has nothing to say of the summary.
LEMMA SummaryFresh ==
  ASSUME NEW v \in Workers, pc'[v] \in {"idle", "failed", "read_summary"}, local'[v] = Fresh
  PROVE  ReadInv(v)' /\ WrittenInv(v)'
BY FreshIsLocal DEF ReadInv, WrittenInv, HasWritten, Working, Early

\* What the summary covers stays when nothing of the memory moves;
LEMMA SummaryWaits ==
  ASSUME TypedInv, SummaryInv, JobsTyped, Waits
  PROVE  SummaryInv'
<1>1. /\ UNCHANGED <<pc, job, local, summary, alone>> /\ messages <= messages' /\ messages' \in Nat
  BY DEF Waits, memory, JobsTyped
<1>2. \A v \in Workers : ReadInv(v)' /\ (alone => WrittenInv(v)')
  BY <1>1, SummaryKept
<1>3. summary \subseteq 1..messages'
  BY <1>1 DEF SummaryInv, TypedInv
<1> QED
  BY <1>1, <1>2, <1>3 DEF SummaryInv, OneWorks

\* when an execution ends;
LEMMA SummaryEnds ==
  ASSUME TypedInv, SummaryInv, NEW w \in Workers, Ends(w)
  PROVE  SummaryInv'
<1>1. /\ UNCHANGED <<summary, alone, messages>> /\ messages \in Nat /\ messages <= messages
      /\ pc'[w] = "idle" /\ local'[w] = Fresh
      /\ \A v \in Workers \ {w} : pc'[v] = pc[v] /\ job'[v] = job[v] /\ local'[v] = local[v]
  BY DEF Ends, memory, Moved, OthersKept, TypedInv
<1>2. \A v \in Workers \ {w} : ReadInv(v)' /\ (alone => WrittenInv(v)')
  BY <1>1, SummaryKept
<1>3. ReadInv(w)' /\ WrittenInv(w)'
  BY <1>1, SummaryFresh
<1> QED
  BY <1>1, <1>2, <1>3 DEF SummaryInv, OneWorks

\* when one begins;
LEMMA SummaryClaims ==
  ASSUME TypedInv, LifeInv, HeldInv, SummaryInv, NEW w \in Workers, Claim(w)
  PROVE  SummaryInv'
<1>1. /\ UNCHANGED <<summary, messages>> /\ messages \in Nat /\ messages <= messages
      /\ pc'[w] = "read_summary" /\ local'[w] = Fresh
      /\ \A v \in Workers \ {w} : pc'[v] = pc[v] /\ job'[v] = job[v] /\ local'[v] = local[v]
  BY ClaimFacts DEF memory, Moved, OthersKept, TypedInv
<1>2. \A v \in Workers \ {w} : ReadInv(v)' /\ (alone => WrittenInv(v)')
  BY <1>1, SummaryKept
<1>3. ReadInv(w)' /\ WrittenInv(w)'
  BY <1>1, SummaryFresh
<1>4. alone' => alone /\ \A v \in Workers \ {w} : pc[v] = "idle"
  BY DEF Claim
<1>5. alone' => OneWorks'
  BY <1>1, <1>4 DEF OneWorks
<1> QED
  BY <1>1, <1>2, <1>3, <1>4, <1>5 DEF SummaryInv

\* An execution does not touch the summary but where it writes it.
LEMMA SummaryStays ==
  ASSUME NEW w \in Workers, Going(w), ~WriteSummary(w)
  PROVE  summary' = summary
BY DEF Going, ReadSummary, ReadMessages, SaveTurn, Attach, Extract, NextKind, SaveItem, Embed,
       StartLinks, Link, CallFails, RelateFails, memory

\* An execution that has written the summary does not read it again.
LEMMA ReadsNoMore ==
  ASSUME TypedInv, LifeInv, HeldInv, StageInv, SummaryInv, EntityInv, NEW w \in Workers, Going(w),
         ~ReadSummary(w), ~ReadMessages(w), ~WriteSummary(w)
  PROVE  \/ pc'[w] = "failed" /\ local'[w] = Fresh
         \/ KeepsRead(w) /\ HasWritten(w) /\ HasWritten(w)'
<1> DEFINE Later(p) == p \in {"save_turn", "attach_turn", "extract", "item", "link"} \cup Storing
<1>0. /\ Later(pc[w]) => HasWritten(w)
      /\ Later(pc'[w]) => HasWritten(w)'
  BY DEF HasWritten, Working, Early, Storing
<1>1. CASE CallFails(w) \/ RelateFails(w)
  <2>1. Fail(w) /\ job' = job
    BY <1>1 DEF CallFails, RelateFails
  <2> QED
    BY <2>1, FailMoves DEF Moved
<1>2. CASE SaveTurn(w)
  <2>1. job[w] \in Job
    BY <1>2, HasJob DEF SaveTurn, Goto
  <2> QED
    BY <1>0, <1>2, <2>1, SaveTurnMoves DEF Moved
<1>3. CASE Attach(w)
  <2>1. PICK to \in Place : AttachStep(pc[w], to) /\ Moved(w, to) /\ local'[w] = local[w]
    BY <1>3, AttachMoves
  <2>2. Later(pc[w]) /\ Later(pc'[w])
    BY <2>1 DEF AttachStep, Storing, Moved
  <2> QED
    BY <1>0, <2>1, <2>2 DEF KeepsRead
<1>4. CASE Extract(w)
  BY <1>0, <1>4, ExtractMoves DEF Moved
<1>5. CASE NextKind(w)
  <2>1. pc[w] = "item" /\ Moved(w, "item") /\ KeepsRead(w)
    BY <1>5, NextKindMoves
  <2> QED
    BY <1>0, <2>1 DEF Moved
<1>6. CASE SaveItem(w)
  <2>1. pc[w] = "item" /\ Moved(w, "attach_item") /\ KeepsRead(w)
    BY <1>6, SaveItemFacts
  <2> QED
    BY <1>0, <2>1 DEF Moved, Storing
<1>7. CASE Embed(w)
  <2>1. pc[w] = "embed"
    BY <1>7 DEF Embed, Goto
  <2>2. job[w] \in Job
    BY <2>1, HasJob
  <2>3. Moved(w, "attach_chunk") /\ KeepsRead(w)
    BY <1>7, <2>2, EmbedMoves
  <2> QED
    BY <1>0, <2>1, <2>3 DEF Moved, Storing
<1>8. CASE StartLinks(w)
  BY <1>0, <1>8, StartLinksMoves DEF Moved
<1>9. CASE Link(w)
  <2>1. pc[w] = "link" /\ Moved(w, "link") /\ KeepsRead(w)
    BY <1>9, LinkStep
  <2> QED
    BY <1>0, <2>1 DEF Moved
<1> QED
  BY <1>1, <1>2, <1>3, <1>4, <1>5, <1>6, <1>7, <1>8, <1>9 DEF Going

\* While executions do not overlap a write of the summary keeps what it covered.
LEMMA WriteKeeps ==
  ASSUME TypedInv, SummaryInv, NEW w \in Workers, WriteSummary(w)
  PROVE  /\ summary' = local[w].previous \cup local[w].recent /\ summary' \subseteq 1..messages
         /\ Covered(job[w], summary')
         /\ alone => summary \subseteq summary'
<1>1. pc[w] = "write_summary" /\ summary' = local[w].previous \cup local[w].recent
  BY DEF WriteSummary, Goto, Summarize
<1>2. ReadInv(w) /\ (alone => WrittenInv(w))
  BY DEF SummaryInv
<1>3. summary' \subseteq 1..messages
  BY <1>1, <1>2 DEF ReadInv
<1>4. Covered(job[w], summary')
  BY <1>1, <1>2 DEF ReadInv, Covered
<1>5. alone => summary \subseteq summary'
  BY <1>1, <1>2 DEF WrittenInv
<1> QED
  BY <1>1, <1>3, <1>4, <1>5

\* and when one goes on: what is written was read, and covers what was read.
LEMMA SummaryGoes ==
  ASSUME TypedInv, LifeInv, HeldInv, StageInv, SummaryInv, EntityInv, NEW w \in Workers, Going(w)
  PROVE  SummaryInv'
<1>1. PICK to \in Place : OnJob(w, to)
  BY GoesOn
<1>2. /\ UNCHANGED <<messages, alone>> /\ messages \in Nat /\ messages <= messages
      /\ job'[w] = job[w] /\ pc[w] # "idle"
      /\ \A v \in Workers \ {w} : pc'[v] = pc[v] /\ job'[v] = job[v] /\ local'[v] = local[v]
  BY <1>1 DEF OnJob, Moved, OthersKept, TypedInv
<1>3. /\ summary \subseteq 1..messages /\ ReadInv(w)
      /\ alone => OneWorks /\ WrittenInv(w)
  BY DEF SummaryInv
<1>4. ASSUME summary' = summary, ReadInv(w)', alone => WrittenInv(w)'
      PROVE  SummaryInv'
  <2>1. \A v \in Workers \ {w} : ReadInv(v)' /\ (alone => WrittenInv(v)')
    BY <1>2, <1>4, SummaryKept
  <2>2. alone => OneWorks'
    BY <1>2, <1>3 DEF OneWorks
  <2> QED
    BY <1>2, <1>3, <1>4, <2>1, <2>2 DEF SummaryInv
<1>5. CASE ReadSummary(w)
  <2>1. /\ pc'[w] = "read_messages" /\ local'[w].previous = summary
        /\ local'[w].recent = local[w].recent
    BY <1>5, ReadSummaryMoves DEF Moved
  <2>2. summary' = summary
    BY <1>5 DEF ReadSummary, memory
  <2>3. ReadInv(w)'
    BY <1>2, <1>3, <2>1 DEF ReadInv
  <2>4. WrittenInv(w)'
    BY <2>1, <2>2 DEF WrittenInv, HasWritten, Working, Early
  <2> QED
    BY <1>4, <2>2, <2>3, <2>4
<1>6. CASE ReadMessages(w)
  <2>1. /\ pc[w] = "read_messages" /\ pc'[w] = "write_summary" /\ local'[w].recent = Recent
        /\ local'[w].previous = local[w].previous
    BY <1>6, ReadMessagesMoves DEF Moved
  <2>2. summary' = summary
    BY <1>6 DEF ReadMessages, memory
  <2>3. Recent \subseteq 1..messages /\ Covered(job[w], Recent)
    <3>1. job[w] \in Job /\ job[w] <= messages
      BY <2>1, HasJob
    <3>2. job[w] \in Nat /\ job[w] >= 1 /\ Window \in Nat
      BY <3>1, MemoryUpdateAssumption DEF Job
    <3> QED
      BY <1>2, <3>1, <3>2 DEF Recent, Covered
  <2>4. ReadInv(w)'
    BY <1>2, <1>3, <2>1, <2>3 DEF ReadInv, Covered
  <2>5. alone => WrittenInv(w)'
    BY <1>3, <2>1, <2>2 DEF WrittenInv, HasWritten, Working, Early
  <2> QED
    BY <1>4, <2>2, <2>4, <2>5
<1>7. CASE WriteSummary(w)
  <2>1. pc'[w] = "save_turn" /\ local'[w] = local[w]
    BY <1>7, WriteSummaryMoves DEF Moved
  <2>2. summary' \subseteq 1..messages /\ Covered(job[w], summary')
    BY <1>7, WriteKeeps
  <2>3. ReadInv(w)'
    BY <1>2, <1>3, <2>1 DEF ReadInv
  <2>4. WrittenInv(w)'
    BY <1>2, <2>1, <2>2 DEF WrittenInv, Covered
  <2>5. \A v \in Workers \ {w} : ReadInv(v)'
    BY <1>2 DEF SummaryInv, ReadInv, Covered
  <2>6. ASSUME alone, NEW v \in Workers \ {w} PROVE WrittenInv(v)'
    <3>1. pc[v] = "idle"
      BY <1>2, <1>3, <2>6 DEF OneWorks
    <3> QED
      BY <1>2, <3>1 DEF WrittenInv, HasWritten, Working
  <2>7. alone => OneWorks'
    BY <1>2, <1>3 DEF OneWorks
  <2> QED
    BY <1>2, <2>2, <2>3, <2>4, <2>5, <2>6, <2>7 DEF SummaryInv
<1>8. CASE ~ReadSummary(w) /\ ~ReadMessages(w) /\ ~WriteSummary(w)
  <2>1. summary' = summary
    BY <1>8, SummaryStays
  <2>2. CASE pc'[w] = "failed" /\ local'[w] = Fresh
    BY <1>4, <2>1, <2>2, SummaryFresh
  <2>3. CASE KeepsRead(w) /\ HasWritten(w) /\ HasWritten(w)'
    <3>1. pc'[w] \notin {"read_messages", "write_summary"}
      BY <2>3 DEF HasWritten, Working, Early
    <3>2. ReadInv(w)'
      BY <1>2, <1>3, <2>3, <3>1 DEF ReadInv, KeepsRead
    <3>3. alone => WrittenInv(w)'
      BY <1>2, <1>3, <2>1, <2>3, <3>1 DEF WrittenInv, Covered
    <3> QED
      BY <1>4, <2>1, <3>2, <3>3
  <2> QED
    BY <1>8, <2>2, <2>3, ReadsNoMore
<1> QED
  BY <1>5, <1>6, <1>7, <1>8

\* What the summary covered it covers, whatever step is taken while executions do not overlap.
LEMMA SummaryGrows ==
  ASSUME TypedInv, LifeInv, HeldInv, SummaryInv, [Next]_vars, alone'
  PROVE  alone /\ summary \subseteq summary'
<1>1. CASE Outside
  BY <1>1, Waiting DEF Waits, memory
<1>2. ASSUME NEW w \in Workers, WorkerStep(w) \/ CallFails(w) \/ RelateFails(w) \/ Stop(w)
      PROVE  alone /\ summary \subseteq summary'
  <2>1. CASE Claim(w)
    BY <2>1, ClaimFacts DEF Claim, memory
  <2>2. CASE Succeed(w) \/ GiveBack(w) \/ Stop(w)
    BY <2>2, Ending DEF Ends, memory
  <2>3. CASE WriteSummary(w)
    <3>1. alone' = alone
      BY <2>3 DEF WriteSummary, ghosts
    <3> QED
      BY <2>3, <3>1, WriteKeeps
  <2>4. CASE Going(w) /\ ~WriteSummary(w)
    <3>1. alone' = alone
      BY <2>4 DEF Going, ReadSummary, ReadMessages, SaveTurn, Attach, Extract, NextKind, SaveItem,
                  Embed, StartLinks, Link, CallFails, RelateFails, ghosts
    <3> QED
      BY <2>4, <3>1, SummaryStays
  <2> QED
    BY <1>2, <2>1, <2>2, <2>3, <2>4 DEF WorkerStep, Going
<1> QED
  BY <1>1, <1>2 DEF Next, Outside

\* The steps, as the lemmas here take them.
LEMMA Steps ==
  ASSUME [Next]_vars
  PROVE  \/ Outside
         \/ \E w \in Workers : Claim(w) \/ Succeed(w) \/ GiveBack(w) \/ Stop(w) \/ Going(w)
BY DEF Next, WorkerStep, Going, Outside

\* Every step keeps the jobs and who runs them.
LEMMA JobsKept ==
  ASSUME TypedInv, LifeInv, HeldInv, StageInv, SummaryInv, EntityInv, [Next]_vars
  PROVE  /\ JobsTyped /\ LifeInv' /\ HeldInv' /\ messages <= messages'
         /\ \A j \in Job : phase'[j] = "succeeded" =>
               phase[j] = "succeeded" \/ \E w \in Workers : Succeed(w) /\ job[w] = j
<1>0. messages \in Nat /\ messages <= messages
  BY DEF TypedInv
<1>1. CASE Outside
  BY <1>1, Waiting DEF Waits
<1>2. ASSUME NEW w \in Workers, Claim(w)
      PROVE  /\ JobsTyped /\ LifeInv' /\ HeldInv' /\ messages <= messages'
             /\ \A j \in Job : phase'[j] = "succeeded" => phase[j] = "succeeded"
  <2>1. messages' = messages /\ \E j \in Job : phase' = [phase EXCEPT ![j] = "running"]
    BY <1>2, ClaimFacts
  <2> QED
    BY <1>0, <1>2, <2>1, ClaimKeeps DEF TypedInv
<1>3. ASSUME NEW w \in Workers, Succeed(w) \/ GiveBack(w) \/ Stop(w)
      PROVE  /\ JobsTyped /\ LifeInv' /\ HeldInv' /\ messages <= messages'
             /\ \A j \in Job : phase'[j] = "succeeded" =>
                   phase[j] = "succeeded" \/ (Succeed(w) /\ job[w] = j)
  <2>1. messages' = messages /\ JobsTyped /\ LifeInv' /\ HeldInv'
    BY <1>3, Ending DEF Ends
  <2>2. \/ phase' = phase
        \/ \E j \in Job, to \in {"pending", "failed"} : phase' = [phase EXCEPT ![j] = to]
        \/ Succeed(w) /\ phase' = [phase EXCEPT ![job[w]] = "succeeded"]
    <3>1. CASE Stop(w)
      BY <3>1 DEF Stop, jobs
    <3>2. CASE GiveBack(w)
      <4>1. job[w] \in Job
        BY <3>2, HasJob DEF GiveBack
      <4> QED
        BY <3>2, <4>1 DEF GiveBack, Lifecycle!Retry, Lifecycle!Exhaust, Lifecycle!Move
    <3>3. CASE Succeed(w)
      BY <3>3 DEF Succeed, Lifecycle!Complete, Lifecycle!Move
    <3> QED
      BY <1>3, <3>1, <3>2, <3>3
  <2>3. phase \in [Job -> Phase]
    BY DEF TypedInv
  <2>4. ASSUME NEW j \in Job, phase'[j] = "succeeded", phase[j] # "succeeded"
        PROVE  Succeed(w) /\ job[w] = j
    BY <2>2, <2>3, <2>4
  <2> QED
    BY <1>0, <2>1, <2>4
<1>4. ASSUME NEW w \in Workers, Going(w)
      PROVE  /\ JobsTyped /\ LifeInv' /\ HeldInv' /\ messages <= messages' /\ phase' = phase
  <2>1. PICK to \in Place : OnJob(w, to)
    BY <1>4, GoesOn
  <2> QED
    BY <1>0, <2>1, OnJobKeeps DEF OnJob
<1> QED
  BY <1>1, <1>2, <1>3, <1>4, Steps

\* A job that succeeds has its turn in the summary, which covers those of the others already.
LEMMA CoversKept ==
  ASSUME TypedInv, LifeInv, HeldInv, StageInv, SummaryInv, EntityInv, SummaryCovers, [Next]_vars
  PROVE  SummaryCovers'
<1>1. SUFFICES ASSUME alone', NEW j \in Job, phase'[j] = "succeeded"
               PROVE  j \in summary' \/ messages' >= j + Window
  BY DEF SummaryCovers
<1>2. alone /\ summary \subseteq summary'
  BY <1>1, SummaryGrows
<1>3. messages' \in Nat /\ messages <= messages'
  BY JobsKept DEF JobsTyped
<1>4. Covered(j, summary)
  <2>1. CASE phase[j] = "succeeded"
    BY <1>2, <2>1 DEF SummaryCovers, Covered
  <2>2. ASSUME NEW w \in Workers, Succeed(w), job[w] = j PROVE Covered(j, summary)
    <3>1. HasWritten(w)
      BY <2>2 DEF Succeed, HasWritten, Working, Early
    <3> QED
      BY <1>2, <2>2, <3>1 DEF SummaryInv, WrittenInv
  <2> QED
    BY <1>1, <2>1, <2>2, JobsKept
<1> QED
  BY <1>2, <1>3, <1>4, CoveredStays

-----------------------------------------------------------------------------
(* Entities are stored once.                                               *)

\* Rows stay rows, finitely many of them, and of each kind there are more and more.
RecordsTyped ==
  /\ records' \subseteq Row /\ IsFiniteSet(records')
  /\ Cardinality(OfKind("fact")) \in Nat /\ Cardinality(OfKind("fact")') \in Nat
  /\ Cardinality(OfKind("fact")) <= Cardinality(OfKind("fact")')

\* Records that were typed and grow by typed ones are typed.
LEMMA MoreRecords ==
  ASSUME TypedInv, records \subseteq records', records' \subseteq Row, IsFiniteSet(records')
  PROVE  RecordsTyped
<1> DEFINE A == OfKind("fact")
           B == {r \in records' : r.kind = "fact"}
<1>1. A \subseteq B /\ B \subseteq records'
  BY DEF OfKind
<1>2. IsFiniteSet(B) /\ IsFiniteSet(A)
  BY <1>1, FS_Subset
<1>3. Cardinality(A) \in Nat /\ Cardinality(B) \in Nat /\ Cardinality(A) <= Cardinality(B)
  BY <1>1, <1>2, FS_Subset, FS_CardinalityType
<1>4. A' = B
  BY DEF OfKind
<1> QED
  BY <1>3, <1>4 DEF RecordsTyped

\* Records that stay as they are stay typed.
LEMMA SameRecords ==
  ASSUME TypedInv, records' = records
  PROVE  RecordsTyped
BY MoreRecords DEF TypedInv

\* A step of an execution keeps the records typed.
LEMMA GoingRecords ==
  ASSUME TypedInv, LifeInv, HeldInv, StageInv, EntityInv, NEW w \in Workers, Going(w)
  PROVE  RecordsTyped
<1>1. CASE SaveItem(w)
  <2>1. PICK r \in Row : records' = records \cup {r}
    BY <1>1, SaveItemFacts
  <2>2. IsFiniteSet(records) /\ records \subseteq Row
    BY DEF TypedInv
  <2>3. IsFiniteSet(records \cup {r})
    BY <2>2, FS_AddElement
  <2> QED
    BY <2>1, <2>2, <2>3, MoreRecords
<1> QED
  BY <1>1, RecordsStay, SameRecords

\* Where records, lists and what was stored stay, what is known does too.
LEMMA ListingKept ==
  ASSUME NEW v \in Workers, Listing(v), records' = records, alone' => alone,
         KeepsPlan(v), KeepsWork(v)
  PROVE  Listing(v)'
<1>1. KindOf(v)' = KindOf(v) /\ \A kind : OfKind(kind)' = OfKind(kind)
  BY DEF KeepsPlan, KindOf, OfKind
<1>2. KnowsAll(v) => KnowsAll(v)'
  BY <1>1 DEF KnowsAll, KeepsPlan, KeepsWork
<1> QED
  BY <1>1, <1>2 DEF Listing, KeepsPlan, KeepsWork

\* A worker with an execution that has listed nothing and stored nothing.
LEMMA ListingFresh ==
  ASSUME NEW v \in Workers, local'[v] = Fresh
  PROVE  Listing(v)'
BY FreshIsLocal DEF Listing

\* What a lone execution knows of the entities there are stays when nothing
\* of the memory moves;
LEMMA EntityWaits ==
  ASSUME EntityInv, Waits
  PROVE  EntityInv'
<1>1. UNCHANGED <<pc, local, records, alone>>
  BY DEF Waits, memory
<1>2. ASSUME NEW v \in Workers, Working(v) PROVE Listing(v)'
  BY <1>1, <1>2, ListingKept DEF EntityInv, KeepsPlan, KeepsWork
<1> QED
  BY <1>1, <1>2 DEF EntityInv, Working

\* and when an execution ends.
LEMMA EntityEnds ==
  ASSUME EntityInv, NEW w \in Workers, NEW to, Moved(w, to), local'[w] = Fresh,
         records' = records, alone' => alone
  PROVE  EntityInv'
<1>1. ASSUME NEW v \in Workers \ {w}, Working(v)' PROVE Listing(v)'
  <2>1. pc'[v] = pc[v] /\ local'[v] = local[v]
    BY DEF Moved, OthersKept
  <2> QED
    BY <1>1, <2>1, ListingKept DEF EntityInv, Working, KeepsPlan, KeepsWork
<1>2. Listing(w)'
  BY ListingFresh
<1> QED
  BY <1>1, <1>2 DEF EntityInv

\* While executions do not overlap nobody else knows of the records; otherwise there are only more.
LEMMA OthersKnow ==
  ASSUME EntityInv, SummaryInv, NEW w \in Workers, pc[w] # "idle", OthersKept(w), alone' = alone,
         records \subseteq records', Working(w)' => Listing(w)'
  PROVE  EntityInv'
<1>1. ASSUME NEW v \in Workers \ {w}, Working(v)' PROVE Listing(v)'
  <2>1. pc'[v] = pc[v] /\ local'[v] = local[v] /\ Working(v)
    BY <1>1 DEF OthersKept, Working
  <2>2. Listing(v)
    BY <2>1 DEF EntityInv
  <2>3. ~alone
    BY <2>1 DEF SummaryInv, OneWorks, Working
  <2>4. KindOf(v)' = KindOf(v) /\ \A kind : OfKind(kind) \subseteq {r \in records' : r.kind = kind}
    BY <2>1 DEF KindOf, OfKind
  <2> QED
    BY <2>1, <2>2, <2>3, <2>4 DEF Listing, OfKind
<1> QED
  BY <1>1 DEF EntityInv

\* The steps that leave a worker its list, what it has to do and what it has stored.
LEMMA PlanKept ==
  ASSUME TypedInv, LifeInv, HeldInv, StageInv, SummaryInv, EntityInv, NEW w \in Workers, Going(w),
         ~Extract(w), ~NextKind(w), ~SaveItem(w)
  PROVE  (pc'[w] = "failed" /\ local'[w] = Fresh) \/ (KeepsPlan(w) /\ KeepsWork(w))
<1>1. CASE CallFails(w) \/ RelateFails(w)
  <2>1. Fail(w) /\ job' = job
    BY <1>1 DEF CallFails, RelateFails
  <2> QED
    BY <2>1, FailMoves DEF Moved
<1>2. CASE SaveTurn(w)
  <2>1. job[w] \in Job
    BY <1>2, HasJob DEF SaveTurn, Goto
  <2> QED
    BY <1>2, <2>1, SaveTurnMoves
<1>3. CASE Embed(w)
  <2>1. job[w] \in Job
    BY <1>3, HasJob DEF Embed, Goto
  <2> QED
    BY <1>3, <2>1, EmbedMoves
<1>4. CASE ReadSummary(w)
  BY <1>4, ReadSummaryMoves
<1>5. CASE ReadMessages(w)
  BY <1>5, ReadMessagesMoves
<1>6. CASE WriteSummary(w) \/ Attach(w)
  BY <1>6, WriteSummaryMoves, AttachMoves DEF KeepsPlan, KeepsWork
<1>7. CASE StartLinks(w)
  BY <1>7, StartLinksMoves
<1>8. CASE Link(w)
  BY <1>8, LinkStep
<1> QED
  BY <1>1, <1>2, <1>3, <1>4, <1>5, <1>6, <1>7, <1>8 DEF Going

\* What is saved is of the kinds up to the one the worker is at.
LEMMA SavedKinds ==
  ASSUME TypedInv, EntityInv, NEW w \in Workers, Working(w), local[w].stage \in 0..3,
         NEW r \in local[w].saved
  PROVE  /\ \E i \in 1..(local[w].stage + 1) : r.kind = Kinds[i]
         /\ r.kind # Kinds[local[w].stage + 1]
<1>1. PICK i \in 1..local[w].stage : r.kind = Kinds[i]
  BY DEF EntityInv, Listing
<1>2. i \in 1..(local[w].stage + 1) /\ i # local[w].stage + 1 /\ i \in 1..4 /\ local[w].stage + 1 \in 1..4
  OBVIOUS
<1> QED
  BY <1>1, <1>2, KindsFacts

\* After the extraction nothing was stored yet, and events need no listing.
LEMMA ExtractKeepsListing ==
  ASSUME TypedInv, LifeInv, HeldInv, StageInv, EntityInv, NEW w \in Workers, Extract(w)
  PROVE  Listing(w)'
<1>1. pc[w] = "extract" /\ local'[w].stage = 1 /\ local'[w].saved = local[w].saved
  BY ExtractMoves
<1>2. local[w].stage = 0 /\ Working(w)
  BY <1>1 DEF StageInv, Staged, Working
<1>3. local[w].saved = {}
  BY <1>2 DEF EntityInv, Listing
<1> QED
  BY <1>1, <1>3 DEF Listing

\* After a listing the worker knows every entity of the kind, or the latest
\* facts.
LEMMA NextKindKeepsListing ==
  ASSUME TypedInv, LifeInv, HeldInv, StageInv, EntityInv, NEW w \in Workers, NextKind(w)
  PROVE  Listing(w)'
<1> DEFINE n == local[w].stage + 1
<1>1. PICK listed \in Listed(Kinds[n]) :
         /\ pc[w] = "item" /\ local[w].stage \in 0..3 /\ local'[w].stage = n
         /\ local'[w].existing = listed /\ local'[w].saved = local[w].saved
  BY NextKindMoves
<1>2. records' = records
  BY DEF NextKind, memory
<1>3. Working(w)
  BY <1>1 DEF Working
<1>4. KindOf(w)' = Kinds[n] /\ \A kind : OfKind(kind)' = OfKind(kind)
  BY <1>1, <1>2 DEF KindOf, OfKind
<1>5. /\ listed \subseteq OfKind(Kinds[n])
      /\ \/ listed = OfKind(Kinds[n])
         \/ Kinds[n] = "fact" /\ Cardinality(OfKind(Kinds[n])) > FactLimit
  BY ListedFacts
<1>6. KnowsAll(w)'
  BY <1>1, <1>4, <1>5 DEF KnowsAll
<1>7. \A r \in local[w].saved : (\E i \in 1..n : r.kind = Kinds[i]) /\ r.kind # Kinds[n]
  BY <1>1, <1>3, SavedKinds
<1> QED
  BY <1>1, <1>4, <1>5, <1>6, <1>7 DEF Listing

\* A record that is stored keeps the listing right: the items that wait are
\* others.
LEMMA SaveItemKeepsListing ==
  ASSUME TypedInv, LifeInv, HeldInv, StageInv, EntityInv, NEW w \in Workers, SaveItem(w)
  PROVE  Listing(w)'
<1>1. PICK r \in Row :
         /\ pc[w] = "item" /\ local[w].stage \in 1..4 /\ records' = records \cup {r}
         /\ r.kind = KindOf(w) /\ r.key \in local[w].todo
         /\ local'[w].todo = local[w].todo \ {r.key}
         /\ local'[w].saved = local[w].saved \cup {r}
         /\ local'[w].stage = local[w].stage /\ local'[w].existing = local[w].existing
  BY SaveItemFacts DEF KeepsPlan
<1>2. Listing(w)
  BY <1>1 DEF EntityInv, Working
<1>3. alone' = alone
  BY DEF SaveItem, ghosts
<1>4. /\ KindOf(w)' = KindOf(w)
      /\ \A kind : OfKind(kind)' = {s \in records' : s.kind = kind}
      /\ \A kind : OfKind(kind) \subseteq OfKind(kind)'
      /\ OfKind(KindOf(w))' = OfKind(KindOf(w)) \cup {r}
  BY <1>1 DEF KindOf, OfKind
<1>5. \A s \in local'[w].saved : \E i \in 1..local'[w].stage : s.kind = Kinds[i]
  <2>1. local[w].stage \in 1..local[w].stage
    BY <1>1
  <2> QED
    BY <1>1, <1>2, <2>1 DEF Listing, KindOf
<1>6. \A s \in local'[w].saved : s.kind = KindOf(w) => s.key \notin local'[w].todo
  <2>1. local[w].stage >= 1
    BY <1>1
  <2> QED
    BY <1>1, <1>2, <2>1 DEF Listing
<1>7. ASSUME KnowsAll(w) PROVE KnowsAll(w)'
  <2>1. CASE OfKind(KindOf(w)) \subseteq local[w].existing \cup local[w].saved
    BY <1>1, <1>4, <2>1 DEF KnowsAll
  <2>2. CASE KindOf(w) = "fact" /\ Cardinality(OfKind("fact")) > FactLimit
    <3>1. RecordsTyped
      BY GoingRecords DEF Going
    <3>2. FactLimit \in Nat
      BY MemoryUpdateAssumption
    <3>3. Cardinality(OfKind("fact")') > FactLimit
      BY <2>2, <3>1, <3>2 DEF RecordsTyped
    <3> QED
      BY <1>4, <2>2, <3>3 DEF KnowsAll
  <2> QED
    BY <1>7, <2>1, <2>2 DEF KnowsAll
<1>8. alone' /\ local'[w].stage >= 2 => KnowsAll(w)'
  BY <1>1, <1>2, <1>3, <1>7 DEF Listing
<1>9. local'[w].stage >= 2 => local'[w].existing \subseteq OfKind(KindOf(w))'
  BY <1>1, <1>2, <1>4 DEF Listing
<1>10. KindOf(w)' = KindOf(w)
  BY <1>4
<1> QED
  BY <1>5, <1>6, <1>8, <1>9, <1>10 DEF Listing

\* And when an execution goes on: a lone one sees every entity there is
\* before it adds one.
LEMMA EntityGoes ==
  ASSUME TypedInv, LifeInv, HeldInv, StageInv, SummaryInv, IdInv, EntityInv,
         NEW w \in Workers, Going(w)
  PROVE  EntityInv'
<1>1. PICK to \in Place : OnJob(w, to)
  BY GoesOn
<1>2. pc[w] # "idle" /\ OthersKept(w) /\ alone' = alone
  BY <1>1 DEF OnJob, Moved
<1>3. records \subseteq records'
  BY GoingGrows DEF GrowsRows
<1>4. ASSUME Working(w)', ~Extract(w), ~NextKind(w), ~SaveItem(w) PROVE Listing(w)'
  <2>1. KeepsPlan(w) /\ KeepsWork(w)
    BY <1>4, PlanKept DEF Working
  <2>2. Listing(w)
    BY GoingWorks DEF EntityInv
  <2>3. records' = records
    BY <1>4, RecordsStay
  <2> QED
    BY <1>2, <2>1, <2>2, <2>3, ListingKept
<1>5. Working(w)' => Listing(w)'
  BY <1>4, ExtractKeepsListing, NextKindKeepsListing, SaveItemKeepsListing
<1> QED
  BY <1>2, <1>3, <1>5, OthersKnow

\* A new entity's name is of none that is stored, unless there are more facts than are listed.
LEMMA NewNameIsNew ==
  ASSUME TypedInv, LifeInv, HeldInv, StageInv, EntityInv, alone, NEW w \in Workers, NEW r,
         NewRecord(w, r), r.kind # "event", NEW s \in records, s.kind = r.kind, s.key = r.key
  PROVE  r.kind = "fact" /\ Cardinality(OfKind("fact")) > FactLimit
<1>1. /\ r.kind = KindOf(w) /\ r.key \in local[w].todo /\ local[w].stage \in 1..4 /\ Working(w)
      /\ \A e \in local[w].existing : e.key # r.key
  BY DEF NewRecord, Working
<1>2. Listing(w)
  BY <1>1 DEF EntityInv
<1>3. local[w].stage # 1
  BY <1>1, KindsFacts DEF KindOf
<1>4. local[w].stage >= 2 /\ local[w].stage >= 1
  BY <1>1, <1>3
<1>5. KnowsAll(w)
  BY <1>2, <1>4 DEF Listing
<1>6. s \in OfKind(KindOf(w))
  BY <1>1 DEF OfKind
<1>7. s \notin local[w].existing \cup local[w].saved
  BY <1>1, <1>2, <1>4 DEF Listing
<1> QED
  BY <1>1, <1>5, <1>6, <1>7 DEF KnowsAll

\* Names stay apart where a record is stored.
LEMMA UniqueKept ==
  ASSUME TypedInv, EntityInv, UniqueEntities, RecordsTyped, alone,
         NEW r, records' = records \cup {r},
         \A s \in records : s.kind = r.kind /\ s.key = r.key /\ r.kind # "event" =>
            s = r \/ (r.kind = "fact" /\ Cardinality(OfKind("fact")) > FactLimit)
  PROVE  UniqueEntities'
<1>1. FactLimit \in Nat
  BY MemoryUpdateAssumption
<1>2. Cardinality(OfKind("fact")') <= FactLimit => Cardinality(OfKind("fact")) <= FactLimit
  BY <1>1 DEF RecordsTyped
<1>3. Cardinality(OfKind("fact")') <= FactLimit => ~(Cardinality(OfKind("fact")) > FactLimit)
  BY <1>1 DEF RecordsTyped
<1>4. ASSUME NEW a \in records \cup {r}, NEW b \in records \cup {r},
             a.kind = b.kind, a.kind # "event", a.key = b.key,
             a.kind = "fact" => Cardinality(OfKind("fact")') <= FactLimit
      PROVE  a = b
  <2>1. CASE a \in records /\ b \in records
    BY <1>2, <1>4, <2>1 DEF UniqueEntities
  <2>2. CASE a = r /\ b \in records
    BY <1>3, <1>4, <2>2
  <2>3. CASE b = r /\ a \in records
    BY <1>3, <1>4, <2>3
  <2> QED
    BY <1>4, <2>1, <2>2, <2>3
<1> QED
  BY <1>4 DEF UniqueEntities

\* A lone execution adds no second record for an entity there is.
LEMMA UniqueGoes ==
  ASSUME TypedInv, LifeInv, HeldInv, StageInv, SummaryInv, IdInv, EntityInv, UniqueEntities,
         NEW w \in Workers, Going(w)
  PROVE  UniqueEntities'
<1>1. PICK to \in Place : OnJob(w, to)
  BY GoesOn
<1>2. alone' = alone
  BY <1>1 DEF OnJob
<1>3. CASE ~SaveItem(w)
  <2>1. records' = records
    BY <1>3, RecordsStay
  <2> QED
    BY <1>2, <2>1 DEF UniqueEntities, OfKind
<1>4. CASE SaveItem(w) /\ alone
  <2>1. PICK r \in Row : /\ records' = records \cup {r}
                         /\ NewRecord(w, r) \/ (r \in records /\ KindOf(w) # "event")
    BY <1>4, SaveItemFacts
  <2>2. RecordsTyped
    BY GoingRecords
  <2>3. CASE r \in records
    <3>1. records' = records
      BY <2>1, <2>3
    <3> QED
      BY <1>2, <3>1 DEF UniqueEntities, OfKind
  <2>4. CASE NewRecord(w, r)
    <3>1. \A s \in records : s.kind = r.kind /\ s.key = r.key /\ r.kind # "event" =>
             r.kind = "fact" /\ Cardinality(OfKind("fact")) > FactLimit
      BY <1>4, <2>4, NewNameIsNew
    <3> QED
      BY <1>4, <2>1, <2>2, <3>1, UniqueKept
  <2> QED
    BY <2>1, <2>3, <2>4
<1>5. CASE ~alone
  BY <1>2, <1>5 DEF UniqueEntities
<1> QED
  BY <1>3, <1>4, <1>5

-----------------------------------------------------------------------------
(* What an execution has stored so far.                                    *)

\* Nothing that was stored or related is taken back.
Grown ==
  /\ records \subseteq records' /\ chunks \subseteq chunks' /\ Id \subseteq Id'
  /\ \A a, b : Related(a, b) => Related(a, b)'

\* A step relates one pair at most, which may cut its edge instead.
EdgesMove == \/ edges \subseteq edges' /\ cut \subseteq cut'
             \/ \E edge : edges' = edges \ {edge} /\ cut' = cut \cup {edge}

\* Rows that are only added, and edges that move as the code moves them,
\* make the store grow.
LEMMA Growing ==
  ASSUME records \subseteq records', chunks \subseteq chunks', EdgesMove
  PROVE  Grown
<1>1. Id \subseteq Id'
  BY DEF Id
<1>2. \A a, b : Related(a, b) => Related(a, b)'
  BY DEF EdgesMove, Related
<1> QED
  BY <1>1, <1>2 DEF Grown

\* A step of an execution makes the store grow.
LEMMA GoingGrown ==
  ASSUME TypedInv, LifeInv, HeldInv, StageInv, IdInv, SummaryInv, EntityInv,
         NEW w \in Workers, Going(w)
  PROVE  Grown
<1>1. EdgesMove
  <2>1. CASE RelateFails(w)
    BY <2>1 DEF RelateFails, EdgesMove
  <2>2. CASE Attach(w) \/ Link(w)
    BY <2>2 DEF Attach, Link, ghosts, EdgesMove
  <2>3. CASE \/ ReadSummary(w) \/ ReadMessages(w) \/ WriteSummary(w) \/ SaveTurn(w) \/ Extract(w)
             \/ NextKind(w) \/ SaveItem(w) \/ Embed(w) \/ StartLinks(w) \/ CallFails(w)
    BY <2>3 DEF ReadSummary, ReadMessages, WriteSummary, SaveTurn, Extract, NextKind, SaveItem,
                Embed, StartLinks, CallFails, memory, ghosts, EdgesMove
  <2> QED
    BY <2>1, <2>2, <2>3 DEF Going
<1> QED
  BY <1>1, GoingGrows, Growing DEF GrowsRows

\* Every step makes the store grow: no row is deleted, and what is related
\* stays related.
LEMMA AllGrown ==
  ASSUME TypedInv, LifeInv, HeldInv, StageInv, IdInv, SummaryInv, EntityInv, [Next]_vars
  PROVE  Grown
<1>1. CASE Outside
  BY <1>1, Waiting, Growing DEF Waits, memory, EdgesMove
<1>2. ASSUME NEW w \in Workers, Claim(w) PROVE Grown
  BY <1>2, ClaimFacts, Growing DEF memory, EdgesMove
<1>3. ASSUME NEW w \in Workers, Succeed(w) \/ GiveBack(w) \/ Stop(w) PROVE Grown
  BY <1>3, Ending, Growing DEF Ends, memory, EdgesMove
<1> QED
  BY <1>1, <1>2, <1>3, GoingGrown, Steps

\* Links a worker had to make are made or still to make.
LinkedKept(w) == \A a, b : Linked(w, a, b) => Linked(w, a, b)'

\* An edge stored or remembered stays so when no remembered one is dropped.
LEMMA LinksStay ==
  ASSUME Grown, NEW w \in Workers, local[w].links \subseteq local'[w].links
  PROVE  LinkedKept(w)
BY DEF Grown, LinkedKept, Linked

\* What is stored for an execution does not depend on what the others do.
LEMMA TurnKept ==
  ASSUME Grown, NEW w \in Workers, TurnInv(w), Working(w), pc[w] \notin Early,
         pc[w] = "attach_turn" => Related(local[w].turnChunk, Home)',
         job'[w] = job[w], local'[w].turnChunk = local[w].turnChunk,
         pc'[w] \notin {"attach_turn"}
  PROVE  TurnInv(w)'
<1>1. Turned(w)
  BY DEF TurnInv, Working
<1>2. Turned(w)'
  BY <1>1 DEF Turned, ChunkOf, Grown
<1>3. Related(local[w].turnChunk, Home)'
  BY DEF TurnInv, Working, Grown
<1> QED
  BY <1>2, <1>3 DEF TurnInv, Related

\* Where nothing is being stored before or after, what is stored stays so.
LEMMA SavedKept ==
  ASSUME Grown, NEW w \in Workers, SavedInv(w), Working(w), LinkedKept(w),
         pc[w] \notin Storing, pc'[w] \notin Storing, job'[w] = job[w],
         local'[w].saved = local[w].saved, local'[w].turnChunk = local[w].turnChunk
  PROVE  SavedInv(w)'
<1>1. SUFFICES ASSUME NEW r \in local[w].saved
               PROVE  /\ r \in records' /\ r.job \in {0, job[w]} /\ Related(r.id, Home)'
                      /\ \E c \in chunks' : /\ ChunkOf(c, job[w], r.kind, r.key)' /\ Related(c.id, Home)'
                                            /\ r.kind = "fact" => Linked(w, c.id, r.id)'
                      /\ r.kind = "fact" => Linked(w, local[w].turnChunk, r.id)'
  BY DEF SavedInv, Attached, Embedded, Told, Storing
<1>2. /\ r \in records /\ r.job \in {0, job[w]} /\ Related(r.id, Home)
      /\ \E c \in chunks : /\ ChunkOf(c, job[w], r.kind, r.key) /\ Related(c.id, Home)
                           /\ r.kind = "fact" => Linked(w, c.id, r.id)
      /\ r.kind = "fact" => Linked(w, local[w].turnChunk, r.id)
  BY DEF SavedInv, Attached, Embedded, Told, Storing
<1> QED
  BY <1>2 DEF Grown, LinkedKept, ChunkOf

\* So with what is left to be done, and with the pairs that are to be related.
LEMMA DoneKept ==
  ASSUME NEW w \in Workers, DoneInv(w), Working(w), KeepsPlan(w), LinkedKept(w),
         local'[w].todo = local[w].todo, local'[w].saved = local[w].saved,
         pc'[w] = "link" => pc[w] = "link"
  PROVE  DoneInv(w)'
<1>1. \A kind : Saved(w, kind)' = Saved(w, kind)
  BY DEF Saved
<1>2. \A a, b : Linked(w, a, b) => Linked(w, a, b)'
  BY DEF LinkedKept
<1>3. ASSUME pc'[w] = "link"
      PROVE  /\ \A e \in Saved(w, "event"), r \in Saved(w, "character") \cup Saved(w, "location") :
                   Linked(w, e.id, r.id)'
             /\ \A c \in Saved(w, "character"), f \in Saved(w, "fact") :
                   Knows(c, f) => Linked(w, c.id, f.id)'
  BY <1>2, <1>3 DEF DoneInv
<1>4. \A i \in 1..local[w].stage : \A key \in local[w].extraction[Kinds[i]] :
          \/ i = local[w].stage /\ key \in local[w].todo
          \/ \E r \in local[w].saved : r.kind = Kinds[i] /\ r.key = key
  BY DEF DoneInv
<1> QED
  BY <1>1, <1>3, <1>4 DEF DoneInv, KeepsPlan

\* The edges left to link are between ids of rows, in a store that grows.
LEMMA LinksKept ==
  ASSUME Grown, NEW w \in Workers, LinksInv(w), Working(w), local'[w].links \subseteq local[w].links
  PROVE  LinksInv(w)'
<1>1. local[w].links \subseteq Id \X Id
  BY DEF LinksInv
<1> QED
  BY <1>1 DEF LinksInv, Grown

\* Who does not act has stored what it had.
LEMMA ProgressKept ==
  ASSUME Grown, NEW v \in Workers, Progress(v),
         pc'[v] = pc[v], job'[v] = job[v], local'[v] = local[v]
  PROVE  Progress(v)'
<1>1. LinkedKept(v)
  BY LinksStay
<1>2. TurnInv(v)'
  BY DEF Progress, TurnInv, Turned, ChunkOf, Grown, Working
<1>3. ItemInv(v)'
  <2>1. KindOf(v)' = KindOf(v)
    BY DEF KindOf
  <2>2. ItemInv(v)
    BY DEF Progress
  <2>3. ASSUME pc[v] = "attach_chunk"
        PROVE  /\ \E c \in chunks' : /\ ChunkOf(c, job[v], local[v].item.kind, local[v].item.key)'
                                     /\ c.id = local[v].current
               /\ local[v].item.kind = "fact" => Linked(v, local[v].current, local[v].item.id)'
    BY <1>1, <2>2, <2>3 DEF ItemInv, ChunkOf, LinkedKept, Grown
  <2> QED
    BY <2>1, <2>2, <2>3 DEF ItemInv
<1>4. SavedInv(v)'
  <2>1. SUFFICES ASSUME Working(v), NEW r \in local[v].saved
                 PROVE  /\ r \in records' /\ r.job \in {0, job[v]}
                        /\ Attached(v, r)' /\ Embedded(v, r)' /\ Told(v, r)'
    BY DEF SavedInv, Working
  <2>2. /\ r \in records /\ r.job \in {0, job[v]}
        /\ Attached(v, r) /\ Embedded(v, r) /\ Told(v, r)
    BY <2>1 DEF Progress, SavedInv
  <2>3. Attached(v, r)'
    BY <2>2 DEF Attached, Grown
  <2>4. Embedded(v, r)'
    BY <1>1, <2>2 DEF Embedded, Grown, ChunkOf, LinkedKept
  <2>5. Told(v, r)'
    BY <1>1, <2>2 DEF Told, LinkedKept
  <2> QED
    BY <2>2, <2>3, <2>4, <2>5 DEF Grown
<1>5. DoneInv(v)'
  BY <1>1, DoneKept DEF Progress, DoneInv, Working, KeepsPlan
<1>6. LinksInv(v)'
  BY LinksKept DEF Progress, LinksInv, Working
<1> QED
  BY <1>2, <1>3, <1>4, <1>5, <1>6 DEF Progress

\* Who has nothing in hand yet has nothing to show for it.
LEMMA ProgressFresh ==
  ASSUME NEW v \in Workers, pc'[v] \in {"idle", "failed", "read_summary"}, local'[v] = Fresh
  PROVE  Progress(v)'
<1>1. TurnInv(v)' /\ ItemInv(v)'
  BY DEF TurnInv, ItemInv, Working, Early, Storing
<1>2. SavedInv(v)' /\ DoneInv(v)' /\ LinksInv(v)'
  BY FreshIsLocal DEF SavedInv, DoneInv, LinksInv
<1> QED
  BY <1>1, <1>2 DEF Progress

\* Steps before the turn is stored.
LEMMA EarlyProgress ==
  ASSUME Grown, NEW w \in Workers, Progress(w), pc[w] \in Early, pc'[w] \in Early,
         job'[w] = job[w], KeepsPlan(w), KeepsWork(w), KeepsHand(w), local'[w].links = local[w].links
  PROVE  Progress(w)'
<1>1. Working(w) /\ LinkedKept(w) /\ pc[w] \notin Storing /\ pc'[w] \notin Storing
  BY LinksStay DEF Working, Early, Storing
<1>2. TurnInv(w)' /\ ItemInv(w)'
  BY DEF TurnInv, ItemInv, Early, Storing
<1>3. SavedInv(w)'
  BY <1>1, SavedKept DEF Progress, KeepsWork, KeepsHand
<1>4. DoneInv(w)'
  BY <1>1, DoneKept DEF Progress, KeepsWork, Early
<1>5. LinksInv(w)'
  BY <1>1, LinksKept DEF Progress
<1> QED
  BY <1>2, <1>3, <1>4, <1>5 DEF Progress

\* Before the extraction nothing is saved.
LEMMA NothingSaved ==
  ASSUME StageInv, EntityInv, NEW w \in Workers, Working(w),
         pc[w] \in Early \cup {"attach_turn", "extract"}
  PROVE  local[w].stage = 0 /\ local[w].saved = {}
<1>1. local[w].stage = 0
  BY DEF StageInv, Staged
<1>2. Listing(w)
  BY DEF EntityInv
<1> QED
  BY <1>1, <1>2 DEF Listing

\* The steps of an execution keep its progress (every record it has saved is
\* attached, embedded and told of): the chunk of the turn,
LEMMA SaveTurnProgress ==
  ASSUME TypedInv, LifeInv, HeldInv, StageInv, EntityInv, Grown, NEW w \in Workers, Progress(w),
         SaveTurn(w)
  PROVE  Progress(w)'
<1>1. pc[w] = "save_turn" /\ CreateChunk(w, "turn", "reply") /\ Working(w)
  BY DEF SaveTurn, Goto, Working
<1>2. job[w] \in Job
  BY <1>1, HasJob
<1>3. /\ pc'[w] = "attach_turn" /\ job'[w] = job[w]
      /\ local'[w].turnChunk = NewId(w) /\ local'[w].current = NewId(w)
      /\ KeepsPlan(w) /\ KeepsWork(w) /\ local'[w].links = local[w].links
  BY <1>2, SaveTurnMoves DEF Moved
<1>4. local[w].stage = 0 /\ local[w].saved = {}
  BY <1>1, NothingSaved DEF Early
<1>5. Turned(w)'
  <2> DEFINE c == [id |-> NewId(w), kind |-> "turn", key |-> "reply", job |-> job[w]]
  <2>1. c \in chunks'
    BY <1>1 DEF CreateChunk
  <2> QED
    BY <1>3, <2>1 DEF Turned, ChunkOf
<1>6. TurnInv(w)' /\ ItemInv(w)'
  BY <1>3, <1>5 DEF TurnInv, ItemInv, Storing
<1>7. SavedInv(w)'
  BY <1>3, <1>4 DEF SavedInv, KeepsWork
<1>8. DoneInv(w)'
  BY <1>3, <1>4 DEF DoneInv, KeepsPlan
<1>9. LinksInv(w)'
  BY <1>1, <1>3, LinksKept DEF Progress
<1> QED
  BY <1>6, <1>7, <1>8, <1>9 DEF Progress

\* the extraction,
LEMMA ExtractProgress ==
  ASSUME TypedInv, LifeInv, HeldInv, StageInv, EntityInv, Grown, NEW w \in Workers, Progress(w),
         Extract(w)
  PROVE  Progress(w)'
<1>1. PICK x \in Extractions :
            /\ pc[w] = "extract" /\ pc'[w] = "item" /\ job'[w] = job[w]
            /\ local'[w].extraction = x /\ local'[w].stage = 1 /\ local'[w].todo = x["event"]
            /\ local'[w].saved = local[w].saved
            /\ KeepsHand(w) /\ local'[w].links = local[w].links
  BY ExtractMoves DEF Moved
<1>2. Working(w)
  BY <1>1 DEF Working
<1>3. local[w].saved = {}
  BY <1>1, <1>2, NothingSaved
<1>4. TurnInv(w)'
  BY <1>1, <1>2, TurnKept DEF Progress, KeepsHand, Early
<1>5. ItemInv(w)'
  BY <1>1 DEF ItemInv, Storing
<1>6. SavedInv(w)'
  BY <1>1, <1>3 DEF SavedInv
<1>7. DoneInv(w)'
  <2>1. \A i \in 1..1 : i = 1
    OBVIOUS
  <2> QED
    BY <1>1, <2>1, KindsFacts DEF DoneInv
<1>8. LinksInv(w)'
  BY <1>1, <1>2, LinksKept DEF Progress
<1> QED
  BY <1>4, <1>5, <1>6, <1>7, <1>8 DEF Progress

\* the next kind of records,
LEMMA NextKindProgress ==
  ASSUME TypedInv, LifeInv, HeldInv, StageInv, EntityInv, Grown, NEW w \in Workers, Progress(w),
         NextKind(w)
  PROVE  Progress(w)'
<1> DEFINE n == local[w].stage + 1
<1>1. /\ pc[w] = "item" /\ pc'[w] = "item" /\ job'[w] = job[w] /\ local[w].todo = {}
      /\ local[w].stage \in 0..3 /\ local'[w].extraction = local[w].extraction
      /\ local'[w].stage = n /\ local'[w].todo = local[w].extraction[Kinds[n]]
      /\ local'[w].saved = local[w].saved /\ KeepsHand(w) /\ local'[w].links = local[w].links
  BY NextKindMoves DEF Moved
<1>2. Working(w) /\ LinkedKept(w) /\ pc[w] \notin Storing /\ pc[w] \notin Early
  BY <1>1, LinksStay DEF Working, Storing, Early
<1>3. TurnInv(w)'
  BY <1>1, <1>2, TurnKept DEF Progress, KeepsHand
<1>4. ItemInv(w)'
  BY <1>1 DEF ItemInv, Storing
<1>5. SavedInv(w)'
  BY <1>1, <1>2, SavedKept DEF Progress, KeepsHand
<1>6. DoneInv(w)'
  <2>1. \A i \in 1..n : i \in 1..local[w].stage \/ i = n
    BY <1>1
  <2>2. \A i \in 1..local[w].stage : \A key \in local[w].extraction[Kinds[i]] :
            \E r \in local[w].saved : r.kind = Kinds[i] /\ r.key = key
    BY <1>1, <1>2 DEF Progress, DoneInv
  <2> QED
    BY <1>1, <2>1, <2>2 DEF DoneInv
<1>7. LinksInv(w)'
  BY <1>1, <1>2, LinksKept DEF Progress
<1> QED
  BY <1>3, <1>4, <1>5, <1>6, <1>7 DEF Progress

\* an attached record or chunk,
LEMMA AttachProgress ==
  ASSUME TypedInv, LifeInv, HeldInv, StageInv, EntityInv, Grown, NEW w \in Workers, Progress(w),
         Attach(w)
  PROVE  Progress(w)'
<1>1. PICK to \in Place : AttachStep(pc[w], to) /\ Moved(w, to) /\ local'[w] = local[w] /\ job'[w] = job[w]
  BY AttachMoves
<1>2. pc'[w] = to /\ Related(local[w].current, Home)'
  BY <1>1 DEF Moved, Attach, Related
<1>3. Working(w) /\ LinkedKept(w) /\ KeepsPlan(w) /\ KeepsWork(w) /\ pc[w] \notin Early
      /\ pc'[w] \notin {"attach_turn", "link"}
  BY <1>1, <1>2, LinksStay DEF Working, Early, KeepsPlan, KeepsWork, AttachStep
<1>4. TurnInv(w)'
  BY <1>1, <1>2, <1>3, TurnKept DEF Progress, TurnInv
<1>5. DoneInv(w)'
  BY <1>1, <1>3, DoneKept DEF Progress
<1>6. LinksInv(w)'
  BY <1>1, <1>3, LinksKept DEF Progress
<1>7. ItemInv(w)'
  BY <1>1, <1>2 DEF Progress, ItemInv, Storing, AttachStep, KindOf
<1>8. ASSUME NEW r \in local[w].saved
      PROVE  /\ r \in records /\ r.job \in {0, job[w]}
             /\ Attached(w, r) /\ Embedded(w, r) /\ Told(w, r)
  BY <1>3 DEF Progress, SavedInv
<1>9. ASSUME NEW r \in local[w].saved PROVE Attached(w, r)' /\ Told(w, r)'
  <2>1. Attached(w, r)'
    <3>1. CASE pc[w] = "attach_item" /\ r = local[w].item
      BY <1>1, <1>2, <3>1 DEF Attached, Progress, ItemInv
    <3>2. CASE Related(r.id, Home)
      BY <3>2 DEF Attached, Grown
    <3> QED
      BY <1>8, <3>1, <3>2 DEF Attached
  <2>2. Told(w, r)'
    BY <1>1, <1>2, <1>3, <1>8 DEF Told, LinkedKept, AttachStep
  <2> QED
    BY <2>1, <2>2
<1>10. ASSUME NEW r \in local[w].saved PROVE Embedded(w, r)'
  <2>1. CASE pc[w] \in Storing /\ r = local[w].item
    <3>1. CASE pc[w] = "attach_item"
      BY <1>1, <1>2, <2>1, <3>1 DEF Embedded, AttachStep, Storing
    <3>2. CASE pc[w] = "attach_chunk"
      <4>1. PICK c \in chunks : ChunkOf(c, job[w], r.kind, r.key) /\ c.id = local[w].current
        BY <2>1, <3>2 DEF Progress, ItemInv
      <4>2. r.kind = "fact" => Linked(w, c.id, r.id)
        BY <2>1, <3>2, <4>1 DEF Progress, ItemInv
      <4>3. c \in chunks' /\ ChunkOf(c, job[w], r.kind, r.key)' /\ Related(c.id, Home)'
        BY <1>1, <1>2, <4>1 DEF ChunkOf, Grown
      <4>4. r.kind = "fact" => Linked(w, c.id, r.id)'
        BY <1>3, <4>2 DEF LinkedKept
      <4> QED
        BY <4>3, <4>4 DEF Embedded
    <3> QED
      BY <1>1, <2>1, <3>1, <3>2 DEF AttachStep, Storing
  <2>2. ASSUME NEW c \in chunks, ChunkOf(c, job[w], r.kind, r.key), Related(c.id, Home),
               r.kind = "fact" => Linked(w, c.id, r.id)
        PROVE  Embedded(w, r)'
    <3>1. c \in chunks' /\ ChunkOf(c, job[w], r.kind, r.key)' /\ Related(c.id, Home)'
      BY <1>1, <2>2 DEF ChunkOf, Grown
    <3>2. r.kind = "fact" => Linked(w, c.id, r.id)'
      BY <1>3, <2>2 DEF LinkedKept
    <3> QED
      BY <3>1, <3>2 DEF Embedded
  <2> QED
    BY <1>8, <2>1, <2>2 DEF Embedded
<1>11. SavedInv(w)'
  BY <1>1, <1>8, <1>9, <1>10 DEF SavedInv, Grown
<1> QED
  BY <1>4, <1>5, <1>6, <1>7, <1>11 DEF Progress

\* What was stored before the item at hand is stored for good.
Whole(w, r) ==
  /\ r \in records /\ r.job \in {0, job[w]} /\ Related(r.id, Home)
  /\ \E c \in chunks : /\ ChunkOf(c, job[w], r.kind, r.key) /\ Related(c.id, Home)
                       /\ r.kind = "fact" => Linked(w, c.id, r.id)
  /\ r.kind = "fact" => Linked(w, local[w].turnChunk, r.id)

\* A record that is whole stays so while the store grows.
LEMMA WholeStays ==
  ASSUME Grown, NEW w \in Workers, NEW r, Whole(w, r), LinkedKept(w), job'[w] = job[w],
         local'[w].turnChunk = local[w].turnChunk
  PROVE  Whole(w, r)'
<1>1. PICK c \in chunks : /\ ChunkOf(c, job[w], r.kind, r.key) /\ Related(c.id, Home)
                          /\ r.kind = "fact" => Linked(w, c.id, r.id)
  BY DEF Whole
<1>2. c \in chunks' /\ ChunkOf(c, job[w], r.kind, r.key)' /\ Related(c.id, Home)'
  BY <1>1 DEF ChunkOf, Grown
<1>3. r.kind = "fact" => Linked(w, c.id, r.id)'
  BY <1>1 DEF LinkedKept
<1>4. r.kind = "fact" => Linked(w, local[w].turnChunk, r.id)'
  BY DEF Whole, LinkedKept
<1>5. r \in records' /\ r.job \in {0, job'[w]} /\ Related(r.id, Home)'
  BY DEF Whole, Grown
<1> QED
  BY <1>2, <1>3, <1>4, <1>5 DEF Whole

\* A record saved before the current one is whole.
LEMMA WholeMeans ==
  ASSUME NEW w \in Workers, SavedInv(w), Working(w), NEW r \in local[w].saved,
         pc[w] \in Storing => r # local[w].item
  PROVE  Whole(w, r)
BY DEF SavedInv, Attached, Embedded, Told, Whole, Storing

\* A whole record is stored, attached, embedded and told of.
LEMMA WholeIsSaved ==
  ASSUME NEW w \in Workers, NEW r, Whole(w, r)
  PROVE  /\ r \in records /\ r.job \in {0, job[w]}
         /\ Attached(w, r) /\ Embedded(w, r) /\ Told(w, r)
BY DEF Attached, Embedded, Told, Whole

\* a saved record, which is not whole yet,
LEMMA SaveItemProgress ==
  ASSUME TypedInv, LifeInv, HeldInv, StageInv, IdInv, EntityInv, Grown, NEW w \in Workers,
         Progress(w), SaveItem(w)
  PROVE  Progress(w)'
<1>1. PICK r \in Row :
         /\ pc[w] = "item" /\ job[w] \in Job /\ local[w].stage \in 1..4
         /\ pc'[w] = "attach_item" /\ job'[w] = job[w] /\ records' = records \cup {r}
         /\ r.kind = KindOf(w) /\ r.key \in local[w].todo
         /\ local'[w].todo = local[w].todo \ {r.key} /\ local'[w].item = r
         /\ local'[w].current = r.id /\ local'[w].turnChunk = local[w].turnChunk
         /\ local'[w].saved = local[w].saved \cup {r}
         /\ local'[w].extraction = local[w].extraction /\ local'[w].stage = local[w].stage
         /\ local'[w].links = local[w].links
         /\ NewRecord(w, r) \/ (r \in records /\ KindOf(w) # "event")
  BY SaveItemFacts DEF Moved, KeepsPlan
<1>2. Working(w) /\ LinkedKept(w) /\ pc[w] \notin Storing /\ pc[w] \notin Early
  BY <1>1, LinksStay DEF Working, Storing, Early
<1>3. TurnInv(w)'
  BY <1>1, <1>2, TurnKept DEF Progress
<1>4. ItemInv(w)'
  BY <1>1 DEF ItemInv, KindOf
<1>5. r.job \in {0, job[w]}
  BY <1>1 DEF NewRecord, IdInv, RowInv
<1>6. SavedInv(w)'
  <2>1. ASSUME NEW s \in local[w].saved
        PROVE  s \in records' /\ s.job \in {0, job'[w]} /\ (Attached(w, s) /\ Embedded(w, s) /\ Told(w, s))'
    <3>1. Whole(w, s)'
      BY <1>1, <1>2, WholeMeans, WholeStays DEF Progress
    <3> QED
      BY <3>1 DEF Attached, Embedded, Told, Whole
  <2>2. r \in records' /\ r.job \in {0, job'[w]} /\ (Attached(w, r) /\ Embedded(w, r) /\ Told(w, r))'
    BY <1>1, <1>5 DEF Attached, Embedded, Told, Storing
  <2> QED
    BY <1>1, <2>1, <2>2 DEF SavedInv
<1>7. DoneInv(w)'
  <2>1. \A i \in 1..local[w].stage : \A key \in local[w].extraction[Kinds[i]] :
            \/ i = local[w].stage /\ key \in local[w].todo
            \/ \E s \in local[w].saved : s.kind = Kinds[i] /\ s.key = key
    BY <1>2 DEF Progress, DoneInv
  <2>2. ASSUME NEW i \in 1..local[w].stage, NEW key \in local[w].extraction[Kinds[i]]
        PROVE  \/ i = local[w].stage /\ key \in local'[w].todo
               \/ \E s \in local'[w].saved : s.kind = Kinds[i] /\ s.key = key
    <3>1. CASE i = local[w].stage /\ key = r.key
      <4>1. r.kind = Kinds[i] /\ r \in local'[w].saved
        BY <1>1, <3>1 DEF KindOf
      <4> QED
        BY <3>1, <4>1
    <3>2. CASE i = local[w].stage /\ key \in local[w].todo /\ key # r.key
      BY <1>1, <3>2
    <3>3. CASE \E s \in local[w].saved : s.kind = Kinds[i] /\ s.key = key
      <4>1. local[w].saved \subseteq local'[w].saved
        BY <1>1
      <4> QED
        BY <3>3, <4>1
    <3> QED
      BY <2>1, <3>1, <3>2, <3>3
  <2> QED
    BY <1>1, <2>2 DEF DoneInv
<1>8. LinksInv(w)'
  BY <1>1, <1>2, LinksKept DEF Progress
<1> QED
  BY <1>3, <1>4, <1>6, <1>7, <1>8 DEF Progress

\* its chunk,
LEMMA EmbedProgress ==
  ASSUME TypedInv, LifeInv, HeldInv, StageInv, IdInv, EntityInv, Grown, NEW w \in Workers,
         Progress(w), Embed(w)
  PROVE  Progress(w)'
<1>1. pc[w] = "embed" /\ CreateChunk(w, KindOf(w), local[w].item.key) /\ Working(w)
      /\ pc[w] \in Storing /\ pc[w] \notin Early
  BY DEF Embed, Goto, Working, Storing, Early
<1>2. PICK x \in local[w].saved : x = local[w].item /\ x.kind = KindOf(w)
  BY <1>1 DEF Progress, ItemInv
<1>3. PICK c \in chunks' : c.id = NewId(w) /\ c.kind = x.kind /\ c.key = x.key /\ c.job = job[w]
  <2> DEFINE c == [id |-> NewId(w), kind |-> KindOf(w), key |-> local[w].item.key, job |-> job[w]]
  <2>1. c \in chunks'
    BY <1>1 DEF CreateChunk
  <2> QED
    BY <1>2, <2>1
<1>4. /\ pc'[w] = "attach_chunk" /\ job'[w] = job[w]
      /\ local'[w].current = c.id /\ local'[w].turnChunk = local[w].turnChunk
      /\ local'[w].links = IF x.kind = "fact"
                           THEN local[w].links \cup {<<local[w].turnChunk, x.id>>, <<c.id, x.id>>}
                           ELSE local[w].links
      /\ KeepsPlan(w) /\ local'[w].todo = local[w].todo /\ local'[w].item = x
      /\ local'[w].saved = local[w].saved
  <2>1. job[w] \in Job
    BY <1>1, HasJob
  <2>2. /\ Moved(w, "attach_chunk") /\ job'[w] = job[w]
        /\ local'[w].current = NewId(w) /\ local'[w].turnChunk = local[w].turnChunk
        /\ KeepsPlan(w) /\ KeepsWork(w)
    BY <2>1, EmbedMoves
  <2>3. local'[w].links =
           IF KindOf(w) = "fact"
           THEN local[w].links \cup {<<local[w].turnChunk, local[w].item.id>>,
                                     <<NewId(w), local[w].item.id>>}
           ELSE local[w].links
    BY <2>1, EmbedMoves
  <2>4. KindOf(w) = x.kind /\ NewId(w) = c.id /\ local[w].item = x
    BY <1>2, <1>3
  <2> QED
    BY <2>2, <2>3, <2>4 DEF Moved, KeepsWork
<1>5. LinkedKept(w)
  BY <1>4, LinksStay
<1>6. ASSUME x.kind = "fact"
      PROVE  <<local'[w].turnChunk, x.id>> \in local'[w].links /\ <<c.id, x.id>> \in local'[w].links
  BY <1>4, <1>6
<1>7. TurnInv(w)'
  BY <1>1, <1>4, TurnKept DEF Progress
<1>8. ItemInv(w)'
  <2>1. KindOf(w)' = x.kind
    BY <1>2, <1>4 DEF KeepsPlan, KindOf
  <2>2. ChunkOf(c, job[w], x.kind, x.key)'
    BY <1>3, <1>4 DEF ChunkOf
  <2>3. x.kind = "fact" => Linked(w, c.id, x.id)'
    BY <1>6 DEF Linked
  <2> QED
    BY <1>2, <1>4, <2>1, <2>2, <2>3 DEF ItemInv
<1>9. SavedInv(w)'
  <2>1. ASSUME NEW s \in local[w].saved, s # x
        PROVE  s \in records' /\ s.job \in {0, job'[w]} /\ (Attached(w, s) /\ Embedded(w, s) /\ Told(w, s))'
    <3>1. Whole(w, s)'
      BY <1>1, <1>2, <1>4, <1>5, <2>1, WholeMeans, WholeStays DEF Progress
    <3> QED
      BY <3>1 DEF Attached, Embedded, Told, Whole
  <2>2. x \in records /\ x.job \in {0, job[w]} /\ Attached(w, x)
    BY <1>1 DEF Progress, SavedInv
  <2>3. x \in records' /\ x.job \in {0, job'[w]} /\ Related(x.id, Home)'
    BY <1>1, <1>4, <2>2 DEF Attached, Grown
  <2>4. Attached(w, x)' /\ Embedded(w, x)'
    BY <1>4, <2>3 DEF Attached, Embedded, Storing
  <2>5. Told(w, x)'
    BY <1>6 DEF Told, Linked
  <2> QED
    BY <1>4, <2>1, <2>3, <2>4, <2>5 DEF SavedInv
<1>10. DoneInv(w)'
  BY <1>1, <1>4, <1>5, DoneKept DEF Progress
<1>11. LinksInv(w)'
  <2>1. c.id \in Id'
    BY <1>3 DEF Id
  <2>2. x.id \in Id
    BY <1>1 DEF Progress, SavedInv, Id
  <2>3. local[w].turnChunk \in Id
    BY <1>1 DEF Progress, TurnInv, Turned, Id
  <2>4. local[w].links \subseteq Id \X Id
    BY <1>1 DEF Progress, LinksInv
  <2> QED
    BY <1>4, <2>1, <2>2, <2>3, <2>4 DEF LinksInv, Grown
<1> QED
  BY <1>7, <1>8, <1>9, <1>10, <1>11 DEF Progress

\* the turn to the edges,
LEMMA StartLinksProgress ==
  ASSUME TypedInv, Grown, NEW w \in Workers, Progress(w), StartLinks(w)
  PROVE  Progress(w)'
<1>1. /\ pc[w] = "item" /\ pc'[w] = "link" /\ job'[w] = job[w]
      /\ local'[w].links = local[w].links \cup Graph(w)
      /\ KeepsPlan(w) /\ KeepsWork(w) /\ local'[w].turnChunk = local[w].turnChunk
  BY StartLinksMoves DEF Moved, KeepsHand
<1>2. Working(w) /\ LinkedKept(w) /\ pc[w] \notin Storing /\ pc[w] \notin Early
  BY <1>1, LinksStay DEF Working, Storing, Early
<1>3. TurnInv(w)'
  BY <1>1, <1>2, TurnKept DEF Progress
<1>4. ItemInv(w)'
  BY <1>1 DEF ItemInv, Storing
<1>5. SavedInv(w)'
  BY <1>1, <1>2, SavedKept DEF Progress, KeepsWork, Storing
<1>6. DoneInv(w)'
  <2>1. \A kind : Saved(w, kind)' = Saved(w, kind)
    BY <1>1 DEF Saved, KeepsWork
  <2>2. \A e \in Saved(w, "event"), r \in Saved(w, "character") \cup Saved(w, "location") :
           <<e.id, r.id>> \in local'[w].links
    BY <1>1 DEF Graph
  <2>3. ASSUME NEW c \in Saved(w, "character"), NEW f \in Saved(w, "fact"), Knows(c, f)
        PROVE  <<c.id, f.id>> \in local'[w].links
    <3> DEFINE p == <<c, f>>
    <3>1. p \in Saved(w, "character") \X Saved(w, "fact") /\ Knows(p[1], p[2])
      BY <2>3
    <3>2. <<p[1].id, p[2].id>> \in Graph(w)
      BY <3>1 DEF Graph
    <3> QED
      BY <1>1, <3>2
  <2>4. \A i \in 1..local[w].stage : \A key \in local[w].extraction[Kinds[i]] :
            \/ i = local[w].stage /\ key \in local[w].todo
            \/ \E r \in local[w].saved : r.kind = Kinds[i] /\ r.key = key
    BY <1>2 DEF Progress, DoneInv
  <2> QED
    BY <1>1, <2>1, <2>2, <2>3, <2>4 DEF DoneInv, Linked, KeepsPlan, KeepsWork
<1>7. LinksInv(w)'
  <2>1. \A kind : \A r \in Saved(w, kind) : r.id \in Id
    BY <1>2 DEF Progress, SavedInv, Saved, Id
  <2>2. Graph(w) \subseteq Id \X Id
    BY <2>1 DEF Graph
  <2>3. local[w].links \subseteq Id \X Id
    BY <1>2 DEF Progress, LinksInv
  <2> QED
    BY <1>1, <2>2, <2>3 DEF LinksInv, Grown
<1> QED
  BY <1>3, <1>4, <1>5, <1>6, <1>7 DEF Progress

\* and a linked edge.
LEMMA LinkProgress ==
  ASSUME TypedInv, Grown, NEW w \in Workers, Progress(w), Link(w)
  PROVE  Progress(w)'
<1>1. PICK edge \in local[w].links :
         /\ pc[w] = "link" /\ pc'[w] = "link" /\ job'[w] = job[w]
         /\ edges' = edges \cup {edge} /\ local'[w].links = local[w].links \ {edge}
         /\ KeepsPlan(w) /\ KeepsWork(w) /\ local'[w].turnChunk = local[w].turnChunk
  BY LinkStep DEF Moved, KeepsHand
<1>2. LinkedKept(w)
  <2>1. \A a, b : <<a, b>> \in local[w].links => <<a, b>> \in local'[w].links \/ <<a, b>> \in edges'
    BY <1>1
  <2> QED
    BY <2>1 DEF LinkedKept, Linked, Related, Grown
<1>3. Working(w) /\ pc[w] \notin Storing /\ pc[w] \notin Early
  BY <1>1 DEF Working, Storing, Early
<1>4. TurnInv(w)'
  BY <1>1, <1>3, TurnKept DEF Progress
<1>5. ItemInv(w)'
  BY <1>1 DEF ItemInv, Storing
<1>6. SavedInv(w)'
  BY <1>1, <1>2, <1>3, SavedKept DEF Progress, KeepsWork, Storing
<1>7. DoneInv(w)'
  BY <1>1, <1>2, <1>3, DoneKept DEF Progress, KeepsWork
<1>8. LinksInv(w)'
  BY <1>1, <1>3, LinksKept DEF Progress
<1> QED
  BY <1>4, <1>5, <1>6, <1>7, <1>8 DEF Progress

\* So every step of an execution keeps its progress.
LEMMA ProgressGoes ==
  ASSUME TypedInv, LifeInv, HeldInv, StageInv, IdInv, SummaryInv, EntityInv, Grown,
         NEW w \in Workers, Progress(w), Going(w)
  PROVE  Progress(w)'
<1>1. CASE ReadSummary(w) \/ ReadMessages(w) \/ WriteSummary(w)
  <2>1. CASE ReadSummary(w)
    <3>1. /\ pc[w] \in Early /\ pc'[w] \in Early /\ job'[w] = job[w] /\ KeepsPlan(w) /\ KeepsWork(w)
          /\ KeepsHand(w) /\ local'[w].links = local[w].links
      BY <2>1, ReadSummaryMoves DEF Moved, Early
    <3> QED
      BY <3>1, EarlyProgress
  <2>2. CASE ReadMessages(w)
    <3>1. /\ pc[w] \in Early /\ pc'[w] \in Early /\ job'[w] = job[w] /\ KeepsPlan(w) /\ KeepsWork(w)
          /\ KeepsHand(w) /\ local'[w].links = local[w].links
      BY <2>2, ReadMessagesMoves DEF Moved, Early
    <3> QED
      BY <3>1, EarlyProgress
  <2>3. CASE WriteSummary(w)
    <3>1. /\ pc[w] \in Early /\ pc'[w] \in Early /\ job'[w] = job[w] /\ local'[w] = local[w]
      BY <2>3, WriteSummaryMoves DEF Moved, Early
    <3> QED
      BY <3>1, EarlyProgress DEF KeepsPlan, KeepsWork, KeepsHand
  <2> QED
    BY <1>1, <2>1, <2>2, <2>3
<1>2. CASE CallFails(w) \/ RelateFails(w)
  <2>1. Fail(w) /\ job' = job
    BY <1>2 DEF CallFails, RelateFails
  <2> QED
    BY <2>1, FailMoves, ProgressFresh DEF Moved
<1> QED
  BY <1>1, <1>2, SaveTurnProgress, AttachProgress, ExtractProgress, NextKindProgress,
     SaveItemProgress, EmbedProgress, StartLinksProgress, LinkProgress DEF Going

\* And every step at all keeps the progress of every worker.
LEMMA ProgressHolds ==
  ASSUME TypedInv, LifeInv, HeldInv, StageInv, IdInv, SummaryInv, EntityInv, ProgressInv, [Next]_vars
  PROVE  ProgressInv'
<1>1. Grown
  BY AllGrown
<1>2. \A v \in Workers : Progress(v)
  BY DEF ProgressInv
<1>3. CASE Outside
  <2>1. \A v \in Workers : pc'[v] = pc[v] /\ job'[v] = job[v] /\ local'[v] = local[v]
    BY <1>3, Waiting DEF Waits
  <2> QED
    BY <1>1, <1>2, <2>1, ProgressKept DEF ProgressInv
<1>4. ASSUME NEW w \in Workers, OthersKept(w), Progress(w)' PROVE ProgressInv'
  <2>1. \A v \in Workers \ {w} : Progress(v)'
    BY <1>1, <1>2, <1>4, ProgressKept DEF OthersKept
  <2> QED
    BY <1>4, <2>1 DEF ProgressInv
<1>5. ASSUME NEW w \in Workers, Claim(w) PROVE ProgressInv'
  <2>1. Moved(w, "read_summary") /\ local'[w] = Fresh
    BY <1>5, ClaimFacts
  <2> QED
    BY <1>4, <2>1, ProgressFresh DEF Moved
<1>6. ASSUME NEW w \in Workers, Succeed(w) \/ GiveBack(w) \/ Stop(w) PROVE ProgressInv'
  <2>1. Moved(w, "idle") /\ local'[w] = Fresh
    BY <1>6, Ending DEF Ends
  <2> QED
    BY <1>4, <2>1, ProgressFresh DEF Moved
<1>7. ASSUME NEW w \in Workers, Going(w) PROVE ProgressInv'
  <2>1. OthersKept(w)
    BY <1>7, GoesOn DEF OnJob, Moved
  <2> QED
    BY <1>1, <1>2, <1>4, <1>7, <2>1, ProgressGoes
<1> QED
  BY <1>3, <1>5, <1>6, <1>7, Steps

\* What is related was stored before.
LEMMA EdgesHold ==
  ASSUME TypedInv, LifeInv, HeldInv, StageInv, IdInv, SummaryInv, EntityInv, ProgressInv, EdgeInv,
         [Next]_vars
  PROVE  EdgeInv'
<1>1. Id \subseteq Id'
  BY AllGrown DEF Grown
<1>2. ASSUME edges' \subseteq edges PROVE EdgeInv'
  BY <1>1, <1>2 DEF EdgeInv
<1>3. ASSUME NEW e \in Id \X (Id \cup {Home}), edges' = edges \cup {e} PROVE EdgeInv'
  BY <1>1, <1>3 DEF EdgeInv
<1>4. CASE Outside
  BY <1>2, <1>4, Waiting DEF Waits, memory
<1>5. ASSUME NEW w \in Workers, Claim(w) PROVE EdgeInv'
  BY <1>2, <1>5, ClaimFacts DEF memory
<1>6. ASSUME NEW w \in Workers, Succeed(w) \/ GiveBack(w) \/ Stop(w) PROVE EdgeInv'
  BY <1>2, <1>6, Ending DEF Ends, memory
<1>7. ASSUME NEW w \in Workers, Going(w) PROVE EdgeInv'
  <2>1. Progress(w)
    BY DEF ProgressInv
  <2>2. CASE Attach(w)
    <3>1. edges' = edges \cup {<<local[w].current, Home>>}
      BY <2>2 DEF Attach
    <3>2. pc[w] \in {"attach_turn", "attach_item", "attach_chunk"}
      BY <2>2 DEF Attach, Goto
    <3>3. local[w].current \in Id
      <4>1. CASE pc[w] = "attach_turn"
        BY <2>1, <4>1 DEF Progress, TurnInv, Turned, Id
      <4>2. CASE pc[w] = "attach_item"
        <5>1. local[w].item \in local[w].saved /\ local[w].current = local[w].item.id
          BY <2>1, <4>2 DEF Progress, ItemInv, Storing
        <5> QED
          BY <2>1, <4>2, <5>1 DEF Progress, SavedInv, Working, Id
      <4>3. CASE pc[w] = "attach_chunk"
        BY <2>1, <4>3 DEF Progress, ItemInv, Id
      <4> QED
        BY <3>2, <4>1, <4>2, <4>3
    <3> QED
      BY <1>3, <3>1, <3>3
  <2>3. CASE Link(w)
    <3>1. PICK edge \in local[w].links : edges' = edges \cup {edge} /\ pc[w] = "link"
      BY <2>3, LinkStep
    <3>2. edge \in Id \X Id
      BY <2>1, <3>1 DEF Progress, LinksInv, Working
    <3> QED
      BY <1>3, <3>1, <3>2
  <2>4. CASE RelateFails(w)
    BY <1>2, <2>4 DEF RelateFails
  <2>5. CASE \/ ReadSummary(w) \/ ReadMessages(w) \/ WriteSummary(w) \/ SaveTurn(w) \/ Extract(w)
             \/ NextKind(w) \/ SaveItem(w) \/ Embed(w) \/ StartLinks(w) \/ CallFails(w)
    <3>1. edges' = edges
      BY <2>5 DEF ReadSummary, ReadMessages, WriteSummary, SaveTurn, Extract, NextKind, SaveItem,
                  Embed, StartLinks, CallFails, memory
    <3> QED
      BY <1>2, <3>1
  <2> QED
    BY <1>7, <2>2, <2>3, <2>4, <2>5 DEF Going
<1> QED
  BY <1>4, <1>5, <1>6, <1>7, Steps

-----------------------------------------------------------------------------
(* What a job that has succeeded leaves.                                   *)

\* SucceededIsComplete, of one job, with names for the sets in it.
HasRecord(j, kind, key) == {r \in OfKind(kind) : r.key = key /\ r.job \in {0, j} /\ Related(r.id, Home)}
HasChunk(j, kind, key)  == {c \in chunks : c.kind = kind /\ c.key = key /\ c.job = j /\ Related(c.id, Home)}
Joined(A, B) == \E a \in A, b \in B : Related(a.id, b.id)

Complete(j, x) ==
  /\ HasChunk(j, "turn", "reply") # {}
  /\ \A kind \in Kind : \A key \in x[kind] : HasRecord(j, kind, key) # {} /\ HasChunk(j, kind, key) # {}
  /\ \A e \in x["event"], kind \in {"character", "location"} : \A key \in x[kind] :
        Joined(HasRecord(j, "event", e), HasRecord(j, kind, key))
  /\ \A f \in x["fact"] :
        /\ Joined(HasChunk(j, "turn", "reply"), HasRecord(j, "fact", f))
        /\ Joined(HasChunk(j, "fact", f), HasRecord(j, "fact", f))
        /\ \A c \in x["character"] :
             c \in {f.subject, f.object} => Joined(HasRecord(j, "character", c), HasRecord(j, "fact", f))

\* SucceededIsComplete, one job at a time.
LEMMA CompleteMeans ==
  SucceededIsComplete
     <=> \A j \in Job : \A x : phase[j] = "succeeded" /\ outcome[j] = x => Complete(j, x)
<1>1. SucceededIsComplete <=> \A j \in Job : phase[j] = "succeeded" => Complete(j, outcome[j])
  BY DEF SucceededIsComplete, Complete, HasRecord, HasChunk, Joined
<1> QED
  BY <1>1

\* What is complete stays so.
LEMMA CompleteStays ==
  ASSUME Grown, NEW j, NEW x, Complete(j, x)
  PROVE  Complete(j, x)'
<1>1. \A kind, key : /\ \A r \in HasRecord(j, kind, key) : r \in HasRecord(j, kind, key)'
                     /\ \A c \in HasChunk(j, kind, key) : c \in HasChunk(j, kind, key)'
  BY DEF Grown, HasRecord, HasChunk, OfKind
<1>2. \A a, b : Related(a, b) => Related(a, b)'
  BY DEF Grown
<1>3. \A kind, key : /\ HasRecord(j, kind, key) # {} => HasRecord(j, kind, key)' # {}
                     /\ HasChunk(j, kind, key) # {} => HasChunk(j, kind, key)' # {}
  BY <1>1
<1>4. \A k, a, l, b : Joined(HasRecord(j, k, a), HasRecord(j, l, b))
                         => Joined(HasRecord(j, k, a), HasRecord(j, l, b))'
  BY <1>1, <1>2 DEF Joined
<1>5. \A k, a, l, b : Joined(HasChunk(j, k, a), HasRecord(j, l, b))
                         => Joined(HasChunk(j, k, a), HasRecord(j, l, b))'
  BY <1>1, <1>2 DEF Joined
<1>6. (HasChunk(j, "turn", "reply") # {})'
  BY <1>3 DEF Complete
<1>7. ASSUME NEW kind \in Kind, NEW key \in x[kind]
      PROVE  (HasRecord(j, kind, key) # {} /\ HasChunk(j, kind, key) # {})'
  BY <1>3 DEF Complete
<1>8. ASSUME NEW e \in x["event"], NEW kind \in {"character", "location"}, NEW key \in x[kind]
      PROVE  Joined(HasRecord(j, "event", e), HasRecord(j, kind, key))'
  BY <1>4 DEF Complete
<1>9. ASSUME NEW f \in x["fact"]
      PROVE  /\ Joined(HasChunk(j, "turn", "reply"), HasRecord(j, "fact", f))'
             /\ Joined(HasChunk(j, "fact", f), HasRecord(j, "fact", f))'
             /\ \A c \in x["character"] : c \in {f.subject, f.object} =>
                  Joined(HasRecord(j, "character", c), HasRecord(j, "fact", f))'
  BY <1>4, <1>5 DEF Complete
<1> QED
  BY <1>6, <1>7, <1>8, <1>9 DEF Complete

\* A worker that succeeds leaves everything: all was stored, and no pair is left to relate.
LEMMA SuccessIsComplete ==
  ASSUME TypedInv, LifeInv, HeldInv, StageInv, ProgressInv, NEW w \in Workers, Succeed(w)
  PROVE  Complete(job[w], local[w].extraction)
<1> DEFINE j == job[w]
           x == local[w].extraction
<1>1. pc[w] = "link" /\ local[w].links = {} /\ Working(w) /\ pc[w] \notin Storing /\ pc[w] \notin Early
  BY DEF Succeed, Working, Storing, Early
<1>2. TurnInv(w) /\ SavedInv(w) /\ DoneInv(w)
  BY DEF ProgressInv, Progress
<1>3. local[w].stage = 4 /\ local[w].todo = {}
  BY <1>1 DEF StageInv, Staged
<1>4. \A a, b : Linked(w, a, b) => Related(a, b)
  BY <1>1 DEF Linked
<1>5. \A r \in local[w].saved : Whole(w, r)
  BY <1>1, <1>2, WholeMeans
<1>6. ASSUME NEW kind \in Kind, NEW key \in x[kind]
      PROVE  \E r \in Saved(w, kind) : r.key = key
  <2>1. PICK i \in 1..4 : Kinds[i] = kind
    BY KindsFacts
  <2>2. key \in local[w].extraction[Kinds[i]]
    BY <2>1
  <2> QED
    BY <1>1, <1>2, <1>3, <2>1, <2>2 DEF DoneInv, Saved
<1>7. ASSUME NEW kind \in Kind, NEW r \in Saved(w, kind)
      PROVE  r \in HasRecord(j, kind, r.key)
  BY <1>5 DEF Saved, Whole, HasRecord, OfKind
<1>8. ASSUME NEW kind \in Kind, NEW r \in Saved(w, kind)
      PROVE  \E c \in HasChunk(j, kind, r.key) : kind = "fact" => Related(c.id, r.id)
  <2>1. r.kind = kind /\ Whole(w, r)
    BY <1>5 DEF Saved
  <2>2. PICK c \in chunks : /\ ChunkOf(c, job[w], r.kind, r.key) /\ Related(c.id, Home)
                            /\ r.kind = "fact" => Linked(w, c.id, r.id)
    BY <2>1 DEF Whole
  <2> QED
    BY <1>4, <2>1, <2>2 DEF ChunkOf, HasChunk
<1>9. PICK t \in HasChunk(j, "turn", "reply") : t.id = local[w].turnChunk
  BY <1>1, <1>2 DEF TurnInv, Turned, ChunkOf, HasChunk
<1>10. \A r \in Saved(w, "fact") : Related(t.id, r.id)
  BY <1>4, <1>5, <1>9 DEF Saved, Whole
<1>11. /\ \A e \in Saved(w, "event"), r \in Saved(w, "character") \cup Saved(w, "location") :
             Related(e.id, r.id)
       /\ \A c \in Saved(w, "character"), f \in Saved(w, "fact") : Knows(c, f) => Related(c.id, f.id)
  BY <1>1, <1>2, <1>4 DEF DoneInv
<1>12. "event" \in Kind /\ "character" \in Kind /\ "fact" \in Kind /\ "location" \in Kind
  BY DEF Kind
<1> HIDE DEF j, x
<1>13. HasChunk(j, "turn", "reply") # {}
  BY <1>9
<1>14. ASSUME NEW kind \in Kind, NEW key \in x[kind]
       PROVE  HasRecord(j, kind, key) # {} /\ HasChunk(j, kind, key) # {}
  <2>1. PICK r \in Saved(w, kind) : r.key = key
    BY <1>6
  <2> QED
    BY <1>7, <1>8, <2>1
<1>15. ASSUME NEW e \in x["event"], NEW kind \in {"character", "location"}, NEW key \in x[kind]
       PROVE  Joined(HasRecord(j, "event", e), HasRecord(j, kind, key))
  <2>1. PICK a \in Saved(w, "event") : a.key = e
    BY <1>6, <1>12
  <2>2. PICK b \in Saved(w, kind) : b.key = key
    BY <1>6, <1>12
  <2>3. a \in HasRecord(j, "event", e) /\ b \in HasRecord(j, kind, key)
    BY <1>7, <1>12, <2>1, <2>2
  <2>4. Related(a.id, b.id)
    BY <1>11
  <2> QED
    BY <2>3, <2>4 DEF Joined
<1>16. ASSUME NEW f \in x["fact"]
       PROVE  /\ Joined(HasChunk(j, "turn", "reply"), HasRecord(j, "fact", f))
              /\ Joined(HasChunk(j, "fact", f), HasRecord(j, "fact", f))
              /\ \A c \in x["character"] : c \in {f.subject, f.object} =>
                   Joined(HasRecord(j, "character", c), HasRecord(j, "fact", f))
  <2>1. PICK a \in Saved(w, "fact") : a.key = f
    BY <1>6, <1>12
  <2>2. a \in HasRecord(j, "fact", f)
    BY <1>7, <1>12, <2>1
  <2>3. Joined(HasChunk(j, "turn", "reply"), HasRecord(j, "fact", f))
    BY <1>9, <1>10, <2>2 DEF Joined
  <2>4. Joined(HasChunk(j, "fact", f), HasRecord(j, "fact", f))
    <3>1. PICK c \in HasChunk(j, "fact", a.key) : Related(c.id, a.id)
      BY <1>8, <1>12
    <3> QED
      BY <2>1, <2>2, <3>1 DEF Joined
  <2>5. ASSUME NEW c \in x["character"], c \in {f.subject, f.object}
        PROVE  Joined(HasRecord(j, "character", c), HasRecord(j, "fact", f))
    <3>1. PICK b \in Saved(w, "character") : b.key = c
      BY <1>6, <1>12
    <3>2. Knows(b, a)
      BY <2>1, <2>5, <3>1 DEF Knows
    <3>3. b \in HasRecord(j, "character", c)
      BY <1>7, <1>12, <3>1
    <3> QED
      BY <1>11, <2>2, <3>2, <3>3 DEF Joined
  <2> QED
    BY <2>3, <2>4, <2>5
<1> QED
  BY <1>13, <1>14, <1>15, <1>16 DEF Complete, j, x

\* Every step keeps that a succeeded job is complete; the one that makes it
\* so is taken after the last edge.
LEMMA CompleteKept ==
  ASSUME TypedInv, LifeInv, HeldInv, StageInv, IdInv, SummaryInv, EntityInv, ProgressInv,
         SucceededIsComplete, [Next]_vars
  PROVE  SucceededIsComplete'
<1>1. Grown
  BY AllGrown
<1>2. \A j \in Job : phase[j] = "succeeded" => Complete(j, outcome[j])
  BY CompleteMeans
<1>3. \A w \in Workers : Succeed(w) => job[w] \in Job /\ phase[job[w]] = "running"
  BY HasJob DEF Succeed
<1>4. \/ outcome' = outcome
      \/ \E w \in Workers : Succeed(w) /\ outcome' = [outcome EXCEPT ![job[w]] = local[w].extraction]
  <2>1. CASE Outside
    BY <2>1, Waiting DEF Waits
  <2>2. ASSUME NEW w \in Workers, Claim(w) \/ GiveBack(w) \/ Stop(w) PROVE outcome' = outcome
    BY <2>2 DEF Claim, GiveBack, Stop, ghosts
  <2>3. ASSUME NEW w \in Workers, Going(w) PROVE outcome' = outcome
    BY <2>3, GoesOn DEF OnJob
  <2>4. ASSUME NEW w \in Workers, Succeed(w)
        PROVE  outcome' = [outcome EXCEPT ![job[w]] = local[w].extraction]
    BY <2>4 DEF Succeed
  <2> QED
    BY <2>1, <2>2, <2>3, <2>4, Steps
<1>5. outcome \in [Job -> Extractions \cup {Nothing}]
  BY DEF TypedInv
<1>6. ASSUME NEW j \in Job, NEW x, phase'[j] = "succeeded", outcome'[j] = x
      PROVE  Complete(j, x)'
  <2>1. CASE phase[j] = "succeeded"
    <3>1. outcome'[j] = outcome[j]
      BY <1>3, <1>4, <1>5, <2>1
    <3>2. Complete(j, x)
      BY <1>2, <1>6, <2>1, <3>1
    <3> QED
      BY <1>1, <3>2, CompleteStays
  <2>2. ASSUME NEW w \in Workers, Succeed(w), job[w] = j PROVE Complete(j, x)'
    <3>1. x = local[w].extraction
      BY <1>5, <1>6, <2>2 DEF Succeed
    <3>2. Complete(j, x)
      BY <2>2, <3>1, SuccessIsComplete
    <3> QED
      BY <1>1, <3>2, CompleteStays
  <2> QED
    BY <1>6, <2>1, <2>2, JobsKept
<1>7. (\A j \in Job : \A x : phase[j] = "succeeded" /\ outcome[j] = x => Complete(j, x))'
  BY <1>6
<1>8. (SucceededIsComplete
         <=> \A j \in Job : \A x : phase[j] = "succeeded" /\ outcome[j] = x => Complete(j, x))'
  BY CompleteMeans, PTL
<1> QED
  BY <1>7, <1>8

-----------------------------------------------------------------------------
(* The inductive invariant.                                                *)

\* Faults are counted, and only faults are.
LEMMA FaultsTyped ==
  ASSUME TypedInv, [Next]_vars
  PROVE  faults' \in 0..MaxFaults
<1>1. faults \in 0..MaxFaults /\ MaxFaults \in Nat
  BY MemoryUpdateAssumption DEF TypedInv
<1>2. faults' = faults \/ Fault
  <2>1. CASE Outside
    BY <2>1 DEF Outside, StoreMessages, Enqueue, Reopen, Purge, vars, ghosts
  <2>2. ASSUME NEW w \in Workers, Claim(w) \/ Succeed(w) \/ GiveBack(w) PROVE faults' = faults
    BY <2>2 DEF Claim, Succeed, GiveBack, ghosts
  <2>3. ASSUME NEW w \in Workers, Stop(w) \/ CallFails(w) \/ RelateFails(w) PROVE Fault
    BY <2>3 DEF Stop, CallFails, RelateFails
  <2>4. ASSUME NEW w \in Workers,
               \/ ReadSummary(w) \/ ReadMessages(w) \/ WriteSummary(w) \/ SaveTurn(w) \/ Attach(w)
               \/ Extract(w) \/ NextKind(w) \/ SaveItem(w) \/ Embed(w) \/ StartLinks(w) \/ Link(w)
        PROVE  faults' = faults
    BY <2>4 DEF ReadSummary, ReadMessages, WriteSummary, SaveTurn, Attach, Extract, NextKind,
                SaveItem, Embed, StartLinks, Link, ghosts
  <2> QED
    BY <2>1, <2>2, <2>3, <2>4, Steps DEF Going
<1> QED
  BY <1>1, <1>2 DEF Fault

\* Every step keeps the types.
LEMMA TypesKept ==
  ASSUME TypedInv, LifeInv, HeldInv, StageInv, SummaryInv, EntityInv, [Next]_vars
  PROVE  TypedInv' /\ RecordsTyped
<1>1. JobsTyped /\ faults' \in 0..MaxFaults
  BY JobsKept, FaultsTyped
<1>2. ASSUME pc' \in [Workers -> Place], job' \in [Workers -> Job \cup {0}],
             local' \in [Workers -> Local], RecordsTyped
      PROVE  TypedInv' /\ RecordsTyped
  BY <1>1, <1>2 DEF TypedInv, JobsTyped, RecordsTyped
<1>3. CASE Outside
  <2>1. UNCHANGED <<pc, job, local, records>>
    BY <1>3, Waiting DEF Waits, memory
  <2> QED
    BY <1>2, <2>1, SameRecords DEF TypedInv
<1>4. ASSUME NEW w \in Workers, Claim(w) PROVE TypedInv' /\ RecordsTyped
  <2>1. Moved(w, "read_summary") /\ records' = records
    BY <1>4, ClaimFacts DEF memory
  <2> QED
    BY <1>2, <2>1, SameRecords DEF Moved
<1>5. ASSUME NEW w \in Workers, Succeed(w) \/ GiveBack(w) \/ Stop(w) PROVE TypedInv' /\ RecordsTyped
  <2>1. Moved(w, "idle") /\ records' = records
    BY <1>5, Ending DEF Ends, memory
  <2> QED
    BY <1>2, <2>1, SameRecords DEF Moved
<1>6. ASSUME NEW w \in Workers, Going(w) PROVE TypedInv' /\ RecordsTyped
  <2>1. PICK to \in Place : Moved(w, to)
    BY <1>6, GoesOn DEF OnJob
  <2> QED
    BY <1>2, <1>6, <2>1, GoingRecords DEF Moved
<1> QED
  BY <1>3, <1>4, <1>5, <1>6, Steps

\* What the attempts left to a job come to is never more than it was allowed.
LEMMA GrantsKept ==
  ASSUME TypedInv, LifeInv, GrantInv, HeldInv, StageInv, SummaryInv, EntityInv, [Next]_vars
  PROVE  GrantInv'
<1>1. \A j \in Job : /\ attempts[j] \in Nat /\ granted[j] \in Nat /\ runs[j] \in Nat
                     /\ allowed[j] \in Nat /\ attempts[j] <= granted[j]
                     /\ runs[j] + (granted[j] - attempts[j]) <= allowed[j]
  BY DEF TypedInv, GrantInv
<1>2. CASE UNCHANGED <<attempts, granted, runs, allowed>>
  BY <1>2 DEF GrantInv
\* The job j is granted m attempts more, none of which is made yet.
<1>3. ASSUME NEW j \in Job, NEW m \in Nat, NEW a \in Nat, runs[j] + m <= a,
             attempts' = [attempts EXCEPT ![j] = 0], granted' = [granted EXCEPT ![j] = m],
             allowed' = [allowed EXCEPT ![j] = a], runs' = runs
      PROVE  GrantInv'
  <2>1. allowed' \in [Job -> Nat]
    BY <1>3 DEF GrantInv
  <2>2. /\ attempts'[j] = 0 /\ granted'[j] = m /\ allowed'[j] = a /\ runs'[j] = runs[j]
        /\ \A i \in Job \ {j} : /\ attempts'[i] = attempts[i] /\ granted'[i] = granted[i]
                               /\ allowed'[i] = allowed[i] /\ runs'[i] = runs[i]
    BY <1>3 DEF TypedInv, GrantInv
  <2>3. attempts'[j] <= granted'[j] /\ runs'[j] + (granted'[j] - attempts'[j]) <= allowed'[j]
    BY <1>1, <1>3, <2>2
  <2> QED
    BY <1>1, <2>1, <2>2, <2>3 DEF GrantInv
<1>4. ASSUME NEW j \in Job, Enqueue(j) PROVE GrantInv'
  <2>1. /\ phase[j] = "absent" /\ attempts' = [attempts EXCEPT ![j] = 0] /\ runs' = runs
        /\ granted'[j] = MaxAttempts /\ allowed' = [allowed EXCEPT ![j] = MaxAttempts]
    BY <1>4 DEF Enqueue, Lifecycle!Enqueue, Lifecycle!Grant, Lifecycle!Move
  <2>2. PICK m \in 1..10 : granted' = [granted EXCEPT ![j] = m]
    BY <1>4 DEF Enqueue, Lifecycle!Enqueue, Lifecycle!Grant
  <2>3. m = MaxAttempts /\ m \in Nat
    BY <2>1, <2>2 DEF TypedInv
  <2>4. runs[j] + m <= m
    BY <2>1, <2>3 DEF LifeInv
  <2> QED
    BY <1>3, <2>1, <2>2, <2>3, <2>4
<1>5. ASSUME NEW j \in Job, Reopen(j) PROVE GrantInv'
  <2>1. /\ attempts' = [attempts EXCEPT ![j] = 0] /\ runs' = runs
        /\ allowed' = [allowed EXCEPT ![j] = allowed[j] + granted'[j]]
    BY <1>5 DEF Reopen, Lifecycle!Reopen, Lifecycle!Grant
  <2>2. PICK m \in 1..10 : granted' = [granted EXCEPT ![j] = m]
    BY <1>5 DEF Reopen, Lifecycle!Reopen, Lifecycle!Grant
  <2>3. m = granted'[j] /\ m \in Nat
    BY <2>2 DEF TypedInv
  <2>4. runs[j] + m <= allowed[j] + m /\ allowed[j] + m \in Nat
    BY <1>1, <2>3
  <2> QED
    BY <1>3, <2>1, <2>2, <2>3, <2>4
<1>6. ASSUME NEW j \in Job, Purge(j) PROVE GrantInv'
  <2>1. /\ attempts' = [attempts EXCEPT ![j] = 0] /\ granted' = [granted EXCEPT ![j] = 0]
        /\ runs' = runs /\ allowed' = [allowed EXCEPT ![j] = allowed[j]]
    BY <1>6 DEF Purge, Lifecycle!Purge, counts, GrantInv
  <2>2. runs[j] + 0 <= allowed[j]
    BY <1>1
  <2> QED
    BY <1>1, <1>3, <2>1, <2>2
<1>7. ASSUME NEW w \in Workers, Claim(w) PROVE GrantInv'
  <2>1. PICK j \in Job : Lifecycle!Claim(j) /\ runs' = [runs EXCEPT ![j] = runs[j] + 1]
    BY <1>7, ClaimMoves
  <2>2. /\ attempts[j] < granted[j] /\ attempts' = [attempts EXCEPT ![j] = attempts[j] + 1]
        /\ granted' = granted /\ allowed' = allowed
    BY <1>7, <2>1 DEF Lifecycle!Claim, Claim
  <2>3. /\ attempts'[j] = attempts[j] + 1 /\ runs'[j] = runs[j] + 1
        /\ \A i \in Job \ {j} : attempts'[i] = attempts[i] /\ runs'[i] = runs[i]
    BY <2>1, <2>2 DEF TypedInv
  <2>4. attempts'[j] <= granted'[j] /\ runs'[j] + (granted'[j] - attempts'[j]) <= allowed'[j]
    BY <1>1, <2>2, <2>3
  <2> QED
    BY <1>1, <2>2, <2>3, <2>4 DEF GrantInv
<1>8. ASSUME NEW w \in Workers, Succeed(w) \/ GiveBack(w) \/ Stop(w) PROVE GrantInv'
  <2>1. UNCHANGED <<attempts, granted, runs, allowed>>
    BY <1>8 DEF Succeed, GiveBack, Stop, jobs, counts, Lifecycle!Complete, Lifecycle!Retry,
                Lifecycle!Exhaust
  <2> QED
    BY <1>2, <2>1
<1>9. ASSUME NEW w \in Workers, Going(w) PROVE GrantInv'
  <2>1. PICK to \in Place : OnJob(w, to)
    BY <1>9, GoesOn
  <2> QED
    BY <1>2, <2>1 DEF OnJob
<1>10. CASE StoreMessages \/ UNCHANGED vars
  BY <1>2, <1>10 DEF StoreMessages, jobs, counts, vars
<1> QED
  BY <1>4, <1>5, <1>6, <1>7, <1>8, <1>9, <1>10, Steps DEF Outside

\* The inductive invariant holds at first.
LEMMA InitHolds ==
  Init => IInv
<1>1. SUFFICES ASSUME Init PROVE IInv
  OBVIOUS
<1>2. /\ messages = 0 /\ phase = [j \in Job |-> "absent"] /\ attempts = [j \in Job |-> 0]
      /\ granted = [j \in Job |-> 0] /\ runs = [j \in Job |-> 0] /\ allowed = [j \in Job |-> 0]
      /\ summary = {} /\ records = {} /\ chunks = {} /\ edges = {}
      /\ pc = [w \in Workers |-> "idle"] /\ job = [w \in Workers |-> 0]
      /\ local = [w \in Workers |-> Fresh] /\ outcome = [j \in Job |-> Nothing]
      /\ alone = TRUE /\ faults = 0
  BY <1>1 DEF Init, Lifecycle!Init
<1>3. MaxTurns \in Nat /\ MaxFaults \in Nat /\ 0 <= MaxTurns /\ 0 \in 0..MaxFaults
  BY MemoryUpdateAssumption
<1>4. /\ \A w \in Workers : pc[w] = "idle" /\ job[w] = 0 /\ local[w] = Fresh
      /\ \A j \in Job : phase[j] = "absent" /\ runs[j] = 0
  BY <1>2
<1>5. TypedInv
  <2>1. pc \in [Workers -> Place] /\ job \in [Workers -> Job \cup {0}]
    BY <1>2 DEF Place
  <2>2. local \in [Workers -> Local]
    BY <1>2, FreshIsLocal
  <2>3. IsFiniteSet(records)
    BY <1>2, FS_EmptySet
  <2>4. /\ phase \in [Job -> Phase]
        /\ attempts \in [Job -> Nat] /\ granted \in [Job -> Nat] /\ runs \in [Job -> Nat]
        /\ outcome \in [Job -> Extractions \cup {Nothing}]
    BY <1>2 DEF Phase
  <2> QED
    BY <1>2, <1>3, <2>1, <2>2, <2>3, <2>4 DEF TypedInv
<1>6. LifeInv /\ HeldInv /\ GrantInv
  BY <1>2, <1>4 DEF LifeInv, HeldInv, GrantInv
<1>7. StageInv
  BY <1>4, FreshIsLocal DEF StageInv, Staged, Early, Storing
<1>8. IdInv /\ EdgeInv /\ EventInv
  BY <1>2 DEF IdInv, RowInv, Numbered, EdgeInv, EventInv, EventsOnce, EventsLeft, OfKind
<1>9. SummaryInv
  BY <1>2, <1>4, FreshIsLocal DEF SummaryInv, ReadInv, WrittenInv, OneWorks, HasWritten, Working
<1>10. EntityInv
  BY <1>4 DEF EntityInv, Working
<1>11. ProgressInv
  BY <1>4, FreshIsLocal DEF ProgressInv, Progress, TurnInv, ItemInv, SavedInv, DoneInv, LinksInv,
     Working, Storing
<1>12. UniqueEntities /\ SucceededIsComplete /\ SummaryCovers
  BY <1>2, <1>4 DEF UniqueEntities, SucceededIsComplete, SummaryCovers
<1> QED
  BY <1>5, <1>6, <1>7, <1>8, <1>9, <1>10, <1>11, <1>12 DEF IInv

\* The inductive invariant is kept by every step.
LEMMA StepHolds ==
  IInv /\ [Next]_vars => IInv'
<1>1. SUFFICES ASSUME IInv, [Next]_vars PROVE IInv'
  OBVIOUS
<1>2. /\ TypedInv /\ LifeInv /\ GrantInv /\ HeldInv /\ StageInv /\ IdInv /\ EdgeInv /\ EventInv
      /\ SummaryInv /\ EntityInv /\ ProgressInv /\ UniqueEntities /\ SucceededIsComplete /\ SummaryCovers
  BY <1>1 DEF IInv
<1>3. TypedInv' /\ LifeInv' /\ HeldInv' /\ JobsTyped
  BY <1>1, <1>2, TypesKept, JobsKept
<1>4. EdgeInv' /\ ProgressInv' /\ SucceededIsComplete' /\ SummaryCovers' /\ GrantInv'
  BY <1>1, <1>2, EdgesHold, ProgressHolds, CompleteKept, CoversKept, GrantsKept
<1>5. CASE Outside
  <2>1. Waits
    BY <1>2, <1>5, Waiting
  <2>2. IdInv' /\ EventInv' /\ SummaryInv' /\ EntityInv'
    BY <1>2, <1>3, <2>1, IdWaits, EventWaits, SummaryWaits, EntityWaits
  <2>3. StageInv' /\ UniqueEntities'
    BY <1>2, <2>1 DEF Waits, memory, StageInv, Staged, UniqueEntities, OfKind
  <2> QED
    BY <1>3, <1>4, <2>2, <2>3 DEF IInv
<1>6. ASSUME NEW w \in Workers, Claim(w) PROVE IInv'
  <2>1. /\ Moved(w, "read_summary") /\ local'[w] = Fresh /\ records' = records
        /\ alone' => alone
    BY <1>2, <1>6, ClaimFacts DEF memory, Claim
  <2>2. IdInv' /\ EventInv' /\ SummaryInv' /\ EntityInv'
    BY <1>2, <1>6, <2>1, IdClaims, EventClaims, SummaryClaims, EntityEnds
  <2>3. StageInv'
    BY <1>2, <1>6, WorkerStages DEF WorkerStep
  <2>4. UniqueEntities'
    BY <1>2, <2>1 DEF UniqueEntities, OfKind
  <2> QED
    BY <1>3, <1>4, <2>2, <2>3, <2>4 DEF IInv
<1>7. ASSUME NEW w \in Workers, Succeed(w) \/ GiveBack(w) \/ Stop(w) PROVE IInv'
  <2>1. Ends(w)
    BY <1>2, <1>7, Ending
  <2>2. Moved(w, "idle") /\ local'[w] = Fresh /\ records' = records /\ alone' = alone
    BY <2>1 DEF Ends, memory
  <2>3. IdInv' /\ EventInv' /\ SummaryInv' /\ EntityInv'
    BY <1>2, <2>1, <2>2, IdEnds, EventEnds, SummaryEnds, EntityEnds
  <2>4. StageInv'
    BY <1>2, <1>7, WorkerStages DEF WorkerStep
  <2>5. UniqueEntities'
    BY <1>2, <2>2 DEF UniqueEntities, OfKind
  <2> QED
    BY <1>3, <1>4, <2>3, <2>4, <2>5 DEF IInv
<1>8. ASSUME NEW w \in Workers, Going(w) PROVE IInv'
  <2>1. IdInv' /\ EventInv' /\ SummaryInv' /\ EntityInv'
    BY <1>2, <1>8, IdGoes, EventGoes, SummaryGoes, EntityGoes
  <2>2. StageInv'
    BY <1>2, <1>8, WorkerStages DEF WorkerStep, Going
  <2>3. UniqueEntities'
    BY <1>2, <1>8, UniqueGoes
  <2> QED
    BY <1>3, <1>4, <2>1, <2>2, <2>3 DEF IInv
<1> QED
  BY <1>1, <1>5, <1>6, <1>7, <1>8, Steps

\* Whatever workers do, and whatever fails in between, each worker is where its
\* execution is, and what it has stored is what IInv says.
THEOREM Inductive == Spec => []IInv
<1>1. Init => IInv
  BY InitHolds
<1>2. IInv /\ [Next]_vars => IInv'
  BY StepHolds
<1> QED
  BY <1>1, <1>2, PTL DEF Spec

-----------------------------------------------------------------------------
(* What IInv says of the store.                                            *)

\* As long as executions do not overlap, no two characters or locations of a
\* game have the same name, and no two facts are the same below the limit of the
\* listing: what was stored before is listed before more is stored.
THEOREM UniqueEntitiesHolds == Spec => []UniqueEntities
<1>1. IInv => UniqueEntities
  BY DEF IInv
<1> QED
  BY <1>1, Inductive, PTL

\* The store is typed, and a job that has succeeded has left all it extracted,
\* with the edges between, and its turn in the summary.
THEOREM SucceededIsWholeHolds == Spec => []SucceededIsWhole
<1>1. ASSUME IInv PROVE SucceededIsWhole
  <2>1. /\ TypedInv /\ LifeInv /\ HeldInv /\ IdInv /\ EdgeInv /\ SummaryInv
        /\ SucceededIsComplete /\ SummaryCovers
    BY <1>1 DEF IInv
  <2>2. messages \in 0..MaxTurns /\ summary \subseteq 1..messages
    BY <2>1, MemoryUpdateAssumption DEF TypedInv, SummaryInv
  <2>3. \A a, b \in records \cup chunks : a.id = b.id => a = b
    BY <2>1 DEF IdInv, RowInv
  <2>4. \A r \in records : r.kind \in Kind /\ r.job \in Job \cup {0}
    BY <2>1 DEF TypedInv, Row, IdInv, RowInv
  <2>5. \A c \in chunks : c.kind \in Kind \cup {"turn"} /\ c.job \in Job
    BY <2>1 DEF IdInv, RowInv
  <2>6. job \in [Workers -> Job \cup {0}] /\ alone \in BOOLEAN /\ faults \in 0..MaxFaults
    BY <2>1 DEF TypedInv
  <2>7. \A w \in Workers : (pc[w] = "idle" <=> job[w] = 0) /\ local[w].stage \in 0..Len(Kinds)
    BY <2>1, WorkerTypes, LocalFields, KindsFacts DEF HeldInv
  <2>8. TypeOK
    BY <2>1, <2>2, <2>3, <2>4, <2>5, <2>6, <2>7 DEF TypeOK, EdgeInv
  <2> QED
    BY <2>1, <2>8 DEF SucceededIsWhole
<1> QED
  BY <1>1, Inductive, PTL

\* While executions do not overlap the summary never loses a turn: each write
\* is of what the same execution read, and nobody has written in between.
THEOREM SummaryKeepsHolds == Spec => SummaryKeeps
<1>1. IInv /\ [Next]_vars => [alone' => summary \subseteq summary']_vars
  BY SummaryGrows DEF IInv
<1> QED
  BY <1>1, Inductive, PTL DEF Spec, SummaryKeeps

\* Rows that are told apart by their executions are no more than those.
LEMMA OnePerExecution ==
  ASSUME TypedInv, IdInv, NEW j \in Job, NEW S, S \subseteq records \cup chunks,
         \A r \in S : r.id[1] = j, \A r, s \in S : r.id[2] = s.id[2] => r = s
  PROVE  IsFiniteSet(S) /\ Cardinality(S) <= runs[j]
<1> DEFINE T == 1..runs[j]
           f == [r \in S |-> r.id[2]]
<1>1. runs[j] \in Nat /\ 1 \in Int /\ runs[j] \in Int
  BY DEF TypedInv
<1>2. \A r \in S : r.id[2] \in T
  BY DEF IdInv, RowInv
<1>3. f \in Injection(S, T)
  BY <1>2 DEF Injection, IsInjective
<1>4. IsFiniteSet(T) /\ Cardinality(T) = runs[j]
  <2>1. IsFiniteSet(T) /\ Cardinality(T) = IF 1 > runs[j] THEN 0 ELSE runs[j] - 1 + 1
    BY <1>1, FS_Interval
  <2> QED
    BY <1>1, <2>1
<1> HIDE DEF f, T
<1>5. IsFiniteSet(S) /\ Cardinality(S) <= Cardinality(T)
  BY <1>3, <1>4, FS_Injection
<1> QED
  BY <1>4, <1>5

\* A job that is executed again stores its chunk and its events again, but each
\* once for every execution that was started, and no more were started than the
\* job was granted attempts, by the turn and by the admins who retried it: an
\* execution stores the turn's chunk first, an event it has stored is not left
\* to do, and the attempts that are left are within what was granted.
THEOREM RepeatsAreBoundedHolds == Spec => []RepeatsAreBounded
<1>1. ASSUME IInv PROVE RepeatsAreBounded
  <2>1. TypedInv /\ GrantInv /\ IdInv /\ EventInv
    BY <1>1 DEF IInv
  <2>2. ASSUME NEW j \in Job
        PROVE  /\ IsFiniteSet({c \in chunks : c.job = j /\ c.kind = "turn"})
               /\ Cardinality({c \in chunks : c.job = j /\ c.kind = "turn"}) <= runs[j]
    <3> DEFINE S == {c \in chunks : c.job = j /\ c.kind = "turn"}
    <3>1. S \subseteq records \cup chunks /\ \A c \in S : c.id[1] = j /\ c.id[3] = 1 /\ c.id \in RowId
      BY <2>1 DEF IdInv, RowInv
    <3>2. ASSUME NEW a \in S, NEW b \in S, a.id[2] = b.id[2] PROVE a = b
      <4>1. a.id = b.id
        BY <3>1, <3>2 DEF RowId
      <4> QED
        BY <2>1, <3>1, <4>1 DEF IdInv, RowInv
    <3> QED
      BY <2>1, <3>1, <3>2, OnePerExecution
  <2>3. ASSUME NEW j \in Job, NEW key
        PROVE  /\ IsFiniteSet({r \in OfKind("event") : r.job = j /\ r.key = key})
               /\ Cardinality({r \in OfKind("event") : r.job = j /\ r.key = key}) <= runs[j]
    <3> DEFINE S == {r \in OfKind("event") : r.job = j /\ r.key = key}
    <3>1. S \subseteq records \cup chunks /\ \A r \in S : r.id[1] = j
      BY <2>1 DEF IdInv, RowInv, OfKind
    <3>2. ASSUME NEW a \in S, NEW b \in S, a.id[2] = b.id[2] PROVE a = b
      BY <2>1, <3>1, <3>2 DEF EventInv, EventsOnce, OfExecution
    <3> QED
      BY <2>1, <3>1, <3>2, OnePerExecution
  <2>4. ASSUME NEW j \in Job, NEW n \in Nat, n <= runs[j] PROVE n <= allowed[j]
    BY <2>1, <2>4 DEF GrantInv, TypedInv
  <2>5. ASSUME NEW j \in Job, NEW S, IsFiniteSet(S), Cardinality(S) <= runs[j]
        PROVE  Cardinality(S) <= allowed[j]
    BY <2>4, <2>5, FS_CardinalityType
  <2> QED
    BY <2>2, <2>3, <2>5 DEF RepeatsAreBounded
<1> QED
  BY <1>1, Inductive, PTL
=============================================================================
