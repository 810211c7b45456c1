# A TLA+ model of Harpe

Harpe is the backend of an LLM-assisted roleplay game: a Rust gRPC server
(`server/`), a command line client and a terminal client (`cli/`), and a
SurrealDB store. This directory holds TLA+ modules translated from that code,
TLC configurations that check them on small instances, and TLAPS proofs of the
theorems that hold for every instance.

| Module | What it is | Checked by |
|---|---|---|
| `JobLifecycle` | abstract: what the job store promises for each job, every operation atomic | (refinement target) |
| `JobQueue` | the job table, the runner that claims, executes and settles jobs, admin requests, faults | `MCJobQueue`, `queue_*.cfg` |
| `TurnPromise` | abstract: what a client may conclude from a turn | (refinement target) |
| `SendMessage` | one task per turn, its bounded channel, the reading client, the store calls | `MCSendMessage`, `turn_safety.cfg` |
| `SendMessageProofs` | theorems about `SendMessage` and its refinement of `TurnPromise` | `tlapm` |
| `MemoryUpdate` | what a job does: summary, memory chunks, extracted records and the memory graph | `MCMemoryUpdate`, `memory_jobs.cfg` |
| `MemoryUpdateProofs` | theorems about `MemoryUpdate` | `tlapm` |
| `MemorySearch` | the queries of `search_memory` and the ranking of what they find, as operators | through `Context` |
| `Context` | the reads of a turn, a preview and a search, and the request built within a token budget | `MCContext`, `context_turn.cfg` |
| `HttpLlm` | one call of the LLM provider: repetitions, delays, the event stream | `MCHttpLlm`, `llm_call.cfg` |
| `LlmProofs` | theorems about `HttpLlm`, `Context` and `MemorySearch` | `tlapm` |
| `Catalog` | users, games, sessions, ownership checks and the listings | `MCCatalog`, `catalog.cfg` |
| `CatalogProofs` | theorems about `Catalog` | `tlapm` |
| `Migrations` | several servers that migrate one database | `MCMigrations`, `migrations.cfg` |
| `StoreProofs` | theorems about `JobQueue` and `Migrations` | `tlapm` |
| `Export` | the backup of a game, its task, channel, client and file | `MCExport`, `export.cfg` |
| `ExportProofs` | theorems about `Export` | `tlapm` |
| `Metrics` | the counters, those who count and the snapshot | `MCMetrics`, `metrics.cfg` |
| `MetricsProofs` | theorems about `Metrics` | `tlapm` |
| `Tui` | the terminal client: loop, keys, finder, refreshes, streams, saved selection | `MCTui`, `tui.cfg` |
| `TuiProofs` | theorems about `Tui` | `tlapm` |

`PROJECT.json` maps every definition to the lines it stands for, and lists the
runs, the mutants (a plausible bug for every property, which the run of that
property must find; several for a property that is a conjunction), the hazards
of the code, the finding and the theorems. Run for example
`tlc -workers 2 -config queue_serial.cfg MCJobQueue.tla`, or
`tlapm StoreProofs.tla`. Every run ends within a few minutes.

A property that is a conjunction of named parts (`StoredWhole`, `ScreenIsTrue`,
`BackupIsTrue`, ...) is checked as one invariant; its parts carry the comments.
The type invariant of a module is one of these parts.

## Inventory

**Background job queue** (`server/src/db/surreal/mod.rs`, `server/src/jobs/`,
`server/src/runtime.rs`, `server/src/api/grpc/admin_service.rs`).
State: table `background_job` (status, attempts, max_attempts, run_after), and
the job a runner holds in memory. Operations: `enqueue_job`, `claim_next_job`,
`complete_job`, `retry_job`, `fail_job`, `retry_failed_job`,
`purge_failed_job`; the loop of `JobRunner::spawn`. Callers: turns enqueue,
`serve` spawns one runner and aborts it at shutdown, admins retry and purge.
Hard: every operation is a read and a later write of a whole row, with no
transaction; runners and admins interleave; runners die in between.
Correct when: no job is passed over again and again, each is executed as often
as it was granted, settled once, not stranded, and never resurrected.

**Turn streaming** (`server/src/api/grpc/mod.rs`, `session_service.rs`,
`cli/src/commands/session.rs`). State: per turn the reply so far, a channel of
16 items, rows in `message`, an enqueued job; in the client what it has read.
Operations: check the request, store the question, build the context, stream
the reply, store it, enqueue its job, send the completion marker. Hard: the
client leaves or reads slowly, a call fails half way, the server stops, turns
of a session overlap. Correct when: the marker is a receipt, the reply arrives
whole and in order, writes are all or nothing without a fault, every turn ends.

**Turn memory update** (`server/src/jobs/memory_update.rs`). State: `summary`,
`event`, `character`, `world_fact`, `location`, `memory_chunk` and the relation
tables. One operation of some thirty store and LLM calls, any of which may
fail, executed again from the start by the queue. Hard: partial effects and
repeats, look-ups in lists that go stale, a summary read and written back.
Correct when: entities stay unique, repeats are bounded, a succeeded job left
everything it extracted, the summary forgets and skips nothing.

**Story store** (the rest of `db/surreal/mod.rs`, `rows.rs`, `validation.rs`).
State: tables of users, games, sessions and what they hold. Operations:
creation, a row and then its edge; reading by id; listings with limits. Hard:
two calls for one creation, times taken before rows are stored. Correct when:
every game has a user, a session its edge, a page keeps what it showed.

**Ownership and request checks** (`ownership.rs`, `game_service.rs`,
`user_service.rs`, `memory_service.rs`, `pagination.rs`). Correct when: a
request reads or writes only what belongs to its user, although it checks in one
call and reads in another. The admin service checks no owner by design.

**Schema migrations** (`migrations.rs`, `migrate`). State: the schema and
`schema_migration`. Hard: a stop between a migration and its record, two
servers that start together, rows changed beside a server of an older release.
Correct when: what is recorded is applied, no server serves without its schema,
no game is left without an owner.

**Memory search and ranking** (`search.rs`, `normalize.rs`,
`rank_memory_candidates`). Three queries whose conditions depend on the query
and on what was found, candidate limits, deduplication, order. Correct when: no
match is lost between the queries, no hit appears twice or out of order.

**Context builder** (`server/src/engine/`). Token estimate, ranked candidates,
recent messages, rendering. Correct when: the request fits its budget, what is
left out is left out for something better, a preview shows what is sent.

**LLM HTTP client** (`openai.rs`, `sse.rs`). State: the attempt counter, the
SSE buffer. Hard: retries, events split over chunks, a body that ends early.
Correct when: repetitions and delays are exact, contents arrive whole, once and
in order.

**Export** (`run_export_game_stream`, `store.rs`, `cli/src/commands/backup.rs`).
State: the plan of tables and sessions, a channel of 16 chunks, the file. Hard:
tables change during the backup, the client is slow or leaves, the stream or a
write of the file breaks off. Correct when: what is reported as a backup is
whole and brackets the game, and an old backup is not given up for less.

**Metrics** (`observability.rs`). Relaxed counters, histogram, snapshot. Correct
when: requests and jobs add up, no scraped value falls.

**Terminal client** (`cli/src/tui*`). State: selected game and session, panels,
transcript, Context tab, finder, a task that streams into an event channel, the
config file. Hard: events of one session that arrive when another is open,
partly done selections, refreshes that fail in the middle. Correct when: the
transcript and the panels are of one session, a transcript is true, old data in
them is reported, a restart finds what was shown.

**Command line client** (`cli/src/`). One request per command, the loop that
reads a reply, the backup commands, a config file.

**Server runtime and configuration** (`runtime.rs`, `config.rs`): migrate, spawn
the worker, serve, abort. **Health checks, echo provider, conversion**:
stateless or field by field.

How they interact: a client calls `SendMessage`; its task stores the question,
reads the memory (`Context`, `MemorySearch`), streams the LLM's reply
(`HttpLlm`) through the channel, stores it and enqueues a job; the runner claims
the job and executes the memory update, whose results the next turn's context
reads. Admin requests act on the job table; export reads all tables; migrations
precede everything; every handler passes the ownership checks (`Catalog`) and is
counted (`Metrics`). `JobQueue` leaves open what an execution does;
`MemoryUpdate` takes the job operations of `JobLifecycle`, which `JobQueue` is
shown to implement; `SendMessage` produces the messages and jobs these two start
from; the external turns of `Tui` are those of `SendMessage` without its calls;
`Context` extends `MemorySearch`.

## Runs

| Run | Instance | Checks |
|---|---|---|
| `queue_serial` | 1 runner, 1 admin, 2 jobs of 2 attempts, 2 faults, 2 admin requests, admin grants none or 1 | `TypeOK`, `OwnerSeesTruth`, `AttemptAccounting`, `ClaimsInScheduleOrder`, `ImplementsLifecycle`, `SettledOrOrphaned` |
| `queue_shared` | 2 runners, 2 admins, 1 job, 1 fault, 2 admin requests | `RunningHasOwner`, `DeletedStaysDeleted` |
| `queue_crash_orphan` | 1 runner, 1 job, 1 fault | finding: `DurableJobs` is violated |
| `turn_safety` | 2 turns, capacity 1, 2 deltas, 1 fault | `StoredWhole`, `ToldTheTruth`, `KeepsPromise`, `EveryTurnEnds` |
| `memory_jobs` | 2 workers, 2 turns, 1 attempt, 1 fault, 1 job retried or purged by an admin, an event, a character and a fact, listings of facts cut to one | `UniqueEntities`, `SucceededIsWhole`, `RepeatsAreBounded`, `SummaryKeeps` |
| `context_turn` | a turn, a preview and a search; three sessions; 1 write, 1 failing read | `PreviewIsExact`, `SearchFindsMatches`, `BestIsSent`, `BudgetIsKept` |
| `llm_call` | 4 operations, 7 answers, 3 repetitions, 2 bodies, both delimiters, every cut | `RepeatsAreRight`, `ContentsAreTrue`, `CallEnds` |
| `catalog` | 2 requests at a time, 2 users, 1 game, 2 sessions, 1 character, 1 fault | `StoreIsSound`, `OwnRecordsOnly`, `PagesAreStable` |
| `migrations` | 2 servers, 3 migrations, 2 games, 2 stops | `RecordedIsApplied`, `ServingHasSchema`, `EveryGameHasOwner`, `StartsOrStops` |
| `export` | stream or snapshot, 2 sessions, capacity 2, limit 2, 2 writes, 1 fault | `BackupIsTrue`, `OnlyWholeIsTaken`, `ExportEnds` |
| `metrics` | 1 request, 1 delta, 1 job, 2 buckets, 2 snapshots | `CountsAreTrue`, `ScrapesNeverFall` |
| `tui` | 2 games, 2 sessions, 2 turns of a delta, transcript, 1 panel and the Context tab, 1 fault | `OneStreamAtATime`, `TranscriptIsTrue`, `ScreenIsTrue`, `StaleDataIsReported` |

Deadlock is checked except in `turn_safety`, `memory_jobs`, `migrations` and the
finding: there the system is done once its bounded turns have ended, its jobs
are settled or stranded, or every server serves and every game exists.

## Bounds and fairness

The modules take the numbers of the code as constants, and the runs scale them
down so that the limits are met:

| Constant of the code | In the runs | Why it is enough |
|---|---|---|
| channels of 16 items (turn, export) | 1, 2 | full after one item, or with one waiting behind another; a slow reader and one that leaves meet a waiting sender in both |
| listing default 50, limit 1000 | 2, 3 | default, a size below it, and a table longer than the page |
| 100 facts, 24 messages of a summary | 1, 1 | something falls out of the listing with the second fact or turn |
| 24 messages, 8 chunks, 12 characters of a context | 3, 1, 12 | one message and one chunk more than fit |
| 8, 32, 512 search candidates | 1, 1, 2 | a query finds more than it may return |
| 256 times the base delay | 2 times | the cap is reached by the second repetition |
| 6 migrations | 3 | one before and one after the migration to owners, which has 3 statements |
| 12 latency buckets | 2 | on a boundary and above it |

Bounds on what happens are constants too, named `Max...`: jobs, turns,
attempts, deltas, requests, reopenings, writes, letters, faults, stops, scrapes.
Two turns of one session can overtake each other, two attempts are a first
execution and a repetition, two runners or servers or requests race; one fault
is enough to hit every call of every interleaving, and two, where the run allows
them, let a recovery be disturbed. `queue_serial` lets the clock run as far as
it must. `memory_jobs` grants one attempt, and its repetition is the one that an
admin grants: a failed job has then used all it had, which is the harder case
for counting, and stores no less a second time than a retry does. The retry of
the queue itself, `Retry` of `JobLifecycle`, is fired by the queue runs and
covered by the proofs; `AdminAttempts`, the numbers an admin may name, is empty
there, so that the row keeps its own.

The panels of the client differ only in whether they are of the game or of the
session. The transcript is of the session, so `tui` adds one panel of the game.
No guard and no other variable reads the Context tab, and the properties say only
its type; the run therefore counts states that differ in it alone as one (`VIEW`
`AllButTheTab`), which leaves every behaviour of the rest as it is. One delta of
`metrics` is enough for a stream that counts a delta, a failure, both or neither.

Fairness is assumed of what the runtime drives and of nothing else: in
`JobQueue` the clock, a runner that can take a step, and the restart of a
stopped server; in `SendMessage` the tasks and the clients that stay; in
`Export` the task and the client; in `HttpLlm` the call (every request is
answered or times out); in `Migrations` a server that has started. No fairness
for faults, admins, turns, users, or for an execution's success. All of it is
weak fairness: none of these processes is passed over for ever while it can go
on, which is what the async runtime, timers and request timeouts give.

`Tui` is checked for safety only. `OneStreamAtATime` carries the liveness that
matters: the client waits only for a stream that is open or whose end is already
in its channel, and `EveryTurnEnds` says that each stream ends.

## The job queue

`rows` is the table; ids are given in order of creation, so the order of ids
stands for `created_at`. `enqueue_job` is `EnqueueJob`, which takes the time and
keeps it in `stamp`, and `StoreJob`, which writes the row later. `pc`, `task`
and `snap` are the runner's place, the job it holds and the row
`update_job_state` has read. `claim_next_job` is four steps: `TakeTime`,
`SelectJob`, `ReadRow`, `WriteRow`; complete, retry and fail are `ReadRow`,
`WriteRow`. What the call carries (status, attempts, run_after) is fixed when it
is made, everything else is written back as it was read.
`UPDATE ... CONTENT` changes an existing record only. `ProcessErr` decides
between retry and failure from the runner's copy of the job, as
`handle_failed_job` does. A permanently failed job ends the batch, any other
lets it go on up to `BatchLimit`. An admin request is `AdminRead`, with the
status check, then `AdminPurge`, or `AdminReopen`, which takes the time and
builds the row, and `AdminRetry`, which writes it. Faults: `StoreError` (no
effect), `AnswerLost` (effect, but an error), `Crash` and later `Restart`.

Order. A claim does not always take the job that is first in schedule order when
it is written. Its select sees what is stored by then; a turn or an admin request
has taken its `run_after` before its row is written
(`server/src/db/surreal/mod.rs:298`, `:433`), and a row with an earlier one may
land between the claim's select and its write, even with one runner and one admin.
`ClaimsInScheduleOrder` says what remains: the write finds the job pending and past
its backoff, and no claim passes over a job that an earlier claim passed over,
since the second select sees it. `overtaken` is a history of the jobs that were
passed over and are still to be claimed; no guard reads it.

Not in the model: payloads and error texts, which no decision reads;
`list_jobs`, which only reads; a store that reorders or loses committed writes.
One `SELECT`, `UPDATE` or `DELETE` is atomic. A payload whose game is not the
session's is one more way for an execution to fail.

Bounds. The clock moves freely to `Horizon` and beyond it only while a pending
job waits for it, which loses no behaviour of a guard. In `queue_serial`
`MaxClock` is never what stops it; in `queue_shared` the clock stops at 2, after
the delay of the first retry (its properties are safety properties, and no rule
of rows or owners depends on how long a job waits).

Scope of the serial properties. `serve` runs one worker per process, and the
deployment in the repository is one server. With two servers on one store, or
two admin requests at a time, `OwnerSeesTruth`, `AttemptAccounting`,
`ClaimsInScheduleOrder` and `ImplementsLifecycle` do not hold: a job may be
executed twice at once, and a write of a stale row can set `attempts` back, so
that a job that keeps failing may be retried beyond its limit. Likewise
`retry_failed_job` and `purge_failed_job` check the row they read and write
later: of two requests, the second can reset or delete a job that is already
pending or running. What remains true then is what `queue_shared` checks.

Finding. `README.md` calls the jobs durable; after a crash, an abort or a failed
store call between the claim and the settling write, a job stays Running for
ever, because claims select Pending rows only and nothing resets Running rows
at start-up. `SettledOrOrphaned` says what is left, and `RunningHasOwner` that
nothing but a fault strands a job.

## The turn

`pc` walks through `run_send_message`, one step for each store or LLM call and
for each send. `append_message` is two steps, the row and its edge. `content`
is the reply as a sequence of deltas that are text or white space (the check
for an empty reply trims), `channel` the bounded channel, `client` and `got`
the loop of `cli/src/commands/session.rs`. A client may leave at any time.
`CallFails` and `AnswerLost` are calls that return errors; `ServerStops` ends
all tasks at once. What the context holds is left to `Context`, and the order in
which two turns of a session run is free.

`StoredWhole` is `CompleteMeansDurable` (the marker is a receipt for the reply,
its edge, the question before it and one job that carries it) and
`AllOrNothing`; `ToldTheTruth` is `TypeOK`, `InOrder` and `NoSilentEnd`.
`KeepsPromise` maps the store and the client to `TurnPromise`. `AllOrNothing`
and `NoSilentEnd` speak of runs without a fault: a failed `enqueue_job` leaves a
stored reply that has no job, and the client is told of an error;
`CompleteMeansDurable` and `KeepsPromise` hold with faults.

## The memory update

`local` holds the variables of `update_memory_after_turn` and
`persist_extraction`, `pc` the call the worker is at. Rows get the id
`<<job, execution, number>>`, as unique as the UUIDs of the code. A key stands
for all spellings `same_name` takes for one, so the extraction is a set of keys
for each kind: `coalesce_updates` and the skipped blank items are in that. A
message stands for the two of a turn. Jobs move as `JobLifecycle` says, those
that an admin retries (`Reopen`) or purges (`Purge`) included.
`CallFails` may happen at every call, `RelateFails` between the `DELETE` and the
`RELATE` of an edge, `Stop` ends the process. `retry_failed_job` sets `attempts`
back to 0, so they do not bound what a job stores: `RepeatsAreBounded` counts
against `allowed`, the attempts a job was granted when it was enqueued and by
each admin since, and `runs` counts its executions. Both are histories.

The run has two workers. `alone` records that no two executions have overlapped,
as with the one worker a server has: `UniqueEntities`, `SummaryKeeps` and the
part `SummaryCovers` of `SucceededIsWhole` are about such behaviours, because
two executions both read before either writes. The rest of `SucceededIsWhole`
and `RepeatsAreBounded` hold however executions overlap. More than `FactLimit`
facts allow duplicates of the older ones with a single worker too, which
`UniqueEntities` leaves out. Nothing in the repository promises otherwise, so
these are hazards and not findings. Which facts count as the latest, and the
order in which edges are linked, are left open.

## Search and context

`MemorySearch` holds the three queries of `search_memory` and
`rank_memory_candidates` as operators. A chunk carries what it has in common
with the query (cosine, share of words, full-text score, whether the indexes
find it), since the functions that compute them are the database's or
arithmetic over words. `Context` asks the queries one at a time, among the
other reads of `build_context_for_turn`, while another turn or a job writes: a
turn, a preview of the same question and a `SearchMemory` request with a blank
query run at once. `build` is `ContextBuilder`: `estimate` with the profiles and
ceilings of the code, candidates with their ranks, the selection of messages
(half of the budget, newest first) and of rows (what is left, best rank first),
each item taken if it still fits. A text is the four numbers the estimator
counts in it; `render_sections` joins texts by adding these. Every order is a
relation, of which `Sorted` and `Top` take the sequence and the first members;
the selection is `Fit`, whose recursive function gives the positions taken. Both
are written so that they can be proved about as well as evaluated.

`PreviewIsExact`: the preview, which adds its question to the listing, shows the
request that the turn, which stores it first, then makes. `SearchFindsMatches`:
the rules for the three queries lose no match, repeat no hit and mix no session.
`BestIsSent` says what is left out and why, `BudgetIsKept` how much is sent: the
estimates fit unless the base prompt alone takes more than half, and the prompt
as rendered exceeds them by at most four tokens for each section.

## The LLM client

`Answer`, `sleep_before_retry` and `New` are the request loop of `openai.rs`.
A body is the sequence of events the provider means, and `sent` the symbols it
sends them in, each event with the delimiter after it. The stream is followed
symbol by symbol: the run takes every way to cut a body with a character of two
bytes, an event without data, both delimiters, with and without `[DONE]`, ended
early or broken. `next_sse_event` finds events in the buffer as in `sse.rs`, and
knows nothing of the body; `Contents` is what the caller should get, read off the
events. `BodyEnds` is the loop that ends with the body whether `[DONE]` has come
or not, so `ContentsAreTrue` promises a whole reply only if the provider ended a
whole body.

## The store behind the handlers

`Catalog` follows a request through the calls of its handler: metadata, the
session or record and its game, the owner, then what it reads or writes. Two
requests of any users overlap, one with every operation, beside a job that
stores a character and a call that fails. `create_session` takes id and time
(`TakeStamp`), stores the row, then the edge. `answer` and `noted` remember the
last reply and a page some client keeps. `OwnRecordsOnly` rests on records never
moving to another game, which is why a check in an earlier call is enough;
`PagesAreStable` allows the one exception the code has, two creations that
overtake each other. Requests of the admin service check no owner by design and
are in `JobQueue`.

## Migrations

`Migrations` has a set of servers that start, read what is recorded, walk over
the migrations statement by statement and serve; any may stop at any call and
start again. Statements are numbers, except the two of `user_ownership`: one
defines the field with a default, one updates the games without it. A server of
the release before may store games meanwhile.

## Export

`plan` is what the task has still to read and send. Every read of a table and
every chunk is a step while turns and jobs insert and upsert rows. `mode` is the
command: `backup stream` empties the file (`Open`) and then writes each chunk as
it comes; `backup export`, mode "snapshot", waits for the whole reply, and only
then empties the file (`Open`) and writes all of it (`WriteSnapshot`), the two
halves of `std::fs::write`. When a write fails or the command is stopped, `Left`
is what may be in the file: the old backup if it was not yet emptied, or any
beginning of the new one.
`WholeBackupBrackets` says what a complete backup is worth when no listing meets
its limit: all there was at its beginning, that or newer, and nothing else.
`OnlyWholeIsTaken` is `ReportedIsWhole` and `SnapshotKeepsOld`. Neither command
reports a truncated backup, although the loop of the streaming one does not ask
whether the done chunk came: an error or a broken connection ends it by itself.
And `backup export` gives up the old file only when the whole export has
arrived: a refused request, a failed read or a lost reply leaves it. A full disk
or a stop in the middle of the write does not, and nothing says that it should.

## Metrics

Handlers, stream tasks and the job runner count, and a scrape loads one counter
after the other. A stream task counts each delta it has sent and may then end in
a failure, which is counted too, or without counting more (`EndStream`). Counters
are relaxed, so a load returns any value between what the counter had when the
scrape began and what it has now.
`CountsAreTrue` ties requests to timings, jobs to outcomes, buckets to the
durations, and a quiet scrape to itself; `ScrapesNeverFall` compares scrapes.
A scrape taken among requests need not agree with itself. A request is of one
handler: one that counts a health check opens no stream.

## The terminal client

`pc` is the loop of `run_app`: drain the channel, wait for a key, or refresh,
call by call. A handler awaits its calls one after the other, so the loop does
not drain meanwhile, while the server and the stream task go on. `Exit` is
quitting and every error that `?` carries out of the loop, `StartFails` what it
carries out of `run` before the loop, after a game may have been saved. `Start`,
`PickGame`, `PickSession`, `Send`, `Refresh`, `AskContext` and the keys of the
finder are the handlers; `Configure` is `harpe config`, which changes the saved
selection while the client is down; the turns of the server are external.
`context` is, for each part of the Context tab, the session it was asked of.

`OneStreamAtATime` as above. `TranscriptIsTrue`: an assistant message holds
deltas of its own reply only. `ScreenIsTrue` joins `TypeOK`, `SavedIsShown`,
`CursorOnAnEntry` and `OneSessionOnScreen`: without a failed call, what a refresh
loads (`LoadedIsCurrent`: the transcript and the panels) is of the active
session. `StaleDataIsReported`: a refresh that kept an old transcript or panel
says so. The Context tab is in neither, since nothing clears it when the session
changes; the state keeps it so that this can be seen.

## What the models show of the code

Facts that the checks and the models make visible, and on which the
repository's documents are silent, or which they describe the same way:

- Deltas of a reply go on in an older message when the transcript is reloaded
  under an open stream (`cli/src/tui/state.rs:261`); `TranscriptIsTrue` leaves
  these out with `kept`.
- A game picked without a session leaves the session of another game in the
  header (`cli/src/tui.rs:352`); the saved session is cleared.
- `harpe config set-game` gives way to an older saved session at the next start
  (`cli/src/tui.rs:76`).
- A failed load at startup sets an error which opening the finder clears
  (`cli/src/tui.rs:86`).
- A character cut by the network ends a sound stream with an error
  (`server/src/llm/openai.rs:175`).
- The streamed backup empties the old file before its first chunk, so that a
  failed command leaves the beginning of a backup in place of a whole one
  (`cli/src/commands/backup.rs:47`). `backup export` does so later, when it has
  all it will write, but `std::fs::write` too empties the file first (`:30`).
- The preview and the search results of a session stay on the Context tab after
  another session is opened and the status says "refreshed": they are set in
  `cli/src/tui.rs:508` and `:524`, and neither `load_session` nor
  `refresh_active_data` clears them.
- A claim may pass over a job that is due earlier than the one it takes, once
  (`server/src/db/surreal/mod.rs:298`, `:356`).
- A job that an admin retries is executed as often again as its limit says, and
  stores its events and its turn's chunk as often again
  (`server/src/db/surreal/mod.rs:428`).
- At startup a failed list call of the finder ends the client, after the game
  was saved (`cli/src/tui.rs:96` to `:99`).

## What is proved

### The job queue

`StoreProofs` proves of `JobQueue`, for any sets of runners and admins and any value of
the numeric constants (assumption `JobQueueAssumption`: they are naturals,
`MaxAttempts` an integer):

- `TypeCorrect`: `[](TypeOK /\ ControlOK)`. `ControlOK` ties what a runner
  holds to where it is and is the strengthening every other proof needs.
- `NoStrandedJob`: `[]RunningHasOwner`, inductive with the types. The case that
  matters is a write of a stale row: a claim's write makes its writer an owner,
  and every other write leaves a status that is not Running.
- `NoResurrection`: `DeletedStaysDeleted`, step by step.

and, when there is at most one runner and one admin request at a time
(`OneAtATime`, an assumption of the theorem, not of the module):

- `OwnerSeesTruthHolds` and `SerialQueueIsSound`: `[]OwnerSeesTruth`,
  `[](OwnerSeesTruth /\ AttemptAccounting)`. Neither is
  inductive. `SerialInv` adds that a row read is unchanged when it is written
  (`SnapshotsCurrent`), that a selected job is still pending and due when its
  claim is written, and not scheduled after a job passed over before
  (`ClaimStillGood`), that what was passed over still waits (`OvertakenWait`), that
  the decision between retry
  and failure is right (`DecisionSound`), and what rows without a record look
  like (`RowsSane`). The argument: the only other writer is the admin, who
  touches Failed rows, and no row a runner has read or holds is Failed.
- `ClaimsAreInOrder`: `ClaimsInScheduleOrder`, from `ClaimStillGood`. It rests on
  the select that follows an overtaking: the job passed over is pending, was due
  when it was passed over, and so is due at every later select, which takes no
  job scheduled after it. A job that a failed execution or an admin makes pending
  again was claimed before, and is overtaken no longer.
- `QueueImplementsLifecycle`: `ImplementsLifecycle`; initial states map to
  initial states, and each action to an action of `JobLifecycle` or a stutter.

### Migrations

`StoreProofs` proves of `Migrations`, for any number of servers, migrations, statements,
games and stops (`MigrationsAssumption`: every migration has a statement, and
the one that defines the owner comes before the one that updates it):
`MigrationTypesHold`, `OnlyAppliedIsRecorded` (`[]RecordedIsApplied`),
`ServersHaveSchema` (`[]ServingHasSchema`), `GamesHaveOwners`
(`[]EveryGameHasOwner`) and `OwnersKept` (`OwnersAreKept`: no step takes a game
from its owner).

The inductive invariant joins `MigrationTypeOK`, `RecordedIsApplied`, `LoopInv` (what
a server knows is recorded, every migration it has passed is recorded, and every
statement before its current one is applied) and `OwnerInv` (once the update is
applied, the default was defined before it and no game is without an owner).
`RecordedIsApplied` alone is not inductive: the step that records needs that the
statements before the server's place are applied, which only `LoopInv` says; and
`EveryGameHasOwner` needs the order of the two statements, since a server of the
old release may store a game after the update.

### The turn

`SendMessageProofs` proves, for any set of turns, any capacity of the channel,
any length of replies and any number of faults (`SendMessageAssumption`: the
capacity is positive, the bounds are naturals): `StoredWholeHolds`,
`ToldTheTruthHolds` and the refinement `TurnKeepsPromise`.

`IInv` is `TypeOK` and, for each turn, `Progress` (which rows, edges and job
there are at each place of the task), `Heard` (what an answer to the client
rests on, long after the task has gone) and `Ordered` (read, waiting and about to
be sent make up the reply). `CompleteMeansDurable` alone is not inductive: the
marker may wait in the channel while everything else has happened, so the
invariant has to say what a marker in the channel means. Rows are only appended,
and each bears its turn: `Frame` turns this into "a step of one turn keeps the
invariant of another", and what is left is one lemma for each group of actions.
The refinement compares the rows and the client's place before and after.

### The memory update

`MemoryUpdateProofs` proves, for any number of workers, turns, attempts and
faults and for any set of extractions (`MemoryUpdateAssumption`:
the window is positive, attempts are at most 10, the bounds are naturals):
`UniqueEntitiesHolds`, `SucceededIsWholeHolds`, `RepeatsAreBoundedHolds` and
`SummaryKeepsHolds`.

None of the four is near inductive, since what a step writes was read many calls
before. `IInv` (listed in `Inductive`) says, beside the types:

- `LifeInv`, `HeldInv`, `StageInv`: a running job has one worker, and how far
  its execution is;
- `IdInv`: a row names its job, its attempt and its number, and no execution has
  used a number it has yet to give: ids are unique. With `EventInv` (an event an
  execution has stored is not left to do) this bounds the repeats;
- `SummaryInv`: without an overlap, what was read of the summary and of the
  messages is still there when the new summary is written;
- `EntityInv`: without an overlap, what was listed and what was saved since is
  all there is of the kind, or more facts are stored than a listing shows;
- `ProgressInv`: a saved record has its chunk and its edges, or the worker is at
  the call that makes them, or the edge is in the list still to be linked.
  `RelateFails` may delete an edge, which `cut` remembers: what is related stays
  related in this sense, so that a step of another worker keeps the progress.

`RepeatsAreBounded` counts: the rows of a job and a key are mapped to the
executions that stored them, of which there are as many as the job was started;
`GrantInv` says that these and the attempts the job still has are within what it
was granted, so that setting `attempts` back is paid for by the new grant.

### Search and context

`LlmProofs` proves of `Context` and `MemorySearch` `PreviewHolds`, `SearchHolds`,
`BestHolds` and `BudgetHolds`, for any stores, texts, limits, budgets and
candidate limits and any number of writes and failing reads.
`ContextAssumption` and `MemorySearchAssumption` say that the constants are of
their types, that the chunks of a session are finitely many and each id is of
one chunk, that `PerHit` and the limits are positive, and that no message has
the question's id before it is asked.

`ContextInv` (theorem `ContextHolds`) is `Counters`, `StoreTyped` and, for each
process, `InputTyped`, `SearchDone` and `RequestDone`. The properties speak of
what is there when a request is built, and a query was answered many reads and
other processes' writes before: `SearchDone` carries what the answers of the
queries mean until the hits are ranked, which only works because chunks are never
removed from the store. From there:

- `BudgetIsKept` and `BestIsSent` are about the operators alone. The lemmas on
  `Total` and `Fit` say what the items taken add up to, and that an item left out
  does not fit beside those taken before it; those on `Sorted` that a total
  order puts a finite set into a sequence, each member once, in order. So what is
  taken before a row is of a better rank. `RenderedNearlyFits` is that the
  estimate of two texts joined is at most the sum of the estimates, whatever the
  profile, and that what stands around rows costs no more than their four tokens
  and four for each title.
- `SearchFindsMatches`: `Reached` says that a query returned a chunk, or as many
  others, as good or better, as it may return; `ReachedIsShown` that ranking what
  was found shows the chunk or fills the limit with hits that are as good.
- `PreviewIsExact` needs an invariant of two processes, `QuietInv`: while nothing
  has been written, the preview comes first, and what both have read so far is
  what the store holds, but for the question, which only the turn has stored.
  The preview adds the question to the newest messages, the turn takes the newest
  of all with the question: the preview may hold one message more, and the
  builder, which takes the newest again, sees the same.

### The LLM client

`LlmProofs` proves of `HttpLlm` `RequestsAreRight` (`[]RepeatsAreRight`) and
`ContentsAreHandedOver` (`[]ContentsAreTrue`), for any configurations, answers,
repetitions and delays and for any bodies, however long, in either delimiter and
cut anywhere (`HttpLlmAssumption`: an event is of one line and of the symbols of
the model).

The first rests on `Requests`: the attempt is the number of delays, each the one
of its number, and how many answers there are at each place of the loop. The
second rests on `Streaming`. The buffer alone says nothing, since it begins and
ends anywhere; what a step keeps is that buffer and symbols still to arrive
together are exactly the last m events of the body (`AtEvent`), and that what was
handed over is what the events before these contain. The lemma `NextEvent` shows
that `next_sse_event` then finds the first of these events and no other, although
a carriage return or line feed of its delimiter may have come in another piece
and the buffer may hold the beginning of later events. A whole body that leaves
no event in the buffer has none left (`NothingIsLeft`), after `[DONE]` no content
follows, and a character that a cut divides ends the call with an
error and never with a wrong content.

### The store behind the handlers

`CatalogProofs` proves, for any number of requests at a time (`CatalogAssumption`:
names of different kinds differ, sessions are finitely many, and the default limit
is within the cap): `StoreIsSoundHolds`, `OwnRecordsOnlyHolds` and
`PagesAreStableHolds`. `IInv` joins the types, `Places` (what a request has
checked by the call it is at), `TakenOnce` (no id and no time is taken
twice), `Linking` and `OwnersExist`. The argument of `OwnRecordsOnly` is `Kept`:
whatever is stored is never changed or removed, so that a check made in an
earlier call still holds in a later one. `PagesAreStable` rests on the sizes of
sets: a full page that lost a session has gained one that is earlier.

### The export

`ExportProofs` proves `BackupIsTrueHolds` and `OnlyWholeIsTakenHolds`, for any
tables at the start, sessions, capacity, limit, writes and faults.
`ExportAssumption` says that the rows at the start are those a program wrote:
what belongs to a session belongs to one that is stored, and every session is
one of `Sessions`. `IInv` says what the plan, the channel and the file are
together: `SentInv` (all that was handed over, in file and channel, is numbered
and its end is where the task ended), `OrderInv` (what belongs to a session, sent
or in the plan, comes after it), `CoverInv` (every row of the beginning is sent,
about to be sent, or in a table still to be read) and `RealInv` (what is sent was
stored). `WholeBackupBrackets` is `CoverInv` and `RealInv` when the plan is done.
`PhaseInv` says what the file is at each place of the command, and that
`backup export` writes only when the task is done; what a broken write leaves is a
beginning of what was handed over, for which `NumberedWithoutGap`,
`SessionsComeFirst` and `SnapshotKeepsOld` hold as for the whole.

### The metrics

`MetricsProofs` proves `CountsAreTrueHolds` and the action property
`ScrapesNeverFallHolds`, for any finite sets of requests and jobs and any
increasing boundaries (`MetricsAssumption`). The invariant for the scrapes is that
what the last one showed is at most what the counters had when this one began
(`LastInv`, `ScrapeInv`): a relaxed load returns at least that. For the buckets
it is stated with their sums, as the code sums while it loads. `QuietInv`
ties the sums of a quiet scrape to the sets of requests, and `TimedInv` joins
the steps of `record` that lie between the counters.

### The terminal client

`TuiProofs` proves `OneStreamAtATimeHolds`, `TranscriptIsTrueHolds`,
`ScreenIsTrueHolds` and `StaleDataIsReportedHolds`, for any games, sessions,
panels, titles, listings, turns, lengths of replies and faults (`TuiAssumption`:
every session is of a game, the listing holds them all, and the panels have
names of their own). `StreamInv` follows the one stream: whatever is in the event
channel is of its turn, and its end is the last event there. Together with the
last message it gives the reply so far (`TranscriptInv`, as long as no
transcript was reloaded meanwhile). `RefreshInv` says that a refresh that has missed
nothing has still to ask for whatever is not current: this gives both
`OneSessionOnScreen` and `StaleDataIsReported`.

### Assumptions on constants

Every run evaluates the assumptions of the modules it extends. They exclude
what the program cannot be in, never what it could meet: rows of no session at
the start of an export, boundaries out of order, a panel named like the
transcript. No proof assumes that faults are few, that a process is alone or
that a table is short, except `OneAtATime`, stated above; where
a property needs this, its own premise (`faults = 0`, `alone`, `kept`, `Fits`)
says so and is part of what the run checks.

### Only model-checked

- Liveness (`SettledOrOrphaned`, `EveryTurnEnds`, `ExportEnds`, `CallEnds`,
  `StartsOrStops`): fairness and what leads to what are out of the prover's
  reach.
- The finding, which is a violation.

Every other property of the runs is a theorem. The library's induction theorems
take a predicate, which the provers cannot instantiate. Where a proof needs
induction over a body, a list of costs or a set of candidates, it collects what
fails in a set and takes its least member: `LeastOf`, `UpTo` and `Recursion` (what
a recursive function defines exists) follow from the facts about finite sets in
`FiniteSetTheorems` that need no predicate, as does what is said of the sizes of
sets. For this the models define by recursive functions and not by recursive
operators.

## Not modelled

- Health checks, the echo provider and its embeddings, the conversion of records
  to messages of the API, the API schema: stateless, field by field.
- Reading of environment variables (`server/src/config.rs`): a check of values
  at startup. The choice of budget and tokenizer for a model is part of the
  constants of `Context`.
- Rendering, layout, tabs, scrolling, the help overlay and the composer of the
  terminal client, and the output of the commands: nothing the rest depends on.
- Commands that make one call and print its reply: arguments and output.
- `list_graph_edges`, `upsert_graph_edge`, the listing of all games for the
  health check: single calls that nothing modelled reads.
- The database itself: one statement is atomic and durable, and the indexes
  find what an instance says they find. JSON and gRPC framing.
- The config file is written in place and whole; a stop in the middle of that
  write is not modelled, nor two clients that share the file.

What the project could grow into: a composition of turns, queue and memory
update for what only the whole can promise, that a complete turn is remembered
in the end unless a fault strands its job.
