-------------------------------- MODULE Export --------------------------------
(***************************************************************************)
(* A backup of a game: the task behind MemoryService.ExportGameStream (or  *)
(* the handler of ExportGame) reads table after table while turns and jobs *)
(* write, and `harpe backup` turns what it receives into a file            *)
(* (server/src/api/grpc/mod.rs, server/src/store.rs,                       *)
(* cli/src/commands/backup.rs).  Every read of the store, every chunk on   *)
(* the channel and every chunk written to the file is a step.              *)
(* Messages, jobs and graph edges are not part of a backup.                *)
(***************************************************************************)
EXTENDS Naturals, Sequences, FiniteSets, SequencesExt

CONSTANTS
    Sessions,       \* sessions of the game, those to come included
    InitialStore,   \* the rows there are when the backup begins
    Capacity,       \* of the channel: mpsc::channel(16)
    Limit,          \* of a listing: 1000
    MaxWrites,      \* bound: rows written during the backup
    MaxFaults       \* bound: failing reads, broken streams, writes that fail

SessionTables == <<"story_summary", "event", "memory_chunk">>
GameTables    == <<"character", "world_fact", "location">>

\* What is read in one call: the sessions, a table of a session or of the game.
Keys == {<<"session">>} \cup (ToSet(SessionTables) \X Sessions)
          \cup {<<t>> : t \in ToSet(GameTables)}

\* A row of a table; ver counts how often it has been upserted.
Row == [id: Sessions \cup Nat, ver: Nat]

ASSUME ExportAssumption ==
    /\ InitialStore \in [Keys -> Seq(Row)]
    /\ \A t \in ToSet(SessionTables), s \in Sessions :
           InitialStore[<<t, s>>] # <<>> => \E r \in ToSet(InitialStore[<<"session">>]) : r.id = s
    /\ \A r \in ToSet(InitialStore[<<"session">>]) : r.id \in Sessions
    /\ Capacity \in Nat \ {0} /\ Limit \in Nat \ {0}
    /\ MaxWrites \in Nat /\ MaxFaults \in Nat

VARIABLES
    mode,       \* "stream" or "snapshot": the command
    store,      \* the tables, each in the order of created_at
    plan,       \* what the task has still to read and to send
    task,       \* "idle", "running", "done", "failed"
    sequence,   \* chunks sent so far
    channel,    \* chunks between task and client
    client,     \* "idle", "reading", "writing", "reported", "failed", "gone"
    file,       \* what the file holds: OldBackup is the one made before
    faults,     \* faults so far
    writes,     \* external: rows written during the backup
    before      \* history: the store when the task began

vars == <<mode, store, plan, task, sequence, channel, client, file, faults, writes, before>>

OldBackup == <<[kind |-> "old"]>>
Read(k)     == [do |-> "read", key |-> k]
Send(k, r)  == [do |-> "send", key |-> k, row |-> r]
Done(n)     == [kind |-> "done", seq |-> n]
Error       == [kind |-> "error"]
Chunk(c, n) == [kind |-> "row", key |-> c.key, row |-> c.row, seq |-> n]

Init ==
    /\ mode \in {"stream", "snapshot"}
    /\ store = InitialStore /\ before = InitialStore
    /\ plan = <<>> /\ task = "idle" /\ sequence = 0 /\ channel = <<>>
    /\ client = "idle" /\ file = OldBackup
    /\ faults = 0 /\ writes = 0

Fault == faults < MaxFaults /\ faults' = faults + 1

-----------------------------------------------------------------------------
(* External: turns and jobs write meanwhile; rows are never deleted.       *)

Stored(k) == {r.id : r \in ToSet(store[k])}
KnownSession(k) == Len(k) = 2 => k[2] \in Stored(<<"session">>)

Insert(k) ==
    /\ task = "running" /\ writes < MaxWrites /\ KnownSession(k)
    /\ k[1] = "story_summary" => store[k] = <<>>
    /\ \E id \in (IF k[1] = "session" THEN Sessions ELSE {Len(store[k]) + 1}) \ Stored(k) :
          store' = [store EXCEPT ![k] = Append(@, [id |-> id, ver |-> 0])]
    /\ writes' = writes + 1
    /\ UNCHANGED <<mode, plan, task, sequence, channel, client, file, faults, before>>

\* Summaries, characters, facts and locations are replaced; facts are listed by
\* updated_at, so that a replaced one moves to the end.
Upsert(k) ==
    /\ task = "running" /\ writes < MaxWrites
    /\ k[1] \in {"story_summary", "character", "world_fact", "location"}
    /\ \E i \in DOMAIN store[k] :
          LET r == [store[k][i] EXCEPT !.ver = @ + 1]
          IN  store' = [store EXCEPT ![k] = IF k[1] = "world_fact"
                                            THEN Append(RemoveAt(@, i), r)
                                            ELSE ReplaceAt(@, i, r)]
    /\ writes' = writes + 1
    /\ UNCHANGED <<mode, plan, task, sequence, channel, client, file, faults, before>>

-----------------------------------------------------------------------------
(* The server's side.                                                      *)

\* What a listing returns: sessions and memory chunks oldest first, events the
\* latest in order, facts the latest first; the other tables have no limit.
Oldest(rows) == SubSeq(rows, 1, Min({Limit, Len(rows)}))
Latest(rows) == SubSeq(rows, Len(rows) - Min({Limit, Len(rows)}) + 1, Len(rows))
Listed(k) ==
    CASE k[1] \in {"session", "memory_chunk"} -> Oldest(store[k])
      [] k[1] = "event" -> Latest(store[k])
      [] k[1] = "world_fact" -> Reverse(Latest(store[k]))
      [] OTHER -> store[k]

\* What remains to be done after a read: its rows are sent one by one, and a
\* session's tables are read after its own chunk.
\* Mutant: the summaries are not asked for.
WithoutSummaries(k, rows) ==
    IF k[1] # "session" THEN [i \in DOMAIN rows |-> Send(k, rows[i])]
    ELSE FlattenSeq([i \in DOMAIN rows |->
           <<Send(k, rows[i])>> \o [j \in 1..2 |-> Read(<<SessionTables[j + 1], rows[i].id>>)]])
\* Mutant: a session's tables come before it.
SessionLast(k, rows) ==
    IF k[1] # "session" THEN [i \in DOMAIN rows |-> Send(k, rows[i])]
    ELSE FlattenSeq([i \in DOMAIN rows |->
           Append([j \in DOMAIN SessionTables |-> Read(<<SessionTables[j], rows[i].id>>)],
                  Send(k, rows[i]))])
Follow(k, rows) ==
    IF k[1] # "session" THEN [i \in DOMAIN rows |-> Send(k, rows[i])]
    ELSE [n \in 1..(4 * Len(rows)) |->
           LET row == rows[(n - 1) \div 4 + 1]
               j   == (n - 1) % 4
           IN  IF j = 0 THEN Send(k, row) ELSE Read(<<SessionTables[j], row.id>>)]

\* The request has passed its checks; the game's own chunk comes first.
Begin ==
    /\ task = "idle" /\ client = "idle"
    /\ task' = "running" /\ client' = "reading"
    /\ plan' = <<Send(<<"game">>, [id |-> 0, ver |-> 0]), Read(<<"session">>)>>
               \o [i \in DOMAIN GameTables |-> Read(<<GameTables[i]>>)]
    /\ before' = store
    /\ UNCHANGED <<mode, store, sequence, channel, file, faults, writes>>

ReadTable ==
    /\ task = "running" /\ plan # <<>> /\ Head(plan).do = "read"
    /\ LET k == Head(plan).key IN plan' = Follow(k, Listed(k)) \o Tail(plan)
    /\ UNCHANGED <<mode, store, task, sequence, channel, client, file, faults, before, writes>>

Receiving == client \in {"reading", "writing"}

\* Sending waits for room; once the receiver is gone it returns at once, and
\* the task reads on to the end all the same.
\* Mutant: sending waits for a receiver that is gone.
RoomForever == mode = "snapshot" \/ (Receiving /\ Len(channel) < Capacity)
Room == mode = "snapshot" \/ ~Receiving \/ Len(channel) < Capacity
Hand(item) == channel' = IF Receiving THEN Append(channel, item) ELSE channel

HandNumbered == Hand(Chunk(Head(plan), sequence + 1)) /\ sequence' = sequence + 1

SendChunk ==
    /\ task = "running" /\ plan # <<>> /\ Head(plan).do = "send" /\ Room
    /\ HandNumbered /\ plan' = Tail(plan)
    /\ UNCHANGED <<mode, store, task, client, file, faults, before, writes>>

SendDone ==
    /\ task = "running" /\ plan = <<>> /\ Room
    /\ task' = "done" /\ sequence' = sequence + 1
    /\ Hand(Done(sequence + 1))
    /\ UNCHANGED <<mode, store, plan, client, file, faults, before, writes>>

\* A read fails: the error is the last thing on the channel.
\* Mutant: the error is dropped, and the stream ends like a whole one.
EndSilently == UNCHANGED channel
TellError   == Hand(Error)
ReadFails ==
    /\ task = "running" /\ plan # <<>> /\ Head(plan).do = "read" /\ Room
    /\ Fault /\ task' = "failed" /\ TellError
    /\ UNCHANGED <<mode, store, plan, sequence, client, file, before, writes>>

-----------------------------------------------------------------------------
(* The client's side.  A snapshot reaches it in one reply, so it takes     *)
(* nothing before the task has ended.                                      *)

Deliverable == channel # <<>> /\ (mode = "snapshot" => task # "running")

\* The file is emptied: by File::create before the first chunk is taken, by
\* fs::write when the whole reply is there.
\* Mutant: a snapshot's file is created before the request is made, as a stream's.
OpenAtOnce ==
    /\ client = "reading"
    /\ client' = "writing" /\ file' = <<>>
    /\ UNCHANGED <<mode, store, plan, task, sequence, channel, faults, before, writes>>
Open ==
    /\ client = "reading"
    /\ mode = "snapshot" => Deliverable /\ Last(channel) # Error
    /\ client' = "writing" /\ file' = <<>>
    /\ UNCHANGED <<mode, store, plan, task, sequence, channel, faults, before, writes>>

\* One chunk to the file, through a BufWriter that holds some of them back.
WriteChunk ==
    /\ mode = "stream" /\ client = "writing" /\ Deliverable /\ Head(channel) # Error
    /\ file' = Append(file, Head(channel)) /\ channel' = Tail(channel)
    /\ UNCHANGED <<mode, store, plan, task, sequence, client, faults, before, writes>>

\* The rest of fs::write: all of the reply.
WriteSnapshot ==
    /\ mode = "snapshot" /\ client = "writing"
    /\ file' = channel /\ channel' = <<>> /\ client' = "reported"
    /\ UNCHANGED <<mode, store, plan, task, sequence, faults, before, writes>>

\* What a command that breaks off leaves: the old file if it had not emptied it,
\* and else the beginning of what it was to write, as far as that had come (cut
\* after a chunk here, anywhere in the text of one in the file).
Begun == IF mode = "stream" THEN file ELSE channel
Left  == IF client = "reading" THEN {file} ELSE {SubSeq(Begun, 1, n) : n \in 0..Len(Begun)}

\* An error item or the error reply arrives, the connection breaks, or the file
\* cannot be opened or written: the command fails.
ErrorArrives ==
    Deliverable /\ IF mode = "stream" THEN client = "writing" /\ Head(channel) = Error
                                      ELSE Last(channel) = Error
ClientFails ==
    /\ Receiving /\ client' = "failed" /\ channel' = <<>>
    /\ (ErrorArrives /\ UNCHANGED <<faults, file>>) \/ (Fault /\ file' \in Left)
    /\ UNCHANGED <<mode, store, plan, task, sequence, before, writes>>

\* The loop ends with the done chunk, or with the stream: nobody asks which.
LoopIsOver ==
    \/ file # <<>> /\ Last(file).kind = "done"
    \/ channel = <<>> /\ task \in {"done", "failed"}
Flush ==
    /\ mode = "stream" /\ client = "writing" /\ LoopIsOver
    /\ client' = "reported"
    /\ UNCHANGED <<mode, store, plan, task, sequence, channel, file, faults, before, writes>>

\* The user stops the command, wherever it is.
ClientLeaves ==
    /\ Receiving /\ client' = "gone" /\ channel' = <<>>
    /\ file' \in Left
    /\ UNCHANGED <<mode, store, plan, task, sequence, faults, before, writes>>

Stopped == client \in {"reported", "failed", "gone"} /\ UNCHANGED vars

TaskStep   == ReadTable \/ SendChunk \/ SendDone \/ ReadFails
ClientStep == Open \/ WriteChunk \/ WriteSnapshot \/ ClientFails \/ Flush

Next ==
    \/ Begin \/ TaskStep \/ ClientStep \/ ClientLeaves \/ Stopped
    \/ \E k \in Keys : Insert(k) \/ Upsert(k)

Spec == Init /\ [][Next]_vars

\* The runtime runs the task, and a client that stays reads on.
FairSpec == Spec /\ WF_vars(TaskStep) /\ WF_vars(ClientStep)

-----------------------------------------------------------------------------
(* Properties.                                                             *)

Item == [kind: {"row"}, key: Keys \cup {<<"game">>}, row: Row, seq: Nat]
          \cup [kind: {"done"}, seq: Nat] \cup {Error}

Step == [do: {"read"}, key: Keys] \cup [do: {"send"}, key: Keys \cup {<<"game">>}, row: Row]

TypeOK ==
    /\ mode \in {"stream", "snapshot"} /\ plan \in Seq(Step)
    /\ store \in [Keys -> Seq(Row)] /\ before \in [Keys -> Seq(Row)]
    /\ task \in {"idle", "running", "done", "failed"}
    /\ client \in {"idle", "reading", "writing", "reported", "failed", "gone"}
    /\ channel \in Seq(Item) /\ (mode = "stream" => Len(channel) <= Capacity)
    /\ file = OldBackup \/ file \in Seq(Item \ {Error})
    /\ sequence \in Nat /\ writes \in 0..MaxWrites /\ faults \in 0..MaxFaults

InFile(k) == {file[i].row : i \in {j \in DOMAIN file : file[j].kind = "row" /\ file[j].key = k}}
Whole == file # OldBackup /\ file # <<>> /\ Last(file).kind = "done"
Fits  == \A k \in Keys : Len(store[k]) <= Limit

\* A backup that ends in its done chunk brackets the game: it holds every row
\* there was when it began, in that version or a later one, and no row or
\* version that was never stored, although turns and jobs wrote meanwhile.
WholeBackupBrackets ==
    Whole /\ Fits => \A k \in Keys :
        /\ \A r \in ToSet(before[k]) : \E f \in InFile(k) : f.id = r.id /\ f.ver >= r.ver
        /\ \A f \in InFile(k) : \E r \in ToSet(store[k]) : f.id = r.id /\ f.ver <= r.ver

\* Every row in a backup belongs to a session that is in it, before it: a
\* restore never meets a row whose session it does not know.
SessionsComeFirst ==
    file # OldBackup => \A i \in DOMAIN file :
        file[i].kind = "row" /\ Len(file[i].key) = 2 =>
            \E j \in 1..i : file[j].key = <<"session">> /\ file[j].row.id = file[i].key[2]

\* Chunks are numbered without a gap, in the order of the file, so a reader of
\* the file can tell that none is missing.
NumberedWithoutGap ==
    file # OldBackup => \A i \in DOMAIN file : file[i].seq = i

\* What the command reports as a backup is one: with a done chunk at its end.
ReportedIsWhole == client = "reported" => Whole

\* The backup made before is given up for nothing less than a whole export: a
\* snapshot that is refused, breaks off or comes back as an error leaves the old
\* file as it was, and what it then holds is the beginning of a whole one.  No
\* more than a beginning when fs::write fails or is stopped in its middle: the
\* old backup is gone by then.
SnapshotKeepsOld ==
    mode = "snapshot" /\ file # OldBackup =>
        /\ task = "done" /\ Len(file) <= sequence
        /\ Len(file) = sequence <=> Whole

\* What a backup holds, and what is taken for one.
BackupIsTrue == TypeOK /\ WholeBackupBrackets /\ SessionsComeFirst /\ NumberedWithoutGap
OnlyWholeIsTaken == ReportedIsWhole /\ SnapshotKeepsOld

\* The export comes to its end although the client is slow or leaves, and so
\* does the command.
ExportEnds == task = "running" ~> task # "running" /\ ~Receiving
=============================================================================
