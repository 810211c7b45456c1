--------------------------------- MODULE Tui ---------------------------------
(***************************************************************************)
(* The terminal client (cli/src/tui.rs, cli/src/tui/{state,client}.rs).    *)
(*                                                                         *)
(* One loop draws, drains the events of the reply stream, and handles one  *)
(* key.  A handler awaits its calls one after the other and keeps the loop *)
(* from draining meanwhile, while the server and the stream task go on.    *)
(* A call that fails in a handler ends the client, except in the panels of *)
(* a refresh and in what startup tries first.  The selection is saved in   *)
(* the client's config file, which the commands of `harpe config` write    *)
(* as well.                                                                *)
(*                                                                         *)
(* The finder lists what the server returned when it was opened; a query   *)
(* filters the list by title, in lower case, and a cursor points into what *)
(* the query leaves.                                                       *)
(*                                                                         *)
(* Left out: layout, tabs and scrolling, the help overlay (no other key    *)
(* does anything until it is closed), the text in the composer (Enter with *)
(* some is Send), the health line, list pages (every list here fits in     *)
(* one), the limit of 128 events of the channel.                           *)
(***************************************************************************)
EXTENDS Naturals, Sequences, FiniteSets, SequencesExt

CONSTANTS
    Games,          \* games of the user
    Sessions,       \* their sessions
    GameOf,         \* [Sessions -> Games], fixed when a session is created
    Listing,        \* the games and the sessions, in the order the server lists them
    TitleOf,        \* their titles, sequences of letters
    Letters,        \* the letters that are typed
    PanelOrder,     \* the panels besides the transcript, in the order of a refresh
    GamePanels,     \* those of them that show data of the game, not of the session
    TabParts,       \* parts of the Context tab: "preview", and "found" by a search
    MaxTurns,       \* bound: turns sent
    Deltas,         \* bound: non-empty deltas of a whole reply
    MaxQuery,       \* bound: letters in the finder's query
    MaxFaults       \* bound: failing calls and interrupted streams

Null == "null"

ASSUME TuiAssumption ==
    /\ Null \notin Games \cup Sessions
    /\ GameOf \in [Sessions -> Games]
    /\ GamePanels \subseteq ToSet(PanelOrder)
    /\ Listing \in Seq(Games \cup Sessions) /\ ToSet(Listing) = Games \cup Sessions
    /\ PanelOrder \in Seq(ToSet(PanelOrder)) /\ "messages" \notin ToSet(PanelOrder)
    /\ TabParts \subseteq {"preview", "found"}
    /\ DOMAIN TitleOf = Games \cup Sessions
    /\ {MaxTurns, Deltas, MaxQuery, MaxFaults} \subseteq Nat

VARIABLES
    pc,         \* "down", or what the loop does: "drain", "poll" or "refresh"
    todo,       \* panels the running refresh has still to ask for
    missed,     \* whether one of its calls has failed so far
    game,       \* app.game
    session,    \* app.session
    finder,     \* app.finder: mode, game whose sessions it lists, query, cursor from 0
    error,      \* app.error.is_some()
    streaming,  \* app.streaming
    messages,   \* app.messages, the transcript on the screen
    panel,      \* for each other panel the session or game its data came from
    context,    \* for each part of the Context tab the session its data is of
    saved,      \* game_id and session_id in the config file
    stored,     \* external: the messages the store holds for each session
    turn,       \* external: the turns the server runs for this client
    events,     \* the channel from the stream task to the loop
    faults,     \* faults so far
    kept,       \* history: the transcript was not reloaded under an open stream
    configured  \* history: `harpe config` has changed the file since the client wrote it

view   == <<game, session, finder, error, messages, panel, context, kept>>
server == <<stored, turn>>
vars   == <<pc, todo, missed, view, streaming, saved, server, events, faults, configured>>

Closed == [mode |-> "closed", game |-> Null, query |-> <<>>, selected |-> 0]
Turns  == 1..MaxTurns
Panels == ToSet(PanelOrder)
NoTab  == [c \in TabParts |-> Null]

\* A message: whose it is, and the turns its deltas came from.
Message == [role: {"user", "assistant"}, session: Sessions, turn: Turns, text: Seq(Turns)]

User(t, s)            == [role |-> "user", session |-> s, turn |-> t, text |-> <<>>]
Assistant(t, s, text) == [role |-> "assistant", session |-> s, turn |-> t, text |-> text]
WholeReply(t)         == [i \in 1..Deltas |-> t]

NoTurn == [phase |-> "none", session |-> Null, sent |-> 0, heard |-> FALSE]
Begun  == {t \in Turns : turn[t].phase # "none"}
Open   == {t \in Turns : turn[t].phase \in {"sent", "asked", "answered"}}

Init ==
    /\ pc = "down" /\ todo = <<>> /\ missed = FALSE
    /\ game = Null /\ session = Null /\ finder = Closed
    /\ error = FALSE /\ streaming = FALSE
    /\ messages = <<>> /\ panel = [p \in Panels |-> Null] /\ context = NoTab
    /\ saved = [game |-> Null, session |-> Null]
    /\ stored = [s \in Sessions |-> <<>>]
    /\ turn = [t \in Turns |-> NoTurn]
    /\ events = <<>> /\ faults = 0
    /\ kept = TRUE /\ configured = FALSE

-----------------------------------------------------------------------------
(* Steps the handlers share.                                               *)

Fault == faults < MaxFaults /\ faults' = faults + 1

\* The process ends: the stream task dies with it, the config file stays.
Exit ==
    /\ pc' = "down" /\ todo' = <<>> /\ missed' = FALSE
    /\ game' = Null /\ session' = Null /\ finder' = Closed
    /\ error' = FALSE /\ streaming' = FALSE
    /\ messages' = <<>> /\ panel' = [p \in Panels |-> Null] /\ kept' = TRUE
    /\ context' = NoTab
    /\ events' = <<>>
    /\ turn' = [t \in Turns |-> [turn[t] EXCEPT !.heard = FALSE]]

\* append_assistant_delta looks the message up from the end, 0 if there is none.
\* Mutant: looked up from the start.
FirstAssistant(ms) == SelectInSeq(ms, LAMBDA m : m.role = "assistant")
LastAssistant(ms)  == SelectLastInSeq(ms, LAMBDA m : m.role = "assistant")

\* set_status shows a line in the header and clears the error.
SetStatus == error' = FALSE

\* open_game_finder, open_session_finder once their list call has returned.
ShowGames       == finder' = [Closed EXCEPT !.mode = "game"] /\ SetStatus
ShowSessions(g) == finder' = [Closed EXCEPT !.mode = "session", !.game = g]

\* filtered_games, filtered_sessions: what is listed and its title holds the query,
\* as places in the listing.
IsListed(e, f) == IF f.mode = "game" THEN e \in Games
                  ELSE e \in Sessions /\ GameOf[e] = f.game
HoldsQuery(e, f) == f.query = <<>> \/ f.query \in SubSeqs(TitleOf[e])
Entries(f) == {i \in DOMAIN Listing : IsListed(Listing[i], f) /\ HoldsQuery(Listing[i], f)}

\* What Enter opens: the entry under the cursor, if there is one.
Chosen(e) ==
    \E i \in Entries(finder) :
        /\ Cardinality({j \in Entries(finder) : j < i}) = finder.selected
        /\ e = Listing[i]

\* Every write of the config file by the client.
Save(g, s) == saved' = [game |-> g, session |-> s] /\ configured' = FALSE

\* load_session up to the refresh: get_session, get_game unless it is the game
\* already selected, save_config_to_path, then the session becomes the active one.
\* The Context tab goes on showing what it did.
SelectSession(s) ==
    /\ game' = GameOf[s] /\ Save(GameOf[s], s) /\ session' = s
    /\ UNCHANGED context

\* refresh_active_data begins: the transcript comes first, then the panels.
\* Mutant: the transcript is forgotten.
StartPartialRefresh == pc' = "refresh" /\ todo' = PanelOrder /\ missed' = FALSE
StartRefresh ==
    /\ pc' = "refresh"
    /\ todo' = <<"messages">> \o PanelOrder
    /\ missed' = FALSE

\* startup's and the finder's list call fails: `?` ends the client.
CallFails == Fault /\ Exit

-----------------------------------------------------------------------------
(* Startup.                                                                *)

\* `?` on what startup does last, to open a finder, ends the client before it has
\* drawn anything.  A start that fails at several calls counts as one fault.
StartFails == Fault /\ UNCHANGED <<pc, todo, missed, game, session, finder, error, context>>

\* The game finder opens, and clears the error set a line before, if one was.
StartWithGames ==
    /\ ShowGames /\ pc' = "drain"
    /\ UNCHANGED <<session, context, saved, configured, todo, missed>>

\* run with a session to open: --session-id, or the saved one.
StartWithSession(s) ==
    \/ SelectSession(s) /\ StartRefresh /\ UNCHANGED <<finder, error, faults>>
    \* load_session failed, before or after it set the game.
    \/ Fault /\ game' \in {Null, GameOf[s]} /\ StartWithGames
    \/ StartFails /\ UNCHANGED <<saved, configured>>

\* run with a game and no session: load_game, which saves it, then the session finder.
StartWithGame(g) ==
    \/ /\ Save(g, saved.session)
       /\ \/ /\ game' = g /\ ShowSessions(g) /\ SetStatus /\ pc' = "drain"
             /\ UNCHANGED <<session, context, todo, missed, faults>>
          \/ StartFails
    \/ Fault /\ StartWithGames /\ UNCHANGED game
    \/ StartFails /\ UNCHANGED <<saved, configured>>

\* run: the session wins over the game, an argument over what is saved.
Start(argGame, argSession) ==
    LET s == IF argSession # Null THEN argSession ELSE saved.session
        g == IF argGame # Null THEN argGame ELSE saved.game
    IN  /\ pc = "down"
        /\ \/ s # Null /\ StartWithSession(s)
           \/ s = Null /\ g # Null /\ StartWithGame(g)
           \/ /\ s = Null /\ g = Null
              /\ \/ StartWithGames /\ UNCHANGED <<game, faults>>
                 \/ StartFails /\ UNCHANGED <<saved, configured>>
        /\ UNCHANGED <<streaming, messages, panel, kept, events, server>>

\* harpe config set-game, set-session, clear game, clear session: each reads the file,
\* replaces one field and writes the file back.
Configure(field, value) ==
    /\ pc = "down"
    /\ saved' = [saved EXCEPT ![field] = value] /\ configured' = TRUE
    /\ UNCHANGED <<pc, todo, missed, view, streaming, server, events, faults>>

-----------------------------------------------------------------------------
(* The loop: drain the channel, then wait for a key or for TICK_RATE.      *)

DrainEvent ==
    /\ pc = "drain" /\ events # <<>>
    /\ events' = Tail(events)
    /\ LET e == Head(events)
           a == LastAssistant(messages)
       IN  CASE e.type = "delta" ->
                  /\ messages' = IF a = 0 THEN messages
                                 ELSE [messages EXCEPT ![a].text = Append(@, e.turn)]
                  /\ UNCHANGED <<streaming, error>>
             [] e.type = "complete" -> streaming' = FALSE /\ SetStatus /\ UNCHANGED messages
             [] e.type = "failed" -> streaming' = FALSE /\ error' = TRUE /\ UNCHANGED messages
    /\ UNCHANGED <<pc, todo, missed, game, session, finder, panel, context, kept,
                   saved, server, faults, configured>>

DrainDone ==
    /\ pc = "drain" /\ events = <<>> /\ pc' = "poll"
    /\ UNCHANGED <<todo, missed, view, streaming, saved, server, events, faults, configured>>

Tick ==
    /\ pc = "poll" /\ pc' = "drain"
    /\ UNCHANGED <<todo, missed, view, streaming, saved, server, events, faults, configured>>

\* One call of a refresh: update_panel keeps the old data when it fails.
RefreshMessages ==
    /\ pc = "refresh" /\ todo # <<>> /\ Head(todo) = "messages" /\ todo' = Tail(todo)
    /\ \/ /\ messages' = stored[session] /\ kept' = ~streaming
          /\ UNCHANGED <<missed, faults>>
       \/ Fault /\ missed' = TRUE /\ UNCHANGED <<messages, kept>>
    /\ UNCHANGED <<pc, game, session, finder, error, panel, context, streaming,
                   saved, server, events, configured>>

RefreshPanel ==
    /\ pc = "refresh" /\ todo # <<>> /\ Head(todo) # "messages" /\ todo' = Tail(todo)
    /\ LET p == Head(todo)
       IN  \/ /\ panel' = [panel EXCEPT ![p] =
                             IF p \in GamePanels THEN GameOf[session] ELSE session]
              /\ UNCHANGED <<missed, faults>>
           \/ Fault /\ missed' = TRUE /\ UNCHANGED panel
    /\ UNCHANGED <<pc, game, session, finder, error, messages, context, kept,
                   streaming, saved, server, events, configured>>

\* The end of refresh_active_data: "refreshed", or what could not be refreshed.
\* Mutant: always "refreshed".
ReportSuccess == SetStatus
Report == error' = missed
RefreshDone ==
    /\ pc = "refresh" /\ todo = <<>>
    /\ Report
    /\ pc' = "drain" /\ missed' = FALSE
    /\ UNCHANGED <<todo, game, session, finder, messages, panel, context, kept,
                   streaming, saved, server, events, faults, configured>>

-----------------------------------------------------------------------------
(* Keys.  handle_key asks in this order: quit, help, error, finder, rest.  *)

Key == pc = "poll"

\* Ctrl-Q and Ctrl-C.
Quit ==
    /\ pc = "poll" /\ Exit
    /\ UNCHANGED <<saved, stored, faults, configured>>

\* What the keys that stay within the finder leave alone.
FinderKey ==
    /\ pc' = "drain"
    /\ UNCHANGED <<todo, missed, game, session, error, messages, panel, context, kept,
                   streaming, saved, configured, server, events, faults>>

\* Esc, Enter and plain characters first dismiss an error, and do only that.
DismissError ==
    /\ Key /\ error /\ SetStatus /\ pc' = "drain"
    /\ UNCHANGED <<todo, missed, game, session, finder, messages, panel, context, kept,
                   streaming, saved, server, events, faults, configured>>

\* Esc.
CloseFinder ==
    /\ Key /\ ~error /\ finder # Closed
    /\ finder' = Closed /\ FinderKey

\* Down and Up wrap around; they and Backspace pass an error by.
MoveDown ==
    LET n == Cardinality(Entries(finder))
    IN  /\ Key /\ n > 0
        /\ finder' = [finder EXCEPT !.selected = (@ + 1) % n] /\ FinderKey

MoveUp ==
    LET n == Cardinality(Entries(finder))
    IN  /\ Key /\ n > 0
        /\ finder' = [finder EXCEPT !.selected = (@ + n - 1) % n] /\ FinderKey

\* A character: the list shrinks under the cursor, which returns to the top.
\* Mutant: the cursor stays.
PushedUnderCursor(c) == [finder EXCEPT !.query = Append(@, c)]
Pushed(c) == [finder EXCEPT !.query = Append(@, c), !.selected = 0]
Push(c) ==
    /\ Key /\ ~error /\ finder # Closed /\ Len(finder.query) < MaxQuery
    /\ finder' = Pushed(c) /\ FinderKey

\* Backspace: the list grows or stays, and the cursor is clamped all the same.
Pop ==
    /\ Key /\ finder.query # <<>>
    /\ LET f == [finder EXCEPT !.query = Front(@)]
       IN  finder' = [f EXCEPT !.selected = Min({@, Max({1, Cardinality(Entries(f))}) - 1})]
    /\ FinderKey

\* Enter in the game finder: the game is selected and saved before its
\* sessions are listed; the active session stays until another is picked.
\* Mutant: the session saved before is not cleared.
SaveOnlyGame(g) == Save(g, saved.session)
SaveGame(g) == Save(g, Null)
PickGame(g) ==
    /\ Key /\ ~error /\ finder.mode = "game" /\ Chosen(g)
    /\ \/ /\ SaveGame(g)
          /\ \/ /\ game' = g /\ ShowSessions(g) /\ pc' = "drain"
                /\ UNCHANGED <<todo, missed, session, error, messages, panel, context,
                               kept, streaming, turn, events, faults>>
             \/ CallFails
       \/ CallFails /\ UNCHANGED <<saved, configured>>
    /\ UNCHANGED stored

\* Enter in the session finder: load_session, whose failure ends the client.
PickSession(s) ==
    /\ Key /\ ~error /\ finder.mode = "session" /\ Chosen(s)
    /\ \/ /\ finder' = Closed /\ SelectSession(s) /\ StartRefresh
          /\ UNCHANGED <<error, messages, panel, kept, streaming, turn, events, faults>>
       \/ CallFails /\ UNCHANGED <<saved, configured>>
    /\ UNCHANGED stored

\* Ctrl-G, and Ctrl-L: control keys pass an error by.
OpenFinder ==
    /\ Key /\ finder = Closed
    /\ \/ /\ \/ ShowGames
             \/ game # Null /\ ShowSessions(game) /\ SetStatus
          /\ pc' = "drain"
          /\ UNCHANGED <<todo, missed, game, session, messages, panel, context, kept,
                         streaming, turn, events, faults>>
       \/ CallFails
    /\ UNCHANGED <<saved, configured, stored>>

\* Ctrl-R.
Refresh ==
    /\ Key /\ finder = Closed
    /\ \/ session # Null /\ StartRefresh /\ UNCHANGED error
       \/ session = Null /\ SetStatus /\ pc' = "drain" /\ UNCHANGED <<todo, missed>>
    /\ UNCHANGED <<game, session, finder, messages, panel, context, kept,
                   streaming, saved, server, events, faults, configured>>

\* Ctrl-P and Ctrl-F: what the server answers for the active session stays in its part
\* of the Context tab until it is asked for again; a search may find nothing.
Answers(part) == IF part = "preview" THEN {session} ELSE {session, Null}
AskContext ==
    /\ Key /\ finder = Closed
    /\ \/ /\ \/ /\ session # Null
                /\ \E part \in TabParts : \E s \in Answers(part) :
                       context' = [context EXCEPT ![part] = s]
             \* No session, or no query to search for.
             \/ UNCHANGED context
          /\ SetStatus /\ pc' = "drain"
          /\ UNCHANGED <<todo, missed, game, session, finder, messages, panel,
                         kept, streaming, turn, events, faults>>
       \/ session # Null /\ CallFails
    /\ UNCHANGED <<saved, configured, stored>>

\* Enter: send_current_message spawns the stream task of the next turn.
\* Mutant: sent while a reply still streams.
MaySendAnytime == session # Null
MaySend == ~streaming /\ session # Null
Send(t) ==
    /\ Key /\ ~error /\ finder = Closed
    /\ MaySend
    /\ turn[t].phase = "none" /\ \A u \in Turns : u < t => u \in Begun
    /\ messages' = messages \o <<User(t, session), Assistant(t, session, <<>>)>>
    /\ streaming' = TRUE /\ SetStatus
    /\ turn' = [turn EXCEPT ![t] = [phase |-> "sent", session |-> session, sent |-> 0,
                                    heard |-> TRUE]]
    /\ pc' = "drain"
    /\ UNCHANGED <<todo, missed, game, session, finder, panel, context, kept, saved, stored,
                   events, faults, configured>>

-----------------------------------------------------------------------------
(* External: the server's side of a turn (module SendMessage), and the     *)
(* stream task, which hands on what it hears until the marker or an error. *)

\* Mutant: an error of the stream is not passed on.
EmitUnlessFailed(t, type) ==
    events' = IF turn[t].heard /\ type # "failed"
              THEN Append(events, [type |-> type, turn |-> t]) ELSE events
Emit(t, type) ==
    events' = IF turn[t].heard THEN Append(events, [type |-> type, turn |-> t]) ELSE events

ServerOnly == UNCHANGED <<pc, todo, missed, view, streaming, saved, configured>>

StoreQuestion(t) ==
    /\ turn[t].phase = "sent"
    /\ turn' = [turn EXCEPT ![t].phase = "asked"]
    /\ stored' = [stored EXCEPT ![turn[t].session] = Append(@, User(t, turn[t].session))]
    /\ UNCHANGED <<events, faults>> /\ ServerOnly

SendDelta(t) ==
    /\ turn[t].phase = "asked" /\ turn[t].sent < Deltas
    /\ turn' = [turn EXCEPT ![t].sent = @ + 1]
    /\ Emit(t, "delta")
    /\ UNCHANGED <<stored, faults>> /\ ServerOnly

StoreReply(t) ==
    /\ turn[t].phase = "asked" /\ turn[t].sent = Deltas
    /\ turn' = [turn EXCEPT ![t].phase = "answered"]
    /\ stored' = [stored EXCEPT ![turn[t].session] =
                     Append(@, Assistant(t, turn[t].session, WholeReply(t)))]
    /\ UNCHANGED <<events, faults>> /\ ServerOnly

Finish(t) ==
    /\ turn[t].phase = "answered"
    /\ turn' = [turn EXCEPT ![t].phase = "done"]
    /\ Emit(t, "complete")
    /\ UNCHANGED <<stored, faults>> /\ ServerOnly

\* The server fails the turn, or only the stream breaks and the turn goes on.
BreakTurn(t) ==
    /\ t \in Open /\ Fault
    /\ \/ turn' = [turn EXCEPT ![t].phase = "failed"]
       \/ turn[t].heard /\ turn' = [turn EXCEPT ![t].heard = FALSE]
    /\ Emit(t, "failed")
    /\ UNCHANGED stored /\ ServerOnly

TurnStep(t) == StoreQuestion(t) \/ SendDelta(t) \/ StoreReply(t) \/ Finish(t)
RefreshStep == RefreshMessages \/ RefreshPanel \/ RefreshDone
LoopStep    == DrainEvent \/ DrainDone \/ Tick

Next ==
    \/ \E g \in Games \cup {Null}, s \in Sessions \cup {Null} : Start(g, s)
    \/ \E g \in Games \cup {Null} : Configure("game", g)
    \/ \E g \in Games : PickGame(g)
    \/ \E s \in Sessions : PickSession(s)
    \/ \E s \in Sessions \cup {Null} : Configure("session", s)
    \/ MoveDown \/ MoveUp \/ Pop \/ \E c \in Letters : Push(c)
    \/ LoopStep \/ RefreshStep
    \/ Quit \/ DismissError \/ CloseFinder
    \/ OpenFinder \/ Refresh \/ AskContext
    \/ \E t \in Turns : Send(t) \/ TurnStep(t) \/ BreakTurn(t)

Spec == Init /\ [][Next]_vars

-----------------------------------------------------------------------------
(* Properties.                                                             *)

Finder == [mode: {"closed", "game", "session"}, game: Games \cup {Null},
           query: Seq(Letters), selected: Nat]
Turn   == [phase: {"none", "sent", "asked", "answered", "done", "failed"},
           session: Sessions \cup {Null}, sent: 0..Deltas, heard: BOOLEAN]
Event  == [type: {"delta", "complete", "failed"}, turn: Turns]

\* The variables hold values of their types, and what pc says is running is
\* there: a refresh has a session, a client that is down shows nothing.
TypeOK ==
    /\ pc \in {"down", "drain", "poll", "refresh"}
    /\ todo \in Seq({"messages"} \cup Panels) /\ missed \in BOOLEAN
    /\ game \in Games \cup {Null} /\ session \in Sessions \cup {Null}
    /\ finder \in Finder
    /\ error \in BOOLEAN /\ streaming \in BOOLEAN /\ kept \in BOOLEAN /\ configured \in BOOLEAN
    /\ messages \in Seq(Message)
    /\ panel \in [Panels -> Sessions \cup Games \cup {Null}]
    /\ context \in [TabParts -> Sessions \cup {Null}]
    /\ saved \in [game: Games \cup {Null}, session: Sessions \cup {Null}]
    /\ stored \in [Sessions -> Seq(Message)]
    /\ turn \in [Turns -> Turn]
    /\ events \in Seq(Event) /\ faults \in 0..MaxFaults
    /\ pc = "refresh" => session # Null

\* The streams that are open, and the places of their ends in the channel.
Listening == {t \in Open : turn[t].heard}
Ends      == {i \in DOMAIN events : events[i].type # "delta"}

\* The client waits for exactly as many replies as streams are open or have
\* their end in the channel, and never for more than one: a second message is
\* not sent before the first is answered, and none is waited for in vain.
OneStreamAtATime == Cardinality(Listening) + Cardinality(Ends) = IF streaming THEN 1 ELSE 0

\* As long as the transcript is not reloaded under an open stream, every
\* assistant message on the screen holds deltas of its own reply only, in full
\* once the reply is complete (append_assistant_delta looks for the last one).
TranscriptIsTrue ==
    kept => \A i \in DOMAIN messages :
        LET m == messages[i]
        IN  m.role = "assistant" =>
              /\ IsPrefix(m.text, WholeReply(m.turn))
              /\ turn[m.turn].phase = "done" /\ ~streaming /\ turn[m.turn].heard
                    => m.text = WholeReply(m.turn)

\* What a restart reopens: the saved session is of the saved game, and it is
\* the one on the screen, unless the user has since gone to pick another game.
SavedIsShown ==
    /\ ~configured /\ saved.session # Null => saved.game = GameOf[saved.session]
    /\ pc # "down" /\ session # Null => saved.session \in {session, Null}

\* Whatever is typed, deleted and moved, the cursor of the finder is on an
\* entry as long as there is one: Enter opens what is highlighted.
CursorOnAnEntry ==
    finder # Closed => \/ finder.selected < Cardinality(Entries(finder))
                       \/ finder.selected = 0 /\ Entries(finder) = {}

\* What a refresh loads, the transcript and the panels, is of the active session.
Current(p) == IF p \in GamePanels THEN GameOf[session] ELSE session
LoadedIsCurrent ==
    /\ \A i \in DOMAIN messages : messages[i].session = session
    /\ \A p \in Panels : panel[p] = Current(p)

\* When no call fails, the transcript and the panels are of the active session
\* whenever the client waits for a key, whatever was picked, sent or streamed
\* before.  Nothing of the kind holds of the Context tab, which no change of the
\* session clears: what it shows may be of a former one until it is asked again.
OneSessionOnScreen ==
    faults = 0 /\ pc = "poll" /\ session # Null => LoadedIsCurrent

\* What the user sees and a restart finds: one session with its own data, but for
\* the Context tab; the session that is saved; a finder whose cursor is on an entry.
ScreenIsTrue == TypeOK /\ OneSessionOnScreen /\ SavedIsShown /\ CursorOnAnEntry

\* A refresh leaves a transcript or a panel of another session or game on the
\* screen only with an error that says the refresh is incomplete.  The Context
\* tab is no part of a refresh: "refreshed" says nothing of it.
StaleDataIsReported ==
    [][pc = "refresh" /\ pc' = "drain" => error' \/ LoadedIsCurrent']_vars

=============================================================================
