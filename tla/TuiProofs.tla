------------------------------ MODULE TuiProofs ------------------------------
(***************************************************************************)
(* Proofs about the terminal client: for any games, sessions and panels,   *)
(* any number of turns, deltas and faults, the client never waits for more *)
(* replies than one, an assistant message on the screen holds the deltas   *)
(* of its own reply only, the transcript, the panels and the config file   *)
(* are of one session (the Context tab need not be), the finder's cursor   *)
(* is on an entry, and a refresh that left old data in transcript or       *)
(* panels says so.                                                         *)
(***************************************************************************)
EXTENDS Tui, FiniteSetTheorems, TLAPS

-----------------------------------------------------------------------------
(* The inductive invariant.                                                *)

\* A turn has sent all its deltas once the reply is stored.
TurnsInv == \A t \in Turns :
    turn[t].phase \in {"answered", "done"} => turn[t].sent = Deltas

\* The one stream the client waits for is of turn t: all that is in the channel is of
\* t, and its end is the last thing there.
Stream(t) ==
    /\ turn[t].phase # "none"
    /\ \A i \in DOMAIN events :
           /\ events[i].turn = t
           /\ events[i].type = "complete" => turn[t].phase = "done"
    /\ \/ Listening = {t} /\ Ends = {}
       \/ Listening = {} /\ Ends = {Len(events)}

\* The last message grows with the deltas of t: with those still in the channel it is
\* what t has sent, as far as it was heard.
Growing(t) ==
    LET n == Len(messages)
    IN  /\ n > 0 /\ messages[n].role = "assistant" /\ messages[n].turn = t
        /\ \A i \in 1..(n - 1) : messages[i].role = "assistant" => messages[i].turn # t
        /\ Ends = {} => Len(messages[n].text) + Len(events) = turn[t].sent
        /\ Ends # {} => /\ Len(messages[n].text) + Len(events) <= turn[t].sent + 1
                        /\ turn[t].heard =>
                             Len(messages[n].text) + Len(events) = turn[t].sent + 1

StreamInv ==
    /\ ~streaming => Listening = {} /\ events = <<>>
    /\ streaming => \E t \in Turns : Stream(t) /\ (kept => Growing(t))

\* An assistant message holds deltas of its own turn, and all of them when that is over,
\* but for the last one while a stream is open.
OwnDeltas(m) ==
    /\ turn[m.turn].phase # "none"
    /\ Len(m.text) <= Deltas
    /\ \A j \in DOMAIN m.text : m.text[j] = m.turn
WholeAt(i) ==
    LET m == messages[i]
    IN  turn[m.turn].phase = "done" /\ turn[m.turn].heard =>
            Len(m.text) = Deltas \/ (streaming /\ i = Len(messages))
TranscriptInv ==
    kept => \A i \in DOMAIN messages :
                messages[i].role = "assistant" => OwnDeltas(messages[i]) /\ WholeAt(i)

\* What the store holds of a session is of that session, and its replies are whole.
StoredInv ==
    \A s \in Sessions : \A i \in DOMAIN stored[s] :
        LET m == stored[s][i]
        IN  /\ m.session = s /\ turn[m.turn].phase # "none"
            /\ m.role = "assistant" => m.text = WholeReply(m.turn)

\* A refresh that has missed nothing has still to ask for whatever is not current.
MessagesAreCurrent == \A i \in DOMAIN messages : messages[i].session = session
PanelIsCurrent(p)  == panel[p] = Current(p)
RefreshInv ==
    /\ faults = 0 => ~missed
    /\ pc = "refresh" /\ ~missed =>
         /\ MessagesAreCurrent \/ "messages" \in ToSet(todo)
         /\ \A p \in Panels : PanelIsCurrent(p) \/ p \in ToSet(todo)
    /\ faults = 0 /\ pc \in {"drain", "poll"} /\ session # Null => LoadedIsCurrent

DownInv == pc = "down" => session = Null

IInv ==
    /\ TypeOK /\ TurnsInv /\ StreamInv /\ TranscriptInv /\ StoredInv /\ RefreshInv
    /\ DownInv /\ SavedIsShown /\ CursorOnAnEntry

-----------------------------------------------------------------------------
(* Types.                                                                  *)

\* What the assumption says of the constants, in the form the proofs use it.
LEMMA Constants ==
    /\ GameOf \in [Sessions -> Games] /\ Null \notin Sessions /\ Null \notin Games
    /\ PanelOrder \in Seq(Panels) /\ GamePanels \subseteq Panels /\ "messages" \notin Panels
    /\ Listing \in Seq(Games \cup Sessions)
    /\ MaxTurns \in Nat /\ Deltas \in Nat /\ MaxQuery \in Nat /\ MaxFaults \in Nat
  BY TuiAssumption DEF Panels

\* The list of the finder is finite.
LEMMA EntriesAreFew ==
    ASSUME NEW f PROVE IsFiniteSet(Entries(f)) /\ Cardinality(Entries(f)) \in Nat
<1>1. IsFiniteSet(1..Len(Listing)) /\ DOMAIN Listing = 1..Len(Listing)
  BY Constants, FS_Interval
<1>2. Entries(f) \subseteq 1..Len(Listing)
  BY <1>1 DEF Entries
<1> QED
  BY <1>1, <1>2, FS_Subset, FS_CardinalityType

\* The finder, closed or opened on a list.
LEMMA FinderTypes ==
    /\ Closed \in Finder /\ [Closed EXCEPT !.mode = "game"] \in Finder
    /\ \A g \in Games \cup {Null} : [Closed EXCEPT !.mode = "session", !.game = g] \in Finder
    /\ Closed.selected = 0 /\ [Closed EXCEPT !.mode = "game"].selected = 0
    /\ \A g : [Closed EXCEPT !.mode = "session", !.game = g].selected = 0
<1>1. <<>> \in Seq(Letters)
  OBVIOUS
<1>2. Closed \in Finder /\ Closed.selected = 0
  BY <1>1 DEF Closed, Finder
<1>3. \A f \in Finder : \A m : [f EXCEPT !.mode = m].selected = f.selected
  BY DEF Finder
<1>4. \A f \in Finder : \A m, g : [f EXCEPT !.mode = m, !.game = g].selected = f.selected
  BY DEF Finder
<1>5. /\ \A f \in Finder : [f EXCEPT !.mode = "game"] \in Finder
      /\ \A f \in Finder, g \in Games \cup {Null} : [f EXCEPT !.mode = "session", !.game = g] \in Finder
  BY DEF Finder
<1> QED
  BY <1>2, <1>3, <1>4, <1>5

\* A turn that is not begun, and the changes of one that is.
LEMMA TurnTypes ==
    /\ NoTurn \in Turn
    /\ \A r \in Turn : /\ [r EXCEPT !.heard = FALSE] \in Turn
                       /\ \A p \in {"asked", "answered", "done", "failed"} :
                              [r EXCEPT !.phase = p] \in Turn
                       /\ r.sent < Deltas => [r EXCEPT !.sent = r.sent + 1] \in Turn
    /\ \A s \in Sessions :
           [phase |-> "sent", session |-> s, sent |-> 0, heard |-> TRUE] \in Turn
<1> USE Constants
<1>1. NoTurn \in Turn
  BY DEF NoTurn, Turn
<1>2. ASSUME NEW r \in Turn
      PROVE  /\ [r EXCEPT !.heard = FALSE] \in Turn
             /\ \A p \in {"asked", "answered", "done", "failed"} : [r EXCEPT !.phase = p] \in Turn
  BY DEF Turn
<1>3. ASSUME NEW r \in Turn, r.sent < Deltas PROVE [r EXCEPT !.sent = r.sent + 1] \in Turn
  <2>1. r.sent \in 0..Deltas /\ r.sent + 1 \in 0..Deltas
    BY <1>3 DEF Turn
  <2> QED
    BY <2>1 DEF Turn
<1>4. ASSUME NEW s \in Sessions
      PROVE  [phase |-> "sent", session |-> s, sent |-> 0, heard |-> TRUE] \in Turn
  BY DEF Turn
<1> QED
  BY <1>1, <1>2, <1>3, <1>4

\* A terminal client that has not started has the types.
LEMMA InitTypes == Init => TypeOK
<1> SUFFICES ASSUME Init PROVE TypeOK
  OBVIOUS
<1>1. /\ <<>> \in Seq({"messages"} \cup Panels) /\ <<>> \in Seq(Message) /\ <<>> \in Seq(Event)
      /\ 0 \in 0..MaxFaults
  BY Constants
<1>2. [game |-> Null, session |-> Null] \in [game: Games \cup {Null}, session: Sessions \cup {Null}]
  OBVIOUS
<1> QED
  BY <1>1, <1>2, FinderTypes, TurnTypes DEF Init, NoTab, TypeOK

\* The process ends with everything of its type.
LEMMA ExitTypes ==
    ASSUME TypeOK, Exit, faults' \in 0..MaxFaults, UNCHANGED stored, configured' \in BOOLEAN,
           saved' \in [game: Games \cup {Null}, session: Sessions \cup {Null}]
    PROVE  TypeOK'
<1>1. /\ <<>> \in Seq({"messages"} \cup Panels) /\ <<>> \in Seq(Message) /\ <<>> \in Seq(Event)
  OBVIOUS
<1> QED
  BY <1>1, FinderTypes, TurnTypes DEF TypeOK, Exit, NoTab

\* What is written to the config file is a selection, and replaces the one
\* harpe config made.
LEMMA SavedTypes ==
    ASSUME NEW g \in Games \cup {Null}, NEW s \in Sessions \cup {Null}, Save(g, s)
    PROVE  saved' \in [game: Games \cup {Null}, session: Sessions \cup {Null}] /\ configured' = FALSE
  BY DEF Save

\* A fault is counted.
LEMMA FaultTypes == ASSUME TypeOK, Fault PROVE faults' \in 0..MaxFaults /\ faults' # 0
  BY Constants DEF TypeOK, Fault

\* What a refresh starts with.
LEMMA TodoTypes ==
    /\ <<"messages">> \o PanelOrder \in Seq({"messages"} \cup Panels)
    /\ ToSet(<<"messages">> \o PanelOrder) = {"messages"} \cup Panels
<1> DEFINE all == <<"messages">> \o PanelOrder
<1>1. <<"messages">> \in Seq({"messages"} \cup Panels) /\ PanelOrder \in Seq({"messages"} \cup Panels)
  BY Constants
<1>2. all \in Seq({"messages"} \cup Panels) /\ Len(all) = Len(PanelOrder) + 1 /\ all[1] = "messages"
  BY <1>1
<1>3. \A i \in 1..Len(PanelOrder) : all[i + 1] = PanelOrder[i]
  BY <1>1
<1>4. Len(PanelOrder) \in Nat /\ DOMAIN PanelOrder = 1..Len(PanelOrder) /\ DOMAIN all = 1..(Len(PanelOrder) + 1)
  BY <1>1, <1>2
<1> HIDE DEF all
<1>5. \A p \in Panels : \E i \in DOMAIN all : all[i] = p
  <2> SUFFICES ASSUME NEW j \in DOMAIN PanelOrder PROVE \E i \in DOMAIN all : all[i] = PanelOrder[j]
    BY DEF Panels, ToSet
  <2>1. j + 1 \in DOMAIN all /\ all[j + 1] = PanelOrder[j]
    BY <1>3, <1>4
  <2> QED
    BY <2>1
<1>6. \E i \in DOMAIN all : all[i] = "messages"
  <2>1. 1 \in DOMAIN all
    BY <1>4
  <2> QED
    BY <1>2, <2>1
<1>7. \A i \in DOMAIN all : all[i] \in {"messages"} \cup Panels
  BY <1>2, <1>4
<1>8. ToSet(all) = {"messages"} \cup Panels
  BY <1>5, <1>6, <1>7 DEF ToSet
<1> QED
  BY <1>2, <1>8 DEF all

\* The start, with what the file holds, keeps the types.
LEMMA StartTypes ==
    ASSUME TypeOK, NEW g \in Games \cup {Null}, NEW s \in Sessions \cup {Null}, Start(g, s)
    PROVE  TypeOK'
<1> USE Constants, FinderTypes
<1> DEFINE which == IF s # Null THEN s ELSE saved.session
           whose == IF g # Null THEN g ELSE saved.game
<1>1. which \in Sessions \cup {Null} /\ whose \in Games \cup {Null} /\ saved.session \in Sessions \cup {Null}
  BY DEF TypeOK
<1>2. UNCHANGED <<streaming, messages, panel, kept, events, stored, turn>>
  BY DEF Start, server
<1>6. ASSUME StartWithGames, game' \in Games \cup {Null}, faults' \in 0..MaxFaults PROVE TypeOK'
  BY <1>2, <1>6 DEF TypeOK, StartWithGames, ShowGames, SetStatus
<1>7. ASSUME StartFails, configured' \in BOOLEAN,
             saved' \in [game: Games \cup {Null}, session: Sessions \cup {Null}]
      PROVE  TypeOK'
  BY <1>2, <1>7, FaultTypes DEF TypeOK, StartFails
<1>8. UNCHANGED <<saved, configured>> =>
         configured' \in BOOLEAN /\ saved' \in [game: Games \cup {Null}, session: Sessions \cup {Null}]
  BY DEF TypeOK
<1>9. UNCHANGED faults => faults' \in 0..MaxFaults
  BY DEF TypeOK
<1>10. UNCHANGED game => game' \in Games \cup {Null}
  BY DEF TypeOK
<1>3. CASE which # Null /\ StartWithSession(which)
  <2>1. CASE SelectSession(which) /\ StartRefresh /\ UNCHANGED <<finder, error, faults>>
    <3>1. GameOf[which] \in Games /\ which \in Sessions
      BY <1>1, <1>3
    <3>2. <<"messages">> \o PanelOrder \in Seq({"messages"} \cup Panels)
      BY TodoTypes
    <3>3. Save(GameOf[which], which)
      BY <2>1 DEF SelectSession
    <3> QED
      BY <1>2, <1>3, <2>1, <3>1, <3>2, <3>3, SavedTypes DEF TypeOK, SelectSession, StartRefresh
  <2>2. CASE Fault /\ game' \in {Null, GameOf[which]} /\ StartWithGames
    <3>1. GameOf[which] \in Games
      BY <1>1, <1>3
    <3>2. game' \in Games \cup {Null}
      BY <2>2, <3>1
    <3> QED
      BY <1>6, <2>2, <3>2, FaultTypes
  <2> QED
    BY <1>3, <1>7, <1>8, <2>1, <2>2 DEF StartWithSession
<1>4. CASE whose # Null /\ StartWithGame(whose)
  <2>1. whose \in Games
    BY <1>1, <1>4
  <2>2. CASE Save(whose, saved.session)
    <3>1. /\ saved' \in [game: Games \cup {Null}, session: Sessions \cup {Null}]
          /\ configured' = FALSE
      BY <1>1, <2>2, SavedTypes
    <3>2. CASE /\ game' = whose /\ ShowSessions(whose) /\ SetStatus /\ pc' = "drain"
               /\ UNCHANGED <<session, context, todo, missed, faults>>
      <4> HIDE DEF whose
      <4> QED
        BY <1>2, <2>1, <3>1, <3>2 DEF TypeOK, ShowSessions, SetStatus
    <3> QED
      BY <1>4, <1>6, <1>7, <1>8, <1>10, <2>2, <3>1, <3>2, FaultTypes DEF StartWithGame
  <2> QED
    BY <1>4, <1>6, <1>7, <1>8, <1>10, <2>2, FaultTypes DEF StartWithGame
<1> QED
  BY <1>3, <1>4, <1>6, <1>7, <1>8, <1>9, <1>10 DEF Start

\* Each key, each step of the loop and each step of a turn keeps the types.
LEMMA FinderKeyTypes ==
    ASSUME TypeOK, FinderKey, finder' \in Finder PROVE TypeOK'
  BY DEF TypeOK, FinderKey, server

\* A query without its last letter is a query.
LEMMA FrontTypes ==
    ASSUME NEW S, NEW q \in Seq(S), q # <<>> PROVE Front(q) \in Seq(S)
  BY DEF Front

\* The smaller and the larger of two numbers.
LEMMA MinMax ==
    ASSUME NEW a \in Nat, NEW b \in Nat
    PROVE  /\ Min({a, b}) = IF a <= b THEN a ELSE b
           /\ Max({a, b}) = IF a <= b THEN b ELSE a
<1>1. \A c \in {a, b} : (\A y \in {a, b} : c <= y) <=> c = IF a <= b THEN a ELSE b
  OBVIOUS
<1>2. \A c \in {a, b} : (\A y \in {a, b} : c >= y) <=> c = IF a <= b THEN b ELSE a
  OBVIOUS
<1> QED
  BY <1>1, <1>2 DEF Min, Max

\* The cursor that wraps around stays within the entries.
LEMMA WrapsAround ==
    ASSUME NEW n \in Nat, n > 0, NEW a \in Nat PROVE a % n \in 0..(n - 1)
  OBVIOUS

\* Where the keys that move the cursor, or change the query, leave the finder.
LEMMA FinderMoves ==
    ASSUME TypeOK, MoveDown \/ MoveUp \/ Pop \/ CloseFinder \/ \E c \in Letters : Push(c)
    PROVE  /\ finder' \in Finder /\ FinderKey
           /\ finder' # Closed => \/ finder'.selected < Cardinality(Entries(finder'))
                                  \/ finder'.selected = 0 /\ Entries(finder') = {}
<1>1. CASE CloseFinder
  BY <1>1, FinderTypes DEF CloseFinder
<1>2. CASE MoveDown \/ MoveUp
  <2> DEFINE n == Cardinality(Entries(finder))
  <2>1. finder.selected \in Nat /\ n \in Nat /\ finder \in Finder
    BY EntriesAreFew DEF TypeOK, Finder
  <2>2. PICK k \in Nat : n > 0 /\ finder' = [finder EXCEPT !.selected = k % n] /\ FinderKey
    <3>1. CASE MoveDown
      <4>1. finder.selected + 1 \in Nat
        BY <2>1
      <4> QED
        BY <3>1, <4>1 DEF MoveDown
    <3>2. CASE MoveUp
      <4>1. n > 0 => finder.selected + n - 1 \in Nat
        BY <2>1
      <4> QED
        BY <3>2, <4>1 DEF MoveUp
    <3> QED
      BY <1>2, <3>1, <3>2
  <2>3. k % n \in 0..(n - 1)
    BY <2>1, <2>2, WrapsAround
  <2>4. finder' \in Finder /\ finder'.selected = k % n
    BY <2>1, <2>2, <2>3 DEF Finder
  <2>5. Entries(finder') = Entries(finder)
    BY <2>1, <2>2 DEF Entries, IsListed, HoldsQuery, Finder
  <2> QED
    BY <2>1, <2>2, <2>3, <2>4, <2>5
<1>3. ASSUME NEW c \in Letters, Push(c) PROVE finder' \in Finder /\ FinderKey /\ finder'.selected = 0
  <2>1. finder \in Finder /\ Append(finder.query, c) \in Seq(Letters)
    BY DEF TypeOK, Finder
  <2>2. finder' = [finder EXCEPT !.query = Append(finder.query, c), !.selected = 0]
    BY <1>3 DEF Push, Pushed
  <2>3. finder' \in Finder /\ finder'.selected = 0
    BY <2>1, <2>2 DEF Finder
  <2> QED
    BY <1>3, <2>3 DEF Push
<1>4. CASE Pop
  <2> DEFINE f == [finder EXCEPT !.query = Front(@)]
             last == Max({1, Cardinality(Entries(f))}) - 1
  <2>1. finder \in Finder /\ f \in Finder
    BY <1>4, FrontTypes DEF TypeOK, Finder, Pop
  <2>2. Cardinality(Entries(f)) \in Nat /\ IsFiniteSet(Entries(f))
    BY EntriesAreFew
  <2>3. last \in Nat /\ (Cardinality(Entries(f)) > 0 => last < Cardinality(Entries(f)))
        /\ (Cardinality(Entries(f)) = 0 => last = 0)
    BY <2>2, MinMax
  <2>4. finder.selected \in Nat /\ f.selected = finder.selected
    BY <2>1 DEF Finder
  <2>5. Min({f.selected, last}) \in Nat /\ Min({f.selected, last}) <= last
    BY <2>3, <2>4, MinMax
  <2>6. finder' = [f EXCEPT !.selected = Min({f.selected, last})] /\ FinderKey
    BY <1>4 DEF Pop
  <2> HIDE DEF last
  <2>7. finder' \in Finder /\ finder'.selected <= last
    BY <2>1, <2>5, <2>6 DEF Finder
  <2>8. Entries(finder') = Entries(f)
    BY <2>1, <2>6 DEF Entries, IsListed, HoldsQuery, Finder
  <2>9. Cardinality(Entries(f)) = 0 => Entries(f) = {}
    BY <2>2, FS_EmptySet
  <2>10. finder'.selected \in Nat
    BY <2>7 DEF Finder
  <2> QED
    BY <2>2, <2>3, <2>6, <2>7, <2>8, <2>9, <2>10
<1>5. finder'.selected = 0 =>
         finder'.selected < Cardinality(Entries(finder')) \/ Entries(finder') = {}
  <2>1. Cardinality(Entries(finder')) \in Nat /\ IsFiniteSet(Entries(finder'))
    BY EntriesAreFew
  <2> QED
    BY <2>1, FS_EmptySet
<1> QED
  BY <1>1, <1>2, <1>3, <1>4, <1>5

\* Where the keys that ask the server leave the client, and the loop's own steps.
LEMMA CallTypes ==
    ASSUME TypeOK,
           \/ \E g \in Games : PickGame(g)
           \/ \E s \in Sessions : PickSession(s)
           \/ OpenFinder \/ Refresh \/ AskContext \/ Quit \/ DismissError
    PROVE  TypeOK'
<1> USE Constants, FinderTypes
<1>1. ASSUME Exit, Fault, UNCHANGED <<saved, configured, stored>> PROVE TypeOK'
  BY <1>1, ExitTypes, FaultTypes DEF TypeOK
<1>2. ASSUME NEW g \in Games, PickGame(g) PROVE TypeOK'
  <2>1. CASE SaveGame(g) /\ CallFails
    BY <1>2, <2>1, ExitTypes, FaultTypes, SavedTypes DEF PickGame, SaveGame, CallFails
  <2>2. CASE /\ SaveGame(g) /\ game' = g /\ ShowSessions(g) /\ pc' = "drain"
             /\ UNCHANGED <<todo, missed, session, error, messages, panel, context, kept, streaming, turn, events,
                            faults, stored>>
    BY <2>2, SavedTypes DEF TypeOK, SaveGame, ShowSessions
  <2> QED
    BY <1>1, <1>2, <2>1, <2>2 DEF PickGame, CallFails
<1>3. ASSUME NEW s \in Sessions, PickSession(s) PROVE TypeOK'
  <2>1. CASE /\ finder' = Closed /\ SelectSession(s) /\ StartRefresh
             /\ UNCHANGED <<error, messages, panel, kept, streaming, turn, events, faults, stored>>
    <3>1. /\ GameOf[s] \in Games /\ Save(GameOf[s], s) /\ game' = GameOf[s] /\ session' = s /\ s # Null
          /\ UNCHANGED context
      BY <2>1, <1>3 DEF SelectSession
    <3> QED
      BY <2>1, <3>1, SavedTypes, TodoTypes DEF TypeOK, StartRefresh
  <2> QED
    BY <1>1, <1>3, <2>1 DEF PickSession, CallFails
<1>4. CASE OpenFinder
  BY <1>1, <1>4 DEF OpenFinder, CallFails, TypeOK, ShowGames, ShowSessions, SetStatus
<1>5. CASE Refresh
  BY <1>5, TodoTypes DEF Refresh, TypeOK, StartRefresh, SetStatus, server
<1>6. CASE AskContext
  <2>1. ASSUME NEW part \in TabParts, NEW s \in Answers(part), session # Null
        PROVE  [context EXCEPT ![part] = s] \in [TabParts -> Sessions \cup {Null}]
    <3>1. s \in Sessions \cup {Null}
      BY <2>1 DEF Answers, TypeOK
    <3> QED
      BY <3>1 DEF TypeOK
  <2>2. CASE CallFails
    BY <1>1, <1>6, <2>2 DEF AskContext, CallFails
  <2>3. CASE ~CallFails
    <3>1. /\ SetStatus /\ pc' = "drain"
          /\ UNCHANGED <<todo, missed, game, session, finder, messages, panel, kept, streaming, turn,
                         events, faults, saved, configured, stored>>
      BY <1>6, <2>3 DEF AskContext
    <3>2. context' \in [TabParts -> Sessions \cup {Null}]
      <4>1. CASE UNCHANGED context
        BY <4>1 DEF TypeOK
      <4>2. CASE session # Null /\ \E part \in TabParts : \E s \in Answers(part) :
                     context' = [context EXCEPT ![part] = s]
        <5>1. PICK part \in TabParts : \E s \in Answers(part) : context' = [context EXCEPT ![part] = s]
          BY <4>2
        <5>2. PICK s \in Answers(part) : context' = [context EXCEPT ![part] = s]
          BY <5>1
        <5>3. [context EXCEPT ![part] = s] \in [TabParts -> Sessions \cup {Null}]
          BY <2>1, <4>2
        <5> QED
          BY <5>2, <5>3
      <4> QED
        BY <1>6, <2>3, <4>1, <4>2 DEF AskContext
    <3> QED
      BY <3>1, <3>2 DEF TypeOK, SetStatus
  <2> QED
    BY <2>2, <2>3
<1>7. CASE Quit
  BY <1>7, ExitTypes DEF Quit, TypeOK
<1>8. CASE DismissError
  BY <1>8 DEF DismissError, TypeOK, SetStatus, server
<1> QED
  BY <1>2, <1>3, <1>4, <1>5, <1>6, <1>7, <1>8

\* The message looked up for a delta that was drained.
LEMMA DrainCases ==
    ASSUME TypeOK, DrainEvent
    PROVE  /\ pc = "drain" /\ events # <<>> /\ events' = Tail(events) /\ Head(events) \in Event
           /\ UNCHANGED <<pc, todo, missed, game, session, finder, panel, context, kept, saved, stored, turn,
                          faults, configured>>
           /\ \/ /\ Head(events).type = "delta" /\ UNCHANGED <<streaming, error>>
                 /\ messages' = IF LastAssistant(messages) = 0 THEN messages
                                ELSE [messages EXCEPT ![LastAssistant(messages)].text =
                                          Append(@, Head(events).turn)]
              \/ /\ Head(events).type \in {"complete", "failed"}
                 /\ streaming' = FALSE /\ error' \in BOOLEAN /\ UNCHANGED messages
<1>1. events # <<>> /\ Head(events) \in Event
  BY DEF TypeOK, DrainEvent
<1>2. Head(events).type \in {"delta", "complete", "failed"}
  BY <1>1 DEF Event
<1>3. CASE Head(events).type = "delta"
  BY <1>1, <1>3 DEF DrainEvent, server
<1>4. CASE Head(events).type = "complete"
  BY <1>1, <1>4 DEF DrainEvent, server, SetStatus
<1>5. CASE Head(events).type = "failed"
  BY <1>1, <1>5 DEF DrainEvent, server
<1> QED
  BY <1>2, <1>3, <1>4, <1>5

\* The steps of the loop and of a refresh keep the types.
LEMMA LoopTypes ==
    ASSUME TypeOK, LoopStep \/ RefreshStep PROVE TypeOK'
<1> USE Constants
<1>1. CASE DrainEvent
  <2> DEFINE a == LastAssistant(messages)
  <2>1. Head(events).turn \in Turns /\ events' \in Seq(Event)
    <3>1. Head(events) \in Event /\ events # <<>> /\ events' = Tail(events)
      BY <1>1, DrainCases
    <3>2. Head(events).turn \in Turns
      BY <3>1 DEF Event
    <3> QED
      BY <3>1, <3>2 DEF TypeOK
  <2>2. [messages EXCEPT ![a].text = Append(@, Head(events).turn)] \in Seq(Message)
    <3>1. messages \in Seq(Message)
      BY DEF TypeOK
    <3>2. CASE a \in DOMAIN messages
      <4>1. messages[a] \in Message
        BY <3>1, <3>2
      <4>2. [messages[a] EXCEPT !.text = Append(@, Head(events).turn)] \in Message
        <5>1. Append(messages[a].text, Head(events).turn) \in Seq(Turns)
          BY <2>1, <4>1 DEF Message
        <5> QED
          BY <4>1, <5>1 DEF Message
      <4> HIDE DEF a
      <4> QED
        BY <3>1, <3>2, <4>2
    <3>3. CASE a \notin DOMAIN messages
      <4> HIDE DEF a
      <4>1. \A x : [messages EXCEPT ![a] = x] = messages
        BY <3>1, <3>3
      <4> QED
        BY <3>1, <4>1
    <3> QED
      BY <3>2, <3>3
  <2>3. messages' \in Seq(Message) /\ error' \in BOOLEAN /\ streaming' \in BOOLEAN
    BY <1>1, <2>2, DrainCases DEF TypeOK
  <2> QED
    BY <1>1, <2>1, <2>3, DrainCases DEF TypeOK
<1>2. CASE DrainDone \/ Tick
  BY <1>2 DEF DrainDone, Tick, TypeOK, view, server
<1>3. ASSUME todo # <<>> PROVE Tail(todo) \in Seq({"messages"} \cup Panels) /\ Head(todo) \in {"messages"} \cup Panels
  BY <1>3 DEF TypeOK
<1>4. CASE RefreshMessages
  <2>1. session \in Sessions
    BY <1>4 DEF RefreshMessages, TypeOK
  <2>2. stored[session] \in Seq(Message)
    BY <2>1 DEF TypeOK
  <2> QED
    BY <1>3, <1>4, <2>2, FaultTypes DEF RefreshMessages, TypeOK, server
<1>5. CASE RefreshPanel
  <2>1. session \in Sessions /\ GameOf[session] \in Games
    BY <1>5 DEF RefreshPanel, TypeOK
  <2>2. panel' \in [Panels -> Sessions \cup Games \cup {Null}]
    BY <1>5, <2>1 DEF RefreshPanel, TypeOK
  <2> QED
    BY <1>3, <1>5, <2>2, FaultTypes DEF RefreshPanel, TypeOK, server
<1>6. CASE RefreshDone
  BY <1>6 DEF RefreshDone, Report, TypeOK, server
<1> QED
  BY <1>1, <1>2, <1>4, <1>5, <1>6 DEF LoopStep, RefreshStep

\* A message of a session that a turn was sent in.
LEMMA MessageTypes ==
    ASSUME NEW t \in Turns, NEW s \in Sessions
    PROVE  /\ User(t, s) \in Message /\ Assistant(t, s, <<>>) \in Message
           /\ Assistant(t, s, WholeReply(t)) \in Message
<1>1. <<>> \in Seq(Turns) /\ WholeReply(t) \in Seq(Turns)
  BY Constants DEF WholeReply
<1> QED
  BY <1>1 DEF User, Assistant, Message

\* What a stream task emits is an event.
LEMMA EmitTypes ==
    ASSUME TypeOK, NEW t \in Turns, NEW type \in {"delta", "complete", "failed"}, Emit(t, type)
    PROVE  events' \in Seq(Event)
<1>1. [type |-> type, turn |-> t] \in Event
  BY DEF Event
<1> QED
  BY <1>1 DEF Emit, TypeOK

\* The steps of a turn, on the client and on the server, keep the types.
LEMMA TurnStepTypes ==
    ASSUME TypeOK, StoredInv, NEW t \in Turns, Send(t) \/ TurnStep(t) \/ BreakTurn(t)
    PROVE  TypeOK'
<1>1. /\ turn \in [Turns -> Turn] /\ turn[t] \in Turn /\ stored \in [Sessions -> Seq(Message)]
      /\ messages \in Seq(Message)
  BY DEF TypeOK
<1>7. \A r \in Turn : [turn EXCEPT ![t] = r] \in [Turns -> Turn]
  BY <1>1
<1>2. CASE Send(t)
  <2>1. session \in Sessions
    BY <1>2 DEF Send, MaySend, TypeOK
  <2>2. <<User(t, session), Assistant(t, session, <<>>)>> \in Seq(Message)
    BY <2>1, MessageTypes
  <2>3. messages' \in Seq(Message)
    <3> DEFINE more == <<User(t, session), Assistant(t, session, <<>>)>>
    <3>1. messages' = messages \o more /\ messages \in Seq(Message) /\ more \in Seq(Message)
      BY <1>2, <2>2 DEF Send, TypeOK
    <3> HIDE DEF more
    <3> QED
      BY <3>1
  <2>4. turn' \in [Turns -> Turn]
    BY <1>2, <1>7, <2>1, TurnTypes DEF Send
  <2> QED
    BY <1>2, <2>3, <2>4 DEF Send, TypeOK, SetStatus
<1>3. ASSUME NEW m \in Message, NEW s \in Sessions
      PROVE  [stored EXCEPT ![s] = Append(@, m)] \in [Sessions -> Seq(Message)]
  <2>1. stored[s] \in Seq(Message) /\ Append(stored[s], m) \in Seq(Message)
    BY <1>1
  <2> QED
    BY <1>1, <2>1
<1>4. CASE StoreQuestion(t) \/ StoreReply(t)
  <2>1. turn' \in [Turns -> Turn]
    <3>1. PICK p \in {"asked", "answered"} : turn' = [turn EXCEPT ![t] = [@ EXCEPT !.phase = p]]
      BY <1>4 DEF StoreQuestion, StoreReply
    <3> QED
      BY <1>1, <1>7, <3>1, TurnTypes
  <2>2. stored' \in [Sessions -> Seq(Message)]
    <3>1. CASE turn[t].session \in Sessions
      <4> DEFINE s == turn[t].session
      <4>1. s \in Sessions /\ User(t, s) \in Message /\ Assistant(t, s, WholeReply(t)) \in Message
        BY <3>1, MessageTypes
      <4>2. PICK m \in Message : stored' = [stored EXCEPT ![s] = Append(@, m)]
        BY <1>4, <4>1 DEF StoreQuestion, StoreReply
      <4>3. [stored EXCEPT ![s] = Append(@, m)] \in [Sessions -> Seq(Message)]
        BY <1>3, <4>1
      <4> QED
        BY <4>2, <4>3
    <3>2. CASE turn[t].session \notin Sessions
      <4>1. \A x : [stored EXCEPT ![turn[t].session] = x] = stored
        BY <1>1, <3>2
      <4> QED
        BY <1>4, <4>1 DEF StoreQuestion, StoreReply, TypeOK
    <3> QED
      BY <3>1, <3>2
  <2> QED
    BY <1>4, <2>1, <2>2 DEF StoreQuestion, StoreReply, ServerOnly, view, TypeOK
<1>5. CASE SendDelta(t) \/ Finish(t)
  <2>1. turn' \in [Turns -> Turn]
    <3>1. CASE SendDelta(t)
      <4>1. turn' = [turn EXCEPT ![t] = [@ EXCEPT !.sent = turn[t].sent + 1]] /\ turn[t].sent < Deltas
        BY <3>1 DEF SendDelta
      <4> QED
        BY <1>1, <1>7, <4>1, TurnTypes
    <3>2. CASE Finish(t)
      <4>1. turn' = [turn EXCEPT ![t] = [@ EXCEPT !.phase = "done"]]
        BY <3>2 DEF Finish
      <4> QED
        BY <1>1, <1>7, <4>1, TurnTypes
    <3> QED
      BY <1>5, <3>1, <3>2
  <2>2. events' \in Seq(Event)
    BY <1>5, EmitTypes DEF SendDelta, Finish
  <2> QED
    BY <1>5, <2>1, <2>2 DEF SendDelta, Finish, ServerOnly, view, TypeOK
<1>6. CASE BreakTurn(t)
  <2>1. turn' \in [Turns -> Turn]
    <3>1. \/ turn' = [turn EXCEPT ![t] = [@ EXCEPT !.phase = "failed"]]
          \/ turn' = [turn EXCEPT ![t] = [@ EXCEPT !.heard = FALSE]]
      BY <1>6 DEF BreakTurn
    <3> QED
      BY <1>1, <1>7, <3>1, TurnTypes
  <2>2. events' \in Seq(Event) /\ faults' \in 0..MaxFaults
    BY <1>6, EmitTypes, FaultTypes DEF BreakTurn
  <2> QED
    BY <1>6, <2>1, <2>2 DEF BreakTurn, ServerOnly, view, TypeOK
<1> QED
  BY <1>2, <1>4, <1>5, <1>6 DEF TurnStep

\* What `harpe config` writes.
LEMMA ConfigureTypes ==
    ASSUME TypeOK,
           \/ \E g \in Games \cup {Null} : Configure("game", g)
           \/ \E s \in Sessions \cup {Null} : Configure("session", s)
    PROVE  TypeOK'
<1>1. saved' \in [game: Games \cup {Null}, session: Sessions \cup {Null}] /\ configured' = TRUE
  BY DEF Configure, TypeOK
<1> QED
  BY <1>1 DEF Configure, TypeOK, view, server

\* Every step keeps the types.
LEMMA NextTypes == ASSUME TypeOK, StoredInv, [Next]_vars PROVE TypeOK'
<1>1. CASE UNCHANGED vars
  BY <1>1 DEF vars, view, server, TypeOK
<1>2. CASE MoveDown \/ MoveUp \/ Pop \/ CloseFinder \/ \E c \in Letters : Push(c)
  BY <1>2, FinderMoves, FinderKeyTypes
<1> QED
  BY <1>1, <1>2, StartTypes, ConfigureTypes, CallTypes, LoopTypes, TurnStepTypes DEF Next

-----------------------------------------------------------------------------
(* The selection: what is saved, and where the cursor is.                  *)

\* The process is down only after an exit; what starts it selects a session that is
\* of the game it saves.
LEMMA NextSaved ==
    ASSUME TypeOK, DownInv, SavedIsShown, [Next]_vars PROVE DownInv' /\ SavedIsShown'
<1> USE Constants
<1>1. ASSUME pc' = "down" => session' = Null, UNCHANGED <<saved, configured>>,
             session' # Null => UNCHANGED session /\ pc # "down"
      PROVE  DownInv' /\ SavedIsShown'
  BY <1>1 DEF DownInv, SavedIsShown
<1>2. ASSUME NEW s \in Sessions, SelectSession(s), pc' # "down"
      PROVE  DownInv' /\ SavedIsShown'
  BY <1>2 DEF DownInv, SavedIsShown, SelectSession, Save
<1>3. CASE UNCHANGED <<pc, session, saved, configured>>
  BY <1>3 DEF DownInv, SavedIsShown
<1>4. CASE Exit /\ UNCHANGED <<saved, configured>>
  BY <1>1, <1>4 DEF Exit
<1>5. ASSUME NEW g \in Games \cup {Null}, NEW s \in Sessions \cup {Null}, Start(g, s)
      PROVE  DownInv' /\ SavedIsShown'
  <2> DEFINE which == IF s # Null THEN s ELSE saved.session
             whose == IF g # Null THEN g ELSE saved.game
  <2>1. pc = "down" /\ session = Null /\ which \in Sessions \cup {Null} /\ whose \in Games \cup {Null}
    BY <1>5 DEF Start, DownInv, TypeOK
  <2>2. CASE which # Null /\ StartWithSession(which)
    <3>1. which \in Sessions
      BY <2>1, <2>2
    <3> HIDE DEF which
    <3> QED
      BY <1>1, <1>2, <2>1, <2>2, <3>1 DEF StartWithSession, StartRefresh, StartWithGames, StartFails
  <2>3. CASE which = Null /\ StartWithGame(whose)
    <3>1. saved.session = Null
      BY <2>3
    <3>2. saved'.session = Null /\ session' = Null
      BY <2>1, <2>3, <3>1 DEF StartWithGame, StartWithGames, StartFails, Save
    <3> QED
      BY <3>2 DEF DownInv, SavedIsShown
  <2>4. CASE UNCHANGED <<session, saved, configured>>
    BY <1>1, <2>1, <2>4
  <2> QED
    BY <1>5, <2>2, <2>3, <2>4 DEF Start, StartWithGames, StartFails
<1>6. ASSUME NEW f \in {"game", "session"}, NEW v, Configure(f, v) PROVE DownInv' /\ SavedIsShown'
  BY <1>6 DEF Configure, view, DownInv, SavedIsShown
<1>7. ASSUME NEW g \in Games, PickGame(g) PROVE DownInv' /\ SavedIsShown'
  <2>1. CASE SaveGame(g)
    <3>1. saved'.session = Null /\ (pc' = "down" => session' = Null)
      BY <1>7, <2>1 DEF PickGame, SaveGame, Save, CallFails, Exit
    <3> QED
      BY <3>1 DEF DownInv, SavedIsShown
  <2> QED
    BY <1>4, <1>7, <2>1 DEF PickGame, CallFails
<1>8. ASSUME NEW s \in Sessions, PickSession(s) PROVE DownInv' /\ SavedIsShown'
  BY <1>2, <1>4, <1>8 DEF PickSession, CallFails, StartRefresh
<1>9. CASE OpenFinder \/ AskContext \/ Quit
  BY <1>1, <1>4, <1>9 DEF OpenFinder, AskContext, Quit, CallFails, Key
<1>10. CASE \/ MoveDown \/ MoveUp \/ Pop \/ \E c \in Letters : Push(c)
            \/ DismissError \/ CloseFinder \/ Refresh
  BY <1>1, <1>10 DEF MoveDown, MoveUp, Pop, Push, DismissError, CloseFinder, Refresh, FinderKey,
     StartRefresh, Key
<1>11. CASE LoopStep \/ RefreshStep
  BY <1>1, <1>11 DEF LoopStep, RefreshStep, DrainEvent, DrainDone, Tick, RefreshMessages,
     RefreshPanel, RefreshDone, view
<1>12. ASSUME NEW t \in Turns, Send(t) \/ TurnStep(t) \/ BreakTurn(t)
       PROVE  DownInv' /\ SavedIsShown'
  BY <1>1, <1>3, <1>12 DEF Send, Key, TurnStep, StoreQuestion, SendDelta, StoreReply, Finish, BreakTurn,
     ServerOnly, view
<1>13. CASE UNCHANGED vars
  BY <1>3, <1>13 DEF vars, view
<1> QED
  BY <1>5, <1>6, <1>7, <1>8, <1>9, <1>10, <1>11, <1>12, <1>13 DEF Next

\* Every list opens with no query and the cursor at the top, and a key leaves the
\* cursor on an entry.
LEMMA NextCursor ==
    ASSUME TypeOK, CursorOnAnEntry, [Next]_vars PROVE CursorOnAnEntry'
<1>1. ASSUME UNCHANGED finder PROVE CursorOnAnEntry'
  BY <1>1 DEF CursorOnAnEntry, Entries, IsListed, HoldsQuery
<1>2. ASSUME finder'.selected = 0 PROVE CursorOnAnEntry'
  <2>1. Cardinality(Entries(finder')) \in Nat /\ IsFiniteSet(Entries(finder'))
    BY EntriesAreFew
  <2> QED
    BY <1>2, <2>1, FS_EmptySet DEF CursorOnAnEntry, Entries, IsListed, HoldsQuery
<1>3. CASE MoveDown \/ MoveUp \/ Pop \/ CloseFinder \/ \E c \in Letters : Push(c)
  BY <1>3, FinderMoves DEF CursorOnAnEntry, Entries, IsListed, HoldsQuery
<1>4. /\ ShowGames => finder'.selected = 0
      /\ \A g : ShowSessions(g) => finder'.selected = 0
      /\ finder' = Closed => finder'.selected = 0
  BY FinderTypes DEF ShowGames, ShowSessions
<1>5. Exit => finder' = Closed
  BY DEF Exit
<1>6. ASSUME NEW g \in Games \cup {Null}, NEW s \in Sessions \cup {Null}, Start(g, s)
      PROVE  UNCHANGED finder \/ finder'.selected = 0
  <2>1. (IF g # Null THEN g ELSE saved.game) \in Games \cup {Null}
    BY DEF TypeOK
  <2> QED
    BY <1>4, <1>6, <2>1 DEF Start, StartWithSession, StartWithGame, StartWithGames, StartFails
<1>7. CASE \/ \E g \in Games : PickGame(g)
           \/ \E s \in Sessions : PickSession(s)
           \/ OpenFinder \/ AskContext \/ Quit
  <2>1. game \in Games \cup {Null}
    BY DEF TypeOK
  <2> QED
    BY <1>1, <1>2, <1>4, <1>5, <1>7, <2>1 DEF PickGame, PickSession, OpenFinder, AskContext, Quit, CallFails
<1>8. CASE \/ DismissError \/ Refresh \/ LoopStep \/ RefreshStep
           \/ \E t \in Turns : Send(t) \/ TurnStep(t) \/ BreakTurn(t)
           \/ \E g \in Games \cup {Null} : Configure("game", g)
           \/ \E s \in Sessions \cup {Null} : Configure("session", s)
           \/ UNCHANGED vars
  BY <1>1, <1>8
  DEF DismissError, Refresh, LoopStep, RefreshStep, DrainEvent, DrainDone, Tick, RefreshMessages,
      RefreshPanel, RefreshDone, Send, TurnStep, StoreQuestion, SendDelta, StoreReply, Finish, BreakTurn,
      ServerOnly, Configure, vars, view
<1> QED
  BY <1>1, <1>2, <1>3, <1>6, <1>7, <1>8 DEF Next

-----------------------------------------------------------------------------
(* A refresh.                                                              *)

\* What is left to ask for after a call is all but what the call was for.
LEMMA TailOfTodo ==
    ASSUME NEW S, NEW q \in Seq(S), q # <<>>, NEW x \in ToSet(q), x # Head(q)
    PROVE  x \in ToSet(Tail(q))
<1>1. PICK i \in 1..Len(q) : q[i] = x
  BY DEF ToSet
<1>2. i # 1 /\ Len(q) \in Nat
  BY <1>1
<1>3. Tail(q) \in Seq(S) /\ Len(Tail(q)) = Len(q) - 1 /\ Tail(q)[i - 1] = q[i]
  BY <1>1, <1>2
<1>4. i - 1 \in DOMAIN Tail(q)
  BY <1>1, <1>2, <1>3
<1> QED
  BY <1>1, <1>3, <1>4 DEF ToSet

\* Each place of two sequences put together is a place of one of them.
LEMMA Concatenated ==
    ASSUME NEW S, NEW a \in Seq(S), NEW b \in Seq(S), NEW i \in DOMAIN (a \o b)
    PROVE  \/ i \in DOMAIN a /\ (a \o b)[i] = a[i]
           \/ i - Len(a) \in DOMAIN b /\ (a \o b)[i] = b[i - Len(a)]
<1>1. /\ DOMAIN a = 1..Len(a) /\ DOMAIN b = 1..Len(b) /\ Len(a) \in Nat /\ Len(b) \in Nat
      /\ DOMAIN (a \o b) = 1..(Len(a) + Len(b))
  OBVIOUS
<1>2. CASE i <= Len(a)
  BY <1>1, <1>2
<1>3. CASE i > Len(a)
  BY <1>1, <1>3
<1> QED
  BY <1>1, <1>2, <1>3

\* What a refresh loads is current when its parts are.
LEMMA PartsOfLoaded ==
    LoadedIsCurrent <=> MessagesAreCurrent /\ \A p \in Panels : PanelIsCurrent(p)
  BY DEF LoadedIsCurrent, MessagesAreCurrent, PanelIsCurrent

\* Whatever selects a session asks for everything again.
LEMMA NextRefresh ==
    ASSUME TypeOK, StoredInv, DownInv, RefreshInv, [Next]_vars PROVE RefreshInv'
<1> USE Constants
<1>1. ASSUME StartRefresh PROVE RefreshInv'
  BY <1>1, TodoTypes DEF StartRefresh, RefreshInv
<1>2. ASSUME pc' # "refresh", missed' = missed, faults' = 0 => faults = 0, session' = Null
      PROVE  RefreshInv'
  BY <1>2 DEF RefreshInv
<1>3. ASSUME Exit PROVE RefreshInv'
  BY <1>3 DEF Exit, RefreshInv
<1>4. ASSUME Fault, pc' # "refresh" PROVE RefreshInv'
  BY <1>4, FaultTypes DEF RefreshInv
<1>5. ASSUME UNCHANGED <<missed, session, panel, messages>>, faults' = 0 => faults = 0,
             \/ pc \in {"drain", "poll"} /\ pc' \in {"drain", "poll"}
             \/ UNCHANGED <<pc, todo>>
      PROVE  RefreshInv'
  BY <1>5 DEF RefreshInv, MessagesAreCurrent, PanelIsCurrent, LoadedIsCurrent, Current
<1>6. ASSUME NEW g \in Games \cup {Null}, NEW s \in Sessions \cup {Null}, Start(g, s) PROVE RefreshInv'
  <2>1. session = Null
    BY <1>6 DEF Start, DownInv
  <2>2. ASSUME StartFails PROVE RefreshInv'
    <3>1. pc' = "down"
      BY <1>6, <2>2 DEF Start, StartFails
    <3> QED
      BY <1>4, <2>2, <3>1 DEF StartFails
  <2> QED
    BY <1>1, <1>2, <1>4, <1>6, <2>1, <2>2 DEF Start, StartWithSession, StartWithGame, StartWithGames
<1>7. CASE \/ \E g \in Games : PickGame(g)
           \/ \E s \in Sessions : PickSession(s)
           \/ OpenFinder \/ AskContext \/ Quit \/ Refresh
  BY <1>1, <1>3, <1>5, <1>7 DEF PickGame, PickSession, OpenFinder, AskContext, Quit, Refresh, CallFails, Key
<1>8. CASE \/ MoveDown \/ MoveUp \/ Pop \/ \E c \in Letters : Push(c)
           \/ DismissError \/ CloseFinder
  BY <1>5, <1>8 DEF MoveDown, MoveUp, Pop, Push, DismissError, CloseFinder, FinderKey, Key
<1>9. CASE \/ \E g \in Games \cup {Null} : Configure("game", g)
           \/ \E s \in Sessions \cup {Null} : Configure("session", s)
           \/ DrainDone \/ Tick \/ UNCHANGED vars
  BY <1>5, <1>9 DEF Configure, DrainDone, Tick, vars, view
<1>10. CASE DrainEvent
  <2>1. \A i \in DOMAIN messages' : i \in DOMAIN messages /\ messages'[i].session = messages[i].session
    <3>1. messages \in Seq(Message)
      BY DEF TypeOK
    <3>2. CASE UNCHANGED messages
      BY <3>2
    <3>3. ASSUME NEW a, messages' = [messages EXCEPT ![a].text = Append(@, Head(events).turn)]
          PROVE  \A i \in DOMAIN messages' : i \in DOMAIN messages /\ messages'[i].session = messages[i].session
      <4>1. DOMAIN messages' = DOMAIN messages
        BY <3>1, <3>3
      <4>2. \A m \in Message : \A x : [m EXCEPT !.text = x].session = m.session
        BY DEF Message
      <4>3. \A i \in DOMAIN messages : messages[i] \in Message
        BY <3>1
      <4> QED
        BY <3>1, <3>3, <4>1, <4>2, <4>3
    <3> QED
      BY <1>10, <3>2, <3>3, DrainCases
  <2> QED
    BY <1>10, <2>1, DrainCases DEF RefreshInv, MessagesAreCurrent, PanelIsCurrent, LoadedIsCurrent, Current
<1>11. CASE RefreshMessages
  <2>1. session \in Sessions /\ todo # <<>> /\ todo \in Seq({"messages"} \cup Panels) /\ pc = "refresh"
        /\ Head(todo) = "messages" /\ todo' = Tail(todo) /\ UNCHANGED <<pc, session, panel>>
    BY <1>11 DEF RefreshMessages, TypeOK
  <2>2. \A p \in Panels : p \in ToSet(todo) => p \in ToSet(todo')
    BY <2>1, TailOfTodo
  <2>3. CASE messages' = stored[session] /\ UNCHANGED <<missed, faults>>
    <3>1. MessagesAreCurrent'
      BY <2>1, <2>3 DEF StoredInv, MessagesAreCurrent
    <3> QED
      BY <2>1, <2>2, <2>3, <3>1 DEF RefreshInv, PanelIsCurrent, Current
  <2>4. CASE Fault /\ missed' = TRUE
    BY <2>1, <2>4, FaultTypes DEF RefreshInv
  <2> QED
    BY <1>11, <2>3, <2>4 DEF RefreshMessages
<1>12. CASE RefreshPanel
  <2> DEFINE q == Head(todo)
  <2>1. todo # <<>> /\ todo \in Seq({"messages"} \cup Panels) /\ pc = "refresh" /\ q \in Panels
        /\ q # "messages" /\ todo' = Tail(todo) /\ UNCHANGED <<pc, session, messages>>
    BY <1>12 DEF RefreshPanel, TypeOK
  <2>2. \A x \in ToSet(todo) : x # q => x \in ToSet(todo')
    BY <2>1, TailOfTodo
  <2>3. CASE panel' = [panel EXCEPT ![q] = Current(q)] /\ UNCHANGED <<missed, faults>>
    <3>1. panel \in [Panels -> Sessions \cup Games \cup {Null}]
      BY DEF TypeOK
    <3> HIDE DEF q
    <3>2. \A p \in Panels : PanelIsCurrent(p)' <=> p = q \/ PanelIsCurrent(p)
      BY <2>1, <2>3, <3>1 DEF PanelIsCurrent, Current
    <3> QED
      BY <2>1, <2>2, <2>3, <3>2 DEF RefreshInv, MessagesAreCurrent
  <2>4. CASE Fault /\ missed' = TRUE
    BY <2>1, <2>4, FaultTypes DEF RefreshInv
  <2> QED
    BY <1>12, <2>3, <2>4 DEF RefreshPanel, Current
<1>13. CASE RefreshDone
  <2>1. ToSet(todo) = {}
    BY <1>13 DEF RefreshDone, ToSet
  <2> QED
    BY <1>13, <2>1 DEF RefreshDone, RefreshInv, MessagesAreCurrent, PanelIsCurrent, LoadedIsCurrent, Current
<1>14. ASSUME NEW t \in Turns, Send(t) PROVE RefreshInv'
  <2>1. /\ pc = "poll" /\ pc' = "drain" /\ UNCHANGED <<missed, session, panel, faults>>
        /\ messages' = messages \o <<User(t, session), Assistant(t, session, <<>>)>>
        /\ messages \in Seq(Message)
    BY <1>14 DEF Send, Key, TypeOK
  <2>2. MessagesAreCurrent => MessagesAreCurrent'
    <3> DEFINE more == <<User(t, session), Assistant(t, session, <<>>)>>
    <3>1. \A i \in DOMAIN more : more[i].session = session
      BY DEF User, Assistant
    <3>2. Len(more) = 2 /\ DOMAIN more = 1..2
      OBVIOUS
    <3>5. more \in Seq(Message)
      BY <1>14, MessageTypes DEF Send, MaySend, TypeOK
    <3>3. messages' = messages \o more
      BY <2>1
    <3> HIDE DEF more
    <3>4. \A i \in DOMAIN messages' : \/ i \in DOMAIN messages /\ messages'[i] = messages[i]
                                      \/ i - Len(messages) \in 1..2 /\ messages'[i] = more[i - Len(messages)]
      BY <2>1, <3>2, <3>3, <3>5, Concatenated
    <3> QED
      BY <2>1, <3>1, <3>2, <3>4 DEF MessagesAreCurrent
  <2> QED
    BY <2>1, <2>2, PartsOfLoaded DEF RefreshInv, PanelIsCurrent, LoadedIsCurrent, MessagesAreCurrent, Current
<1>15. ASSUME NEW t \in Turns, TurnStep(t) \/ BreakTurn(t) PROVE RefreshInv'
  <2>1. faults' = faults \/ faults' # 0
    BY <1>15, FaultTypes DEF TurnStep, StoreQuestion, SendDelta, StoreReply, Finish, BreakTurn
  <2> QED
    BY <1>5, <1>15, <2>1 DEF TurnStep, StoreQuestion, SendDelta, StoreReply, Finish, BreakTurn, ServerOnly, view
<1> QED
  BY <1>6, <1>7, <1>8, <1>9, <1>10, <1>11, <1>12, <1>13, <1>14, <1>15 DEF Next, LoopStep, RefreshStep

-----------------------------------------------------------------------------
(* The conversation: the open stream, its channel and the transcript.      *)

Conversation == TurnsInv /\ StreamInv /\ TranscriptInv /\ StoredInv

\* Which steps move the conversation at all.
LEMMA ConversationMoves ==
    ASSUME [Next]_vars
    PROVE  \/ UNCHANGED <<turn, events, streaming, messages, kept, stored>>
           \/ Exit /\ UNCHANGED stored
           \/ DrainEvent \/ RefreshMessages
           \/ \E t \in Turns : Send(t) \/ TurnStep(t) \/ BreakTurn(t)
<1>1. CASE \/ \E g \in Games \cup {Null}, s \in Sessions \cup {Null} : Start(g, s)
           \/ \E g \in Games : PickGame(g)
           \/ \E s \in Sessions : PickSession(s)
           \/ Quit \/ OpenFinder \/ AskContext
  BY <1>1 DEF Start, PickGame, PickSession, Quit, OpenFinder, AskContext, CallFails, server
<1>2. CASE \/ \E g \in Games \cup {Null} : Configure("game", g)
           \/ \E s \in Sessions \cup {Null} : Configure("session", s)
           \/ DrainDone \/ Tick \/ RefreshPanel \/ RefreshDone
           \/ MoveDown \/ MoveUp \/ Pop \/ \E c \in Letters : Push(c)
           \/ DismissError \/ CloseFinder \/ Refresh \/ UNCHANGED vars
  BY <1>2 DEF Configure, DrainDone, Tick, RefreshPanel, RefreshDone, MoveDown, MoveUp, Pop, Push,
     DismissError, CloseFinder, Refresh, FinderKey, vars, view, server
<1> QED
  BY <1>1, <1>2 DEF Next, LoopStep, RefreshStep

\* How a turn that moves changes the set of the open streams.
LEMMA ListeningOf ==
    ASSUME TypeOK, NEW t \in Turns, NEW r, turn' = [turn EXCEPT ![t] = r]
    PROVE  /\ turn'[t] = r /\ \A u \in Turns \ {t} : turn'[u] = turn[u]
           /\ Listening' = (Listening \ {t}) \cup
                  (IF r.phase \in {"sent", "asked", "answered"} /\ r.heard THEN {t} ELSE {})
  BY DEF TypeOK, Listening, Open

\* How an event that is sent, or taken, changes the places of the ends.
LEMMA EndsOfAppend ==
    ASSUME events \in Seq(Event), NEW e \in Event, events' = Append(events, e)
    PROVE  /\ Len(events') = Len(events) + 1 /\ Len(events) \in Nat
           /\ Ends' = Ends \cup (IF e.type # "delta" THEN {Len(events')} ELSE {})
           /\ \A i \in DOMAIN events' : \/ i \in DOMAIN events /\ events'[i] = events[i]
                                        \/ i = Len(events') /\ events'[i] = e
<1>1. /\ Len(events') = Len(events) + 1 /\ Len(events) \in Nat /\ DOMAIN events = 1..Len(events)
      /\ DOMAIN events' = 1..(Len(events) + 1)
  OBVIOUS
<1>2. /\ \A i \in DOMAIN events : i \in DOMAIN events' /\ events'[i] = events[i]
      /\ events'[Len(events) + 1] = e
  BY <1>1
<1> QED
  BY <1>1, <1>2 DEF Ends

\* The ends of streams in the event channel, after its first event is
\* drained.
LEMMA EndsOfTail ==
    ASSUME events \in Seq(Event), events # <<>>, events' = Tail(events)
    PROVE  /\ Len(events') = Len(events) - 1 /\ Len(events) \in Nat /\ Len(events) > 0
           /\ Head(events) = events[1] /\ 1 \in DOMAIN events
           /\ \A i \in DOMAIN events' : i + 1 \in DOMAIN events /\ events'[i] = events[i + 1]
           /\ Ends' = {i \in DOMAIN events' : i + 1 \in Ends}
<1>1. /\ Len(events') = Len(events) - 1 /\ Len(events) \in Nat /\ Len(events) > 0
      /\ Head(events) = events[1] /\ DOMAIN events = 1..Len(events)
      /\ DOMAIN events' = 1..(Len(events) - 1)
  OBVIOUS
<1>2. \A i \in DOMAIN events' : i + 1 \in DOMAIN events /\ events'[i] = events[i + 1]
  BY <1>1
<1> QED
  BY <1>1, <1>2 DEF Ends

\* The stream of an open turn that is heard is the one the client waits for.
LEMMA HeardIsAwaited ==
    ASSUME StreamInv, NEW t \in Turns, t \in Listening
    PROVE  streaming /\ Stream(t) /\ Listening = {t} /\ Ends = {} /\ (kept => Growing(t))
<1>1. PICK c \in Turns : streaming /\ Stream(c) /\ (kept => Growing(c))
  BY DEF StreamInv
<1>2. c = t
  BY <1>1 DEF Stream
<1> QED
  BY <1>1, <1>2 DEF Stream

\* A turn that moves and says nothing, on a stream or past its end.
LEMMA QuietStep ==
    ASSUME TypeOK, Conversation, NEW t \in Turns, NEW r \in Turn, turn' = [turn EXCEPT ![t] = r],
           turn[t].phase \in {"sent", "asked", "answered"}, r.phase # "none",
           r.phase = "done" => turn[t].phase = "answered",
           r.phase = "answered" => r.sent = Deltas,
           turn[t].sent <= r.sent, r.heard = turn[t].heard,
           turn[t].heard => r.phase \in {"sent", "asked", "answered"} /\ r.sent = turn[t].sent,
           UNCHANGED <<events, streaming, messages, kept>>
    PROVE  TurnsInv' /\ StreamInv' /\ TranscriptInv'
<1>1. /\ turn'[t] = r /\ \A u \in Turns \ {t} : turn'[u] = turn[u]
      /\ Listening' = Listening
  <2>1. t \in Listening <=> turn[t].heard
    BY DEF Listening, Open
  <2>2. /\ turn'[t] = r /\ \A u \in Turns \ {t} : turn'[u] = turn[u]
        /\ Listening' = (Listening \ {t}) \cup
               (IF r.phase \in {"sent", "asked", "answered"} /\ r.heard THEN {t} ELSE {})
    BY ListeningOf
  <2>3. CASE turn[t].heard
    BY <2>1, <2>2, <2>3
  <2>4. CASE ~turn[t].heard
    BY <2>1, <2>2, <2>4
  <2> QED
    BY <2>2, <2>3, <2>4 DEF TypeOK, Turn
<1>2. Ends' = Ends
  BY DEF Ends
<1>3. TurnsInv'
  <2>1. r.phase = "done" => r.sent = Deltas
    <3>1. r.phase = "done" => turn[t].sent = Deltas
      BY DEF Conversation, TurnsInv
    <3> QED
      BY <3>1, Constants DEF Turn
  <2> QED
    BY <1>1, <2>1 DEF Conversation, TurnsInv
<1>4. ASSUME NEW c \in Turns, Stream(c) PROVE Stream(c)'
  BY <1>1, <1>2, <1>4 DEF Stream
<1>5. ASSUME NEW c \in Turns, Stream(c), Growing(c) PROVE Growing(c)'
  <2>1. CASE c # t
    BY <1>1, <1>2, <1>5, <2>1 DEF Growing
  <2>2. CASE c = t /\ turn[t].heard
    BY <1>1, <1>2, <1>5, <2>2 DEF Growing
  <2>3. CASE c = t /\ ~turn[t].heard
    <3>1. Ends # {}
      BY <1>5, <2>3 DEF Stream, Listening, Open
    <3> DEFINE text == Len(messages[Len(messages)].text)
               n == Len(events)
    <3>2. text \in Nat /\ n \in Nat /\ turn[t].sent \in Nat /\ r.sent \in Nat
      <4>1. messages[Len(messages)] \in Message /\ turn[t] \in Turn /\ events \in Seq(Event)
        BY <1>5 DEF Growing, TypeOK
      <4>2. messages[Len(messages)].text \in Seq(Turns)
        BY <4>1 DEF Message
      <4>3. turn[t].sent \in 0..Deltas /\ r.sent \in 0..Deltas
        BY <4>1 DEF Turn
      <4> QED
        BY <4>1, <4>2, <4>3, Constants
    <3>3. text + n <= turn[t].sent + 1
      BY <1>5, <2>3, <3>1 DEF Growing
    <3>4. text + n <= r.sent + 1
      BY <3>2, <3>3
    <3> QED
      BY <1>1, <1>2, <1>5, <2>3, <3>1, <3>4 DEF Growing
  <2> QED
    BY <2>1, <2>2, <2>3
<1>6. StreamInv'
  BY <1>1, <1>4, <1>5 DEF Conversation, StreamInv
<1>7. TranscriptInv'
  <2>1. \A u \in Turns : turn'[u].phase = "none" => turn[u].phase = "none"
    BY <1>1
  <2>2. \A u \in Turns : turn'[u].phase = "done" /\ turn'[u].heard => turn[u].phase = "done" /\ turn[u].heard
    BY <1>1
  <2>3. \A i \in DOMAIN messages : messages[i].turn \in Turns
    <3>1. \A i \in DOMAIN messages : messages[i] \in Message
      BY DEF TypeOK
    <3> QED
      BY <3>1 DEF Message
  <2> QED
    BY <2>1, <2>2, <2>3 DEF Conversation, TranscriptInv, OwnDeltas, WholeAt
<1> QED
  BY <1>3, <1>6, <1>7

\* What is counted of a stream is counted in numbers.
LEMMA Counted ==
    ASSUME TypeOK, NEW t \in Turns, Growing(t)
    PROVE  /\ Len(messages) \in Nat /\ Len(messages) \in DOMAIN messages
           /\ messages[Len(messages)] \in Message /\ messages[Len(messages)].text \in Seq(Turns)
           /\ Len(messages[Len(messages)].text) \in Nat
           /\ Len(events) \in Nat /\ turn[t].sent \in 0..Deltas /\ turn[t] \in Turn
<1>1. messages \in Seq(Message) /\ turn[t] \in Turn /\ events \in Seq(Event) /\ Len(messages) > 0
  BY DEF Growing, TypeOK
<1>2. messages[Len(messages)] \in Message /\ Len(messages) \in DOMAIN messages
  BY <1>1
<1>3. messages[Len(messages)].text \in Seq(Turns)
  BY <1>2 DEF Message
<1>4. turn[t].sent \in 0..Deltas
  BY <1>1 DEF Turn
<1> QED
  BY <1>1, <1>2, <1>3, <1>4

\* A turn that is heard sends a delta, or the end of its stream.
LEMMA SpeakingStep ==
    ASSUME TypeOK, Conversation, NEW t \in Turns, NEW r \in Turn, turn' = [turn EXCEPT ![t] = r],
           NEW type \in {"delta", "complete", "failed"}, Emit(t, type),
           turn[t].phase \in {"sent", "asked", "answered"}, turn[t].heard,
           \/ type = "delta" /\ r.heard /\ r.phase = turn[t].phase /\ r.phase = "asked" /\ r.sent = turn[t].sent + 1
           \/ type = "complete" /\ r.heard /\ r.phase = "done" /\ turn[t].phase = "answered" /\ r.sent = turn[t].sent
           \/ type = "failed" /\ r.phase = "failed" /\ r.sent = turn[t].sent
           \/ type = "failed" /\ ~r.heard /\ r.phase = turn[t].phase /\ r.sent = turn[t].sent,
           UNCHANGED <<streaming, messages, kept>>
    PROVE  TurnsInv' /\ StreamInv' /\ TranscriptInv'
<1> DEFINE e == [type |-> type, turn |-> t]
<1>1. e \in Event /\ e.type = type /\ e.turn = t /\ events \in Seq(Event) /\ events' = Append(events, e)
  BY DEF Event, TypeOK, Emit
<1>2. t \in Listening
  BY DEF Listening, Open
<1>3. streaming /\ Stream(t) /\ Listening = {t} /\ Ends = {} /\ (kept => Growing(t))
  BY <1>2, HeardIsAwaited DEF Conversation
<1>4. /\ turn'[t] = r /\ \A u \in Turns \ {t} : turn'[u] = turn[u]
      /\ Listening' = IF type = "delta" THEN {t} ELSE {}
  <2>1. /\ turn'[t] = r /\ \A u \in Turns \ {t} : turn'[u] = turn[u]
        /\ Listening' = (Listening \ {t}) \cup
               (IF r.phase \in {"sent", "asked", "answered"} /\ r.heard THEN {t} ELSE {})
    BY ListeningOf
  <2> QED
    BY <1>3, <2>1
<1> HIDE DEF e
<1>5. /\ Len(events') = Len(events) + 1 /\ Len(events) \in Nat
      /\ Ends' = IF type = "delta" THEN {} ELSE {Len(events')}
      /\ \A i \in DOMAIN events' : \/ i \in DOMAIN events /\ events'[i] = events[i]
                                   \/ i = Len(events') /\ events'[i] = e
  BY <1>1, <1>3, EndsOfAppend
<1>6. Stream(t)'
  <2>1. \A i \in DOMAIN events : events[i].turn = t /\ events[i].type # "complete"
    BY <1>3 DEF Stream
  <2>2. turn'[t].phase # "none" /\ (type = "complete" => turn'[t].phase = "done")
    BY <1>4
  <2> QED
    BY <1>1, <1>4, <1>5, <2>1, <2>2 DEF Stream
<1>7. ASSUME kept PROVE Growing(t)'
  <2>1. Growing(t)
    BY <1>3, <1>7
  <2> DEFINE text == Len(messages[Len(messages)].text)
  <2>2. text \in Nat /\ turn[t].sent \in 0..Deltas /\ Deltas \in Nat
    BY <2>1, Counted, Constants
  <2>3. text + Len(events) = turn[t].sent
    BY <1>3, <2>1 DEF Growing
  <2> HIDE DEF text
  <2>4. /\ type = "delta" => Ends' = {} /\ text + Len(events') = r.sent
        /\ type # "delta" => Ends' # {} /\ text + Len(events') = r.sent + 1
    BY <1>5, <2>2, <2>3
  <2>5. text' = text
    BY DEF text
  <2>6. r.sent \in 0..Deltas
    BY DEF Turn
  <2>7. text + Len(events') <= r.sent + 1
    BY <1>5, <2>2, <2>4, <2>6
  <2> QED
    BY <1>4, <2>1, <2>4, <2>5, <2>7 DEF Growing, text
<1>8. TurnsInv'
  <2>1. r.phase \in {"answered", "done"} => r.sent = Deltas
    BY DEF Conversation, TurnsInv
  <2> QED
    BY <1>4, <2>1 DEF Conversation, TurnsInv
<1>9. StreamInv'
  BY <1>3, <1>6, <1>7 DEF StreamInv
<1>10. TranscriptInv'
  <2> SUFFICES ASSUME kept, NEW i \in DOMAIN messages, messages[i].role = "assistant"
               PROVE  OwnDeltas(messages[i])' /\ WholeAt(i)'
    BY DEF TranscriptInv
  <2>1. OwnDeltas(messages[i]) /\ WholeAt(i) /\ messages[i].turn \in Turns
    <3>1. messages[i] \in Message
      BY DEF TypeOK
    <3> QED
      BY <3>1 DEF Conversation, TranscriptInv, Message
  <2>2. OwnDeltas(messages[i])'
    BY <1>4, <2>1 DEF OwnDeltas
  <2>3. CASE messages[i].turn # t
    BY <1>4, <2>1, <2>2, <2>3 DEF WholeAt
  <2>4. CASE messages[i].turn = t
    <3>1. Growing(t) /\ Len(messages) \in Nat /\ DOMAIN messages = 1..Len(messages)
      BY <1>3 DEF TypeOK
    <3>2. i = Len(messages)
      BY <2>4, <3>1 DEF Growing
    <3> QED
      BY <1>3, <2>2, <3>2 DEF WholeAt
  <2> QED
    BY <2>3, <2>4
<1> QED
  BY <1>8, <1>9, <1>10

\* A turn keeps to what it was sent for; what it stores is its own.
LEMMA TurnStepKeeps ==
    ASSUME TypeOK, Conversation, NEW t \in Turns, TurnStep(t) \/ BreakTurn(t)
    PROVE  TurnsInv' /\ StreamInv' /\ TranscriptInv'
<1>1. turn \in [Turns -> Turn] /\ turn[t] \in Turn
  BY DEF TypeOK
<1>7. turn[t].sent \in Int
  BY <1>1, Constants DEF Turn
<1>2. UNCHANGED <<streaming, messages, kept>>
  BY DEF TurnStep, StoreQuestion, SendDelta, StoreReply, Finish, BreakTurn, ServerOnly, view
<1>3. CASE StoreQuestion(t) \/ StoreReply(t)
  <2>1. PICK p \in {"asked", "answered"} :
          /\ turn' = [turn EXCEPT ![t] = [@ EXCEPT !.phase = p]] /\ UNCHANGED events
          /\ turn[t].phase \in {"sent", "asked"} /\ (p = "answered" => turn[t].sent = Deltas)
    BY <1>3 DEF StoreQuestion, StoreReply
  <2> DEFINE r == [turn[t] EXCEPT !.phase = p]
  <2>2. r \in Turn /\ r.phase = p /\ r.sent = turn[t].sent /\ r.heard = turn[t].heard
    BY <1>1 DEF Turn
  <2>3. turn' = [turn EXCEPT ![t] = r]
    BY <2>1
  <2> HIDE DEF r
  <2>4. /\ r.phase # "none" /\ (r.phase = "done" => turn[t].phase = "answered")
        /\ r.phase = "answered" => r.sent = Deltas
        /\ turn[t].sent <= r.sent
        /\ turn[t].heard => r.phase \in {"sent", "asked", "answered"} /\ r.sent = turn[t].sent
    BY <1>7, <2>1, <2>2
  <2> QED
    BY <1>2, <2>1, <2>2, <2>3, <2>4, QuietStep
<1>4. CASE SendDelta(t)
  <2> DEFINE r == [turn[t] EXCEPT !.sent = turn[t].sent + 1]
  <2>1. /\ turn' = [turn EXCEPT ![t] = r] /\ turn[t].phase = "asked" /\ turn[t].sent < Deltas
        /\ Emit(t, "delta")
    BY <1>4 DEF SendDelta
  <2>2. r \in Turn
    BY <1>1, <2>1, TurnTypes
  <2>3. r.phase = turn[t].phase /\ r.sent = turn[t].sent + 1 /\ r.heard = turn[t].heard
    BY <1>1 DEF Turn
  <2> HIDE DEF r
  <2>4. CASE turn[t].heard
    BY <1>2, <2>1, <2>2, <2>3, <2>4, SpeakingStep
  <2>5. CASE ~turn[t].heard
    <3>1. UNCHANGED events
      BY <2>1, <2>5 DEF Emit
    <3>2. /\ r.phase # "none" /\ (r.phase = "done" => turn[t].phase = "answered")
          /\ r.phase = "answered" => r.sent = Deltas
          /\ turn[t].sent <= r.sent /\ turn[t].phase \in {"sent", "asked", "answered"}
      BY <1>7, <2>1, <2>3
    <3> QED
      BY <1>2, <2>1, <2>2, <2>3, <2>5, <3>1, <3>2, QuietStep
  <2> QED
    BY <2>4, <2>5
<1>5. CASE Finish(t)
  <2> DEFINE r == [turn[t] EXCEPT !.phase = "done"]
  <2>1. turn' = [turn EXCEPT ![t] = r] /\ turn[t].phase = "answered" /\ Emit(t, "complete")
    BY <1>5 DEF Finish
  <2>2. r \in Turn /\ r.phase = "done" /\ r.sent = turn[t].sent /\ r.heard = turn[t].heard
    BY <1>1 DEF Turn
  <2> HIDE DEF r
  <2>3. CASE turn[t].heard
    BY <1>2, <2>1, <2>2, <2>3, SpeakingStep
  <2>4. CASE ~turn[t].heard
    <3>1. UNCHANGED events
      BY <2>1, <2>4 DEF Emit
    <3>2. /\ r.phase # "none" /\ (r.phase = "answered" => r.sent = Deltas)
          /\ turn[t].sent <= r.sent /\ turn[t].phase \in {"sent", "asked", "answered"}
      BY <1>7, <2>1, <2>2
    <3> QED
      BY <1>2, <2>1, <2>2, <2>4, <3>1, <3>2, QuietStep
  <2> QED
    BY <2>3, <2>4
<1>6. CASE BreakTurn(t)
  <2>1. turn[t].phase \in {"sent", "asked", "answered"} /\ Emit(t, "failed")
    BY <1>6 DEF BreakTurn, Open
  <2>2. CASE turn' = [turn EXCEPT ![t].phase = "failed"]
    <3> DEFINE r == [turn[t] EXCEPT !.phase = "failed"]
    <3>1. r \in Turn /\ r.phase = "failed" /\ r.sent = turn[t].sent /\ r.heard = turn[t].heard
      BY <1>1 DEF Turn
    <3>2. turn' = [turn EXCEPT ![t] = r]
      BY <2>2
    <3> HIDE DEF r
    <3>3. CASE turn[t].heard
      BY <1>2, <2>1, <3>1, <3>2, <3>3, SpeakingStep
    <3>4. CASE ~turn[t].heard
      <4>1. UNCHANGED events
        BY <2>1, <3>4 DEF Emit
      <4>2. /\ r.phase # "none" /\ (r.phase = "answered" => r.sent = Deltas)
            /\ r.phase # "done" /\ turn[t].sent <= r.sent
        BY <1>7, <3>1
      <4> QED
        BY <1>2, <2>1, <3>1, <3>2, <3>4, <4>1, <4>2, QuietStep
    <3> QED
      BY <3>3, <3>4
  <2>3. CASE turn[t].heard /\ turn' = [turn EXCEPT ![t].heard = FALSE]
    <3> DEFINE r == [turn[t] EXCEPT !.heard = FALSE]
    <3>1. r \in Turn /\ r.phase = turn[t].phase /\ r.sent = turn[t].sent /\ ~r.heard
      BY <1>1 DEF Turn
    <3>2. turn' = [turn EXCEPT ![t] = r]
      BY <2>3
    <3> HIDE DEF r
    <3> QED
      BY <1>2, <2>1, <2>3, <3>1, <3>2, SpeakingStep
  <2> QED
    BY <1>6, <2>2, <2>3 DEF BreakTurn
<1> QED
  BY <1>3, <1>4, <1>5, <1>6 DEF TurnStep

\* A message that is sent opens the one stream there is.
LEMMA SendKeeps ==
    ASSUME TypeOK, Conversation, NEW t \in Turns, Send(t)
    PROVE  TurnsInv' /\ StreamInv' /\ TranscriptInv'
<1> DEFINE r == [phase |-> "sent", session |-> session, sent |-> 0, heard |-> TRUE]
           more == <<User(t, session), Assistant(t, session, <<>>)>>
<1>1. /\ ~streaming /\ turn[t].phase = "none" /\ streaming' = TRUE
      /\ turn' = [turn EXCEPT ![t] = r] /\ messages' = messages \o more
      /\ UNCHANGED <<events, kept>> /\ session \in Sessions /\ messages \in Seq(Message)
  BY DEF Send, MaySend, TypeOK
<1>2. r.phase = "sent" /\ r.sent = 0 /\ r.heard
  OBVIOUS
<1>3. more \in Seq(Message) /\ Len(more) = 2 /\ DOMAIN more = 1..2
  BY <1>1, MessageTypes
<1>4. /\ more[1].role = "user" /\ more[2].role = "assistant" /\ more[2].turn = t
      /\ more[2].text = <<>>
  BY DEF User, Assistant
<1>5. Listening = {} /\ events = <<>>
  BY <1>1 DEF Conversation, StreamInv
<1> HIDE DEF r, more
<1>6. turn'[t] = r /\ (\A u \in Turns \ {t} : turn'[u] = turn[u]) /\ Listening' = {t}
  BY <1>1, <1>2, <1>5, ListeningOf
<1>7. Ends' = {} /\ Len(events') = 0
  BY <1>1, <1>5 DEF Ends
<1>8. Stream(t)'
  BY <1>1, <1>2, <1>5, <1>6, <1>7 DEF Stream
<1>9. /\ Len(messages) \in Nat /\ Len(messages') = Len(messages) + 2
      /\ messages'[Len(messages')] = more[2]
      /\ DOMAIN messages = 1..Len(messages) /\ DOMAIN messages' = 1..(Len(messages) + 2)
  <2>1. Len(messages) \in Nat /\ DOMAIN messages = 1..Len(messages)
    BY <1>1
  <2>2. messages' \in Seq(Message) /\ Len(messages') = Len(messages) + 2
    <3>1. \A a, b \in Seq(Message) : a \o b \in Seq(Message) /\ Len(a \o b) = Len(a) + Len(b)
      OBVIOUS
    <3> QED
      BY <1>1, <1>3, <3>1
  <2>3. Len(messages) + 2 \in DOMAIN (messages \o more)
    BY <1>1, <2>1, <2>2
  <2>4. (Len(messages) + 2) - Len(messages) = 2 /\ Len(messages) + 2 \notin DOMAIN messages
    BY <2>1
  <2>5. messages'[Len(messages) + 2] = more[2]
    BY <1>1, <1>3, <2>3, <2>4, Concatenated
  <2> QED
    BY <2>1, <2>2, <2>5
<1>10. \A i \in DOMAIN messages' : \/ i \in DOMAIN messages /\ messages'[i] = messages[i]
                                   \/ i = Len(messages) + 1 /\ messages'[i] = more[1]
                                   \/ i = Len(messages) + 2 /\ messages'[i] = more[2]
  <2> SUFFICES ASSUME NEW i \in DOMAIN messages'
               PROVE  \/ i \in DOMAIN messages /\ messages'[i] = messages[i]
                      \/ i = Len(messages) + 1 /\ messages'[i] = more[1]
                      \/ i = Len(messages) + 2 /\ messages'[i] = more[2]
    OBVIOUS
  <2>1. \/ i \in DOMAIN messages /\ messages'[i] = messages[i]
        \/ i - Len(messages) \in 1..2 /\ messages'[i] = more[i - Len(messages)]
    BY <1>1, <1>3, Concatenated
  <2>2. CASE i - Len(messages) = 1 /\ messages'[i] = more[i - Len(messages)]
    BY <1>9, <2>2
  <2>3. CASE i - Len(messages) = 2 /\ messages'[i] = more[i - Len(messages)]
    BY <1>9, <2>3
  <2> QED
    BY <1>9, <2>1, <2>2, <2>3
<1>11. \A i \in DOMAIN messages : messages[i].turn \in Turns
  <2>1. \A i \in DOMAIN messages : messages[i] \in Message
    BY <1>1
  <2> QED
    BY <2>1 DEF Message
<1>12. ASSUME kept, NEW i \in DOMAIN messages, messages[i].role = "assistant"
       PROVE  messages[i].turn # t /\ OwnDeltas(messages[i]) /\ WholeAt(i)
  BY <1>1, <1>12 DEF Conversation, TranscriptInv, OwnDeltas
<1>13. ASSUME kept PROVE Growing(t)'
  <2>1. /\ Len(messages') > 0 /\ messages'[Len(messages')].role = "assistant"
        /\ messages'[Len(messages')].turn = t /\ Len(messages'[Len(messages')].text) = 0
    BY <1>4, <1>9
  <2>2. \A i \in 1..(Len(messages') - 1) : messages'[i].role = "assistant" => messages'[i].turn # t
    BY <1>4, <1>9, <1>10, <1>12, <1>13
  <2> QED
    BY <1>2, <1>6, <1>7, <2>1, <2>2 DEF Growing
<1>14. TurnsInv'
  BY <1>2, <1>6 DEF Conversation, TurnsInv
<1>15. StreamInv'
  BY <1>1, <1>8, <1>13 DEF StreamInv
<1>16. TranscriptInv'
  <2> SUFFICES ASSUME kept, NEW i \in DOMAIN messages', messages'[i].role = "assistant"
               PROVE  OwnDeltas(messages[i])' /\ WholeAt(i)'
    BY <1>1 DEF TranscriptInv
  <2>1. CASE i \in DOMAIN messages /\ messages'[i] = messages[i]
    <3>1. turn'[messages[i].turn] = turn[messages[i].turn] /\ OwnDeltas(messages[i]) /\ WholeAt(i)
      BY <1>6, <1>11, <1>12, <2>1
    <3> QED
      BY <1>1, <2>1, <3>1 DEF OwnDeltas, WholeAt
  <2>2. CASE messages'[i] = more[2]
    <3>1. Len(<<>>) = 0 /\ DOMAIN <<>> = {} /\ Deltas >= 0
      BY Constants
    <3> QED
      BY <1>2, <1>4, <1>6, <2>2, <3>1 DEF OwnDeltas, WholeAt
  <2> QED
    BY <1>4, <1>10, <2>1, <2>2
<1> QED
  BY <1>14, <1>15, <1>16

\* The last message is the last assistant message if it is one.
LEMMA LastOne ==
    ASSUME NEW ms \in Seq(Message), Len(ms) > 0, ms[Len(ms)].role = "assistant"
    PROVE  LastAssistant(ms) = Len(ms)
<1> DEFINE places == {i \in 1..Len(ms) : ms[i].role = "assistant"}
<1>1. Len(ms) \in places /\ \A y \in places : Len(ms) >= y
  OBVIOUS
<1>2. \A x \in places : (\A y \in places : x >= y) => x = Len(ms)
  BY <1>1
<1>3. Max(places) = Len(ms)
  BY <1>1, <1>2 DEF Max
<1> QED
  BY <1>1, <1>3 DEF LastAssistant, SelectLastInSeq

\* An event that is drained grows the last message, or ends the stream.
LEMMA DrainKeeps ==
    ASSUME TypeOK, Conversation, DrainEvent
    PROVE  TurnsInv' /\ StreamInv' /\ TranscriptInv'
<1>1. /\ events # <<>> /\ events' = Tail(events) /\ Head(events) \in Event
      /\ UNCHANGED <<turn, kept>> /\ messages \in Seq(Message) /\ events \in Seq(Event)
  BY DrainCases DEF TypeOK
<1>2. PICK c \in Turns : streaming /\ Stream(c) /\ (kept => Growing(c))
  BY <1>1 DEF Conversation, StreamInv
<1>3. /\ Len(events') = Len(events) - 1 /\ Len(events) \in Nat /\ Len(events) > 0
      /\ Head(events) = events[1] /\ 1 \in DOMAIN events
      /\ \A i \in DOMAIN events' : i + 1 \in DOMAIN events /\ events'[i] = events[i + 1]
      /\ Ends' = {i \in DOMAIN events' : i + 1 \in Ends}
  BY <1>1, EndsOfTail
<1>4. Listening' = Listening /\ TurnsInv'
  BY <1>1 DEF Listening, Open, Conversation, TurnsInv
<1>5. Head(events).turn = c
  BY <1>2, <1>3 DEF Stream
<1>6. DOMAIN events' = 1..(Len(events) - 1) /\ DOMAIN events = 1..Len(events)
  BY <1>1, <1>3
<1>7. CASE Head(events).type = "delta"
  <2>1. /\ UNCHANGED streaming
        /\ messages' = IF LastAssistant(messages) = 0 THEN messages
                       ELSE [messages EXCEPT ![LastAssistant(messages)].text = Append(@, Head(events).turn)]
    BY <1>7, DrainCases
  <2>2. 1 \notin Ends
    BY <1>3, <1>7 DEF Ends
  <2>3. /\ Ends = {} => Ends' = {}
        /\ Ends = {Len(events)} => Ends' = {Len(events')} /\ Len(events') > 0
    BY <1>3, <1>6, <2>2
  <2>4. Stream(c)'
    <3>1. \A i \in DOMAIN events' : events'[i].turn = c /\ (events'[i].type = "complete" => turn'[c].phase = "done")
      BY <1>1, <1>2, <1>3 DEF Stream
    <3> QED
      BY <1>1, <1>2, <1>4, <2>3, <3>1 DEF Stream
  <2>5. ASSUME kept PROVE Growing(c)' /\ TranscriptInv'
    <3> DEFINE n == Len(messages)
               text == messages[n].text
    <3>1. Growing(c) /\ n \in DOMAIN messages /\ messages[n] \in Message /\ text \in Seq(Turns)
          /\ Len(text) \in Nat /\ turn[c].sent \in 0..Deltas /\ Deltas \in Nat /\ n \in Nat
      BY <1>2, <2>5, Counted, Constants
    <3>2. LastAssistant(messages) = n /\ n # 0 /\ n > 0
      BY <1>1, <3>1, LastOne DEF Growing
    <3>3. messages' = [messages EXCEPT ![n].text = Append(text, c)]
      BY <1>5, <2>1, <3>2
    <3>4. /\ DOMAIN messages' = DOMAIN messages /\ Len(messages') = n
          /\ \A i \in DOMAIN messages : i # n => messages'[i] = messages[i]
          /\ messages'[n] = [messages[n] EXCEPT !.text = Append(text, c)]
      BY <1>1, <3>1, <3>3
    <3>5. /\ messages'[n].text = Append(text, c) /\ messages'[n].role = "assistant" /\ messages'[n].turn = c
      BY <3>1, <3>4 DEF Message, Growing
    <3>6. Len(Append(text, c)) = Len(text) + 1 /\ DOMAIN text = 1..Len(text)
          /\ \A j \in DOMAIN Append(text, c) : \/ j \in DOMAIN text /\ Append(text, c)[j] = text[j]
                                               \/ Append(text, c)[j] = c
      BY <3>1
    <3>7. Ends' = {} <=> Ends = {}
      BY <1>2, <2>3 DEF Stream
    <3> HIDE DEF n, text
    <3>8. Growing(c)'
      <4>1. Len(Append(text, c)) + Len(events') = Len(text) + Len(events)
        BY <1>3, <3>1, <3>6
      <4>2. \A i \in 1..(n - 1) : messages'[i].role = "assistant" => messages'[i].turn # c
        <5>1. \A i \in 1..(n - 1) : i \in DOMAIN messages /\ i # n
          BY <1>1, <3>1 DEF n
        <5> QED
          BY <3>1, <3>4, <5>1 DEF Growing, n
      <4> QED
        BY <1>1, <3>1, <3>2, <3>4, <3>5, <3>7, <4>1, <4>2 DEF Growing, n, text
    <3>9. OwnDeltas(messages[n])'
      <4>1. Len(text) + Len(events) <= turn[c].sent + 1 /\ (Ends = {} => Len(text) + Len(events) = turn[c].sent)
        BY <1>3, <3>1 DEF Growing, n, text
      <4>2. Ends # {} => Len(events) >= 2
        BY <1>2, <1>3, <2>3 DEF Stream
      <4>3. Len(Append(text, c)) <= Deltas
        BY <1>3, <3>1, <3>6, <4>1, <4>2
      <4>4. \A j \in DOMAIN text : text[j] = c
        BY <1>1, <2>5, <3>1 DEF Conversation, TranscriptInv, OwnDeltas, Growing, n, text
      <4>5. turn'[c].phase # "none"
        BY <1>1, <1>2 DEF Stream
      <4> QED
        BY <3>4, <3>5, <3>6, <4>3, <4>4, <4>5 DEF OwnDeltas, n
    <3>10. TranscriptInv'
      <4> SUFFICES ASSUME NEW i \in DOMAIN messages', messages'[i].role = "assistant"
                   PROVE  OwnDeltas(messages[i])' /\ WholeAt(i)'
        BY DEF TranscriptInv
      <4>1. CASE i = n
        BY <1>2, <2>1, <3>4, <3>9, <4>1 DEF WholeAt, n
      <4>2. CASE i # n
        <5>1. messages'[i] = messages[i] /\ i \in DOMAIN messages
          BY <3>4, <4>2
        <5>2. OwnDeltas(messages[i]) /\ WholeAt(i)
          BY <2>5, <5>1 DEF Conversation, TranscriptInv
        <5> QED
          BY <1>1, <4>2, <5>1, <5>2 DEF OwnDeltas, WholeAt, n
      <4> QED
        BY <4>1, <4>2
    <3> QED
      BY <3>8, <3>10
  <2> QED
    BY <1>1, <1>2, <1>4, <2>1, <2>4, <2>5 DEF StreamInv, TranscriptInv
<1>8. CASE Head(events).type # "delta"
  <2>1. streaming' = FALSE /\ UNCHANGED messages
    BY <1>8, DrainCases
  <2>2. 1 \in Ends
    BY <1>3, <1>8 DEF Ends
  <2>3. Listening = {} /\ Ends = {Len(events)} /\ Len(events) = 1 /\ Ends # {}
    BY <1>2, <2>2 DEF Stream
  <2>4. events' = <<>>
    BY <1>1, <1>3, <2>3
  <2>5. StreamInv'
    BY <1>4, <2>1, <2>3, <2>4 DEF StreamInv
  <2>6. ASSUME kept PROVE TranscriptInv'
    <3> DEFINE n == Len(messages)
    <3>1. /\ Growing(c) /\ Len(messages[n].text) \in Nat /\ turn[c].sent \in 0..Deltas /\ Deltas \in Nat
          /\ messages[n].turn = c
      BY <1>2, <2>6, Counted, Constants DEF Growing
    <3>2. turn[c].heard /\ turn[c].phase = "done" => Len(messages[n].text) = Deltas
      <4>1. turn[c].heard => Len(messages[n].text) + Len(events) = turn[c].sent + 1
        BY <2>3, <3>1 DEF Growing
      <4>2. turn[c].phase = "done" => turn[c].sent = Deltas
        BY DEF Conversation, TurnsInv
      <4> QED
        BY <2>3, <3>1, <4>1, <4>2
    <3> SUFFICES ASSUME NEW i \in DOMAIN messages, messages[i].role = "assistant"
                 PROVE  OwnDeltas(messages[i])' /\ WholeAt(i)'
      BY <2>1 DEF TranscriptInv
    <3>3. OwnDeltas(messages[i]) /\ WholeAt(i)
      BY <2>6 DEF Conversation, TranscriptInv
    <3> QED
      BY <1>1, <2>1, <3>1, <3>2, <3>3 DEF OwnDeltas, WholeAt
  <2> QED
    BY <1>1, <1>4, <2>5, <2>6 DEF TranscriptInv
<1> QED
  BY <1>7, <1>8

\* A transcript that is reloaded holds whole replies, but is trusted only when no
\* stream is open.
LEMMA RefreshKeeps ==
    ASSUME TypeOK, Conversation, RefreshMessages
    PROVE  TurnsInv' /\ StreamInv' /\ TranscriptInv'
<1>1. UNCHANGED <<turn, events, streaming>> /\ session \in Sessions
  BY DEF RefreshMessages, server, TypeOK
<1>2. /\ Listening' = Listening /\ Ends' = Ends /\ TurnsInv'
      /\ \A c \in Turns : Stream(c)' <=> Stream(c)
  BY <1>1 DEF Listening, Open, Ends, Stream, Conversation, TurnsInv
<1>3. CASE UNCHANGED <<messages, kept>>
  BY <1>1, <1>2, <1>3 DEF Conversation, StreamInv, TranscriptInv, Growing, OwnDeltas, WholeAt
<1>4. CASE messages' = stored[session] /\ kept' = ~streaming
  <2>1. StreamInv'
    BY <1>1, <1>2, <1>4 DEF Conversation, StreamInv
  <2>2. TranscriptInv'
    <3> SUFFICES ASSUME kept', NEW i \in DOMAIN messages', messages'[i].role = "assistant"
                 PROVE  OwnDeltas(messages[i])' /\ WholeAt(i)'
      BY DEF TranscriptInv
    <3> DEFINE m == stored[session][i]
    <3>1. m = messages'[i] /\ i \in DOMAIN stored[session] /\ stored[session] \in Seq(Message)
      BY <1>1, <1>4 DEF TypeOK
    <3>2. m \in Message /\ turn[m.turn].phase # "none" /\ m.text = WholeReply(m.turn)
      BY <1>1, <3>1 DEF Conversation, StoredInv
    <3> HIDE DEF m
    <3>3. Len(m.text) = Deltas /\ \A j \in DOMAIN m.text : m.text[j] = m.turn
      BY <3>2, Constants DEF WholeReply
    <3> QED
      BY <1>1, <3>1, <3>2, <3>3, Constants DEF OwnDeltas, WholeAt
  <2> QED
    BY <1>2, <2>1, <2>2
<1> QED
  BY <1>3, <1>4 DEF RefreshMessages

\* The process ends with its streams.
LEMMA ExitKeeps ==
    ASSUME TypeOK, Conversation, Exit PROVE TurnsInv' /\ StreamInv' /\ TranscriptInv'
<1>1. \A t \in Turns : turn'[t] = [turn[t] EXCEPT !.heard = FALSE] /\ turn[t] \in Turn
  BY DEF Exit, TypeOK
<1>2. \A t \in Turns : turn'[t].phase = turn[t].phase /\ turn'[t].sent = turn[t].sent /\ ~turn'[t].heard
  BY <1>1 DEF Turn
<1>3. Listening' = {} /\ events' = <<>> /\ streaming' = FALSE /\ messages' = <<>>
  BY <1>2 DEF Listening, Open, Exit
<1> QED
  BY <1>2, <1>3 DEF Conversation, TurnsInv, StreamInv, TranscriptInv

\* What is stored is whole and stays so.
LEMMA StoredKeeps ==
    ASSUME TypeOK, Conversation, [Next]_vars PROVE StoredInv'
<1>1. /\ stored \in [Sessions -> Seq(Message)] /\ turn \in [Turns -> Turn]
      /\ \A s \in Sessions : \A i \in DOMAIN stored[s] : stored[s][i].turn \in Turns
  <2>1. stored \in [Sessions -> Seq(Message)] /\ turn \in [Turns -> Turn]
    BY DEF TypeOK
  <2>2. \A s \in Sessions : \A i \in DOMAIN stored[s] : stored[s][i] \in Message
    BY <2>1
  <2> QED
    BY <2>1, <2>2 DEF Message
<1>2. ASSUME UNCHANGED stored, \A u \in Turns : turn'[u].phase = "none" => turn[u].phase = "none"
      PROVE  StoredInv'
  BY <1>1, <1>2 DEF Conversation, StoredInv
<1>3. ASSUME NEW t \in Turns, StoreQuestion(t) \/ StoreReply(t) PROVE StoredInv'
  <2> DEFINE s == turn[t].session
  <2>1. PICK m : /\ stored' = [stored EXCEPT ![s] = Append(@, m)]
                 /\ m \in {User(t, s), Assistant(t, s, WholeReply(t))}
    BY <1>3 DEF StoreQuestion, StoreReply
  <2>2. m.session = s /\ m.turn = t /\ (m.role = "assistant" => m.text = WholeReply(t))
    BY <2>1 DEF User, Assistant
  <2>3. turn'[t].phase # "none" /\ \A u \in Turns : turn'[u].phase = "none" => turn[u].phase = "none"
    <3>1. PICK p \in {"asked", "answered"} : turn' = [turn EXCEPT ![t] = [@ EXCEPT !.phase = p]]
      BY <1>3 DEF StoreQuestion, StoreReply
    <3>2. turn'[t].phase = p /\ \A u \in Turns \ {t} : turn'[u] = turn[u]
      BY <1>1, <3>1 DEF Turn
    <3> QED
      BY <3>2
  <2> HIDE DEF s
  <2>4. ASSUME NEW q \in Sessions, NEW i \in DOMAIN stored'[q]
        PROVE  \/ i \in DOMAIN stored[q] /\ stored'[q][i] = stored[q][i]
               \/ q = s /\ stored'[q][i] = m
    <3>1. CASE q # s
      BY <1>1, <2>1, <2>4, <3>1
    <3>2. CASE q = s
      <4>1. stored'[q] = Append(stored[q], m) /\ stored[q] \in Seq(Message)
        BY <1>1, <2>1, <3>2
      <4>2. m \in Message
        BY <2>1, <3>2, MessageTypes
      <4>3. DOMAIN stored'[q] = 1..(Len(stored[q]) + 1) /\ Len(stored[q]) \in Nat
            /\ DOMAIN stored[q] = 1..Len(stored[q])
        BY <4>1, <4>2
      <4> QED
        BY <2>4, <3>2, <4>1, <4>2, <4>3
    <3> QED
      BY <3>1, <3>2
  <2> SUFFICES ASSUME NEW q \in Sessions, NEW i \in DOMAIN stored'[q]
               PROVE  LET n == stored'[q][i]
                      IN  /\ n.session = q /\ turn'[n.turn].phase # "none"
                          /\ n.role = "assistant" => n.text = WholeReply(n.turn)
    BY DEF StoredInv
  <2>5. CASE i \in DOMAIN stored[q] /\ stored'[q][i] = stored[q][i]
    BY <1>1, <2>3, <2>5 DEF Conversation, StoredInv
  <2>6. CASE q = s /\ stored'[q][i] = m
    BY <2>2, <2>3, <2>6
  <2> QED
    BY <2>4, <2>5, <2>6
<1>4. ASSUME NEW t \in Turns, Send(t) \/ SendDelta(t) \/ Finish(t) \/ BreakTurn(t) PROVE StoredInv'
  <2>1. UNCHANGED stored
    BY <1>4 DEF Send, SendDelta, Finish, BreakTurn
  <2>2. \A u \in Turns : turn'[u].phase = "none" => turn[u].phase = "none"
    BY <1>1, <1>4 DEF Send, SendDelta, Finish, BreakTurn, Turn
  <2> QED
    BY <1>2, <2>1, <2>2
<1>5. CASE Exit /\ UNCHANGED stored
  <2>1. \A u \in Turns : turn'[u] = [turn[u] EXCEPT !.heard = FALSE] /\ turn[u] \in Turn
    BY <1>1, <1>5 DEF Exit
  <2>2. \A u \in Turns : turn'[u].phase = turn[u].phase
    BY <2>1 DEF Turn
  <2> QED
    BY <1>2, <1>5, <2>2
<1>6. CASE UNCHANGED <<turn, stored>> \/ DrainEvent \/ RefreshMessages
  BY <1>2, <1>6 DEF DrainEvent, RefreshMessages, server
<1> QED
  BY <1>3, <1>4, <1>5, <1>6, ConversationMoves DEF TurnStep

\* Every step keeps what joins the transcript, the streams and the events
\* still to be drained.
LEMMA NextConversation ==
    ASSUME TypeOK, Conversation, [Next]_vars PROVE Conversation'
<1>1. CASE UNCHANGED <<turn, events, streaming, messages, kept, stored>>
  BY <1>1 DEF Conversation, TurnsInv, StreamInv, Stream, Growing, TranscriptInv, OwnDeltas, WholeAt, StoredInv,
     Listening, Open, Ends
<1> QED
  BY <1>1, ConversationMoves, StoredKeeps, ExitKeeps, DrainKeeps, RefreshKeeps, SendKeeps, TurnStepKeeps
  DEF Conversation

-----------------------------------------------------------------------------
(* The theorems.                                                           *)

\* The inductive invariant holds before the start.
LEMMA InitIInv == Init => IInv
<1> SUFFICES ASSUME Init PROVE IInv
  OBVIOUS
<1>1. \A t \in Turns : turn[t].phase = "none" /\ ~turn[t].heard
  BY DEF Init, NoTurn
<1>2. Listening = {} /\ TurnsInv
  BY <1>1 DEF Listening, Open, TurnsInv
<1>3. Closed = finder
  BY DEF Init
<1> QED
  BY <1>2, <1>3, InitTypes DEF Init, IInv, StreamInv, TranscriptInv, StoredInv, RefreshInv, DownInv,
     SavedIsShown, CursorOnAnEntry

\* The inductive invariant is kept by every step.
LEMMA NextIInv == ASSUME IInv, [Next]_vars PROVE IInv'
  BY NextTypes, NextConversation, NextRefresh, NextSaved, NextCursor DEF IInv, Conversation

\* The inductive invariant of the terminal client holds in every state.
THEOREM Inductive == Spec => []IInv
  BY InitIInv, NextIInv, PTL DEF Spec

\* handle_key and the event loop: the client never waits for more than one reply,
\* and never for one that is not coming.
THEOREM OneStreamAtATimeHolds == Spec => []OneStreamAtATime
<1>1. IInv => OneStreamAtATime
  <2> SUFFICES ASSUME IInv PROVE OneStreamAtATime
    OBVIOUS
  <2>1. /\ Cardinality({}) = 0 /\ \A x : Cardinality({x}) = 1
    BY FS_EmptySet, FS_Singleton
  <2>2. CASE ~streaming
    <3>1. Listening = {} /\ Ends = {}
      BY <2>2 DEF IInv, StreamInv, Ends
    <3> QED
      BY <2>1, <2>2, <3>1 DEF OneStreamAtATime
  <2>3. CASE streaming
    <3>1. PICK c \in Turns : \/ Listening = {c} /\ Ends = {}
                             \/ Listening = {} /\ Ends = {Len(events)}
      BY <2>3 DEF IInv, StreamInv, Stream
    <3> QED
      <4>1. \/ Cardinality(Listening) = 1 /\ Cardinality(Ends) = 0
            \/ Cardinality(Listening) = 0 /\ Cardinality(Ends) = 1
        BY <2>1, <3>1
      <4> QED
        BY <2>3, <4>1 DEF OneStreamAtATime
  <2> QED
    BY <2>2, <2>3 DEF IInv, TypeOK
<1> QED
  BY <1>1, Inductive, PTL

\* append_assistant_delta: unless the transcript was reloaded under an open stream, an
\* assistant message holds deltas of its own reply only, all of them in the end.
THEOREM TranscriptIsTrueHolds == Spec => []TranscriptIsTrue
<1>1. IInv => TranscriptIsTrue
  <2> SUFFICES ASSUME IInv, kept, NEW i \in DOMAIN messages, messages[i].role = "assistant"
               PROVE  LET m == messages[i]
                      IN  /\ IsPrefix(m.text, WholeReply(m.turn))
                          /\ turn[m.turn].phase = "done" /\ ~streaming /\ turn[m.turn].heard
                               => m.text = WholeReply(m.turn)
    BY DEF TranscriptIsTrue
  <2> DEFINE m == messages[i]
             w == WholeReply(m.turn)
  <2>1. OwnDeltas(m) /\ WholeAt(i)
    BY DEF IInv, TranscriptInv
  <2>2. m \in Message
    BY DEF IInv, TypeOK
  <2>3. m.text \in Seq(Turns) /\ m.turn \in Turns
    BY <2>2 DEF Message
  <2>4. w \in Seq(Turns) /\ Len(w) = Deltas /\ \A j \in 1..Deltas : w[j] = m.turn
    BY <2>3, Constants DEF WholeReply
  <2>5. Len(m.text) <= Deltas /\ \A j \in 1..Len(m.text) : m.text[j] = m.turn
    BY <2>1, <2>3 DEF OwnDeltas
  <2>6. turn[m.turn].phase = "done" /\ ~streaming /\ turn[m.turn].heard => Len(m.text) = Deltas
    BY <2>1 DEF WholeAt
  <2> HIDE DEF m, w
  <2>7. Len(m.text) \in Nat /\ Deltas \in Nat
    BY <2>3, Constants
  <2>8. SubSeq(m.text, 1, Len(m.text)) = SubSeq(w, 1, Len(m.text))
    BY <2>3, <2>4, <2>5, <2>7
  <2>9. Len(m.text) = Deltas => m.text = w
    BY <2>3, <2>4, <2>5, <2>7
  <2>10. IsPrefix(m.text, w) /\ (turn[m.turn].phase = "done" /\ ~streaming /\ turn[m.turn].heard => m.text = w)
    BY <2>4, <2>5, <2>6, <2>8, <2>9 DEF IsPrefix
  <2> QED
    BY <2>10 DEF m, w
<1> QED
  BY <1>1, Inductive, PTL

\* Without a failed call the transcript and the panels are of the open session, the
\* saved selection is the one shown, and Enter in the finder opens the entry that is
\* highlighted.
THEOREM ScreenIsTrueHolds == Spec => []ScreenIsTrue
<1>1. IInv => ScreenIsTrue
  BY DEF IInv, ScreenIsTrue, OneSessionOnScreen, RefreshInv
<1> QED
  BY <1>1, Inductive, PTL

\* refresh_active_data leaves a transcript or a panel of another session or game on the
\* screen only with an error that says so.
THEOREM StaleDataIsReportedHolds == Spec => StaleDataIsReported
<1>1. ASSUME IInv, Next, pc = "refresh", pc' = "drain" PROVE error' \/ LoadedIsCurrent'
  <2>1. RefreshDone
    BY <1>1 DEF Next, Start, Configure, PickGame, PickSession, Key, MoveDown, MoveUp, Pop, Push, LoopStep,
       RefreshStep, DrainEvent, DrainDone, Tick, RefreshMessages, RefreshPanel, Quit, DismissError, CloseFinder,
       OpenFinder, Refresh, AskContext, Send, TurnStep, StoreQuestion, SendDelta, StoreReply, Finish, BreakTurn,
       ServerOnly
  <2>2. ToSet(todo) = {} /\ error' = missed /\ UNCHANGED <<messages, panel, session>>
    BY <2>1 DEF RefreshDone, Report, ToSet
  <2> QED
    BY <1>1, <2>2 DEF IInv, RefreshInv, MessagesAreCurrent, PanelIsCurrent, LoadedIsCurrent, Current
<1> QED
  BY <1>1, Inductive, PTL DEF Spec, StaleDataIsReported
=============================================================================
