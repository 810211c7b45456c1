---------------------------- MODULE CatalogProofs ----------------------------
(***************************************************************************)
(* Proofs about Catalog, for any users, games, sessions and requests.  The *)
(* heart of the inductive invariant is Place: what a request has checked   *)
(* stays true until it acts on it, because rows never change their game,   *)
(* games never change their owner, and no two requests take one id.        *)
(***************************************************************************)
EXTENDS Catalog, FiniteSetTheorems, TLAPS

USE CatalogAssumption, CatalogOps

Query ==
    [op : Operations \cup {"none"}, as : Metadata, target : Ids \cup {"none"}, present : BOOLEAN,
     limit : Sizes \cup {0}, page : Sizes \cup {0}]

Types ==
    /\ users \subseteq Users
    /\ owner \in [Games -> Users \cup {"none"}]
    /\ gameOf \in [Sessions -> Games \cup {"none"}]
    /\ castOf \in [Characters -> Games \cup {"none"}]
    /\ edges \subseteq Sessions \X Games
    /\ clock \in Nat /\ stamp \in [Sessions -> 0..clock]
    /\ ask \in [Requests -> Query]
    /\ step \in [Requests -> Steps]
    /\ id \in [Requests -> Sessions \cup {"none"}]
    /\ faults \in 0..MaxFaults

\* A request that is served is one a client may make, by a user where its
\* handler requires one.
Served(r) ==
    IF step[r] = "done" THEN ask[r] = NoRequest
    ELSE /\ ask[r] \in Inputs(r)
         /\ NeedsUser(ask[r].op) => ask[r].as \in Users

\* The game of what the request names is its user's.
Mine(r) == GameOfTarget(r) \in Games /\ owner[GameOfTarget(r)] = ask[r].as

\* A request that stores a session has an id and a time for it.
Stores(r) == step[r] = "edge" \/ (step[r] = "row" /\ ask[r].op = "create_session")

\* What a request has found out by the time it is at each of its calls.
Place(r) ==
    /\ step[r] = "get_user" => ask[r].op = "get_user"
    /\ step[r] = "get_owner" => ask[r].op = "create_game"
    /\ step[r] = "get_session" => ask[r].op \in BySession
    /\ step[r] = "get_character" => ask[r].op = "get_character"
    /\ step[r] = "get_game" => /\ ask[r].op \in ByGame \cup BySession \cup {"get_character"}
                               /\ GameOfTarget(r) \in Games
    /\ step[r] = "again" => ask[r].op = "create_session" /\ Mine(r)
    /\ step[r] = "row" =>
          \/ ask[r].op = "create_user"
          \/ ask[r].op = "create_game" /\ resolve_owner_user_id(ask[r]) \in users
          \/ ask[r].op = "create_session" /\ Mine(r) /\ gameOf[id[r]] = "none"
    /\ step[r] = "edge" =>
          ask[r].op = "create_session" /\ Mine(r) /\ gameOf[id[r]] = ask[r].target
    /\ step[r] = "read" =>
          \/ ask[r].op = "list_games"
          \/ /\ ask[r].op \in {"list_sessions", "list_characters"} \cup (BySession \ {"get_session"})
             /\ Mine(r)
    /\ Stores(r) => id[r] \in Sessions /\ stamp[id[r]] # 0

Places == \A r \in Requests : Served(r) /\ Place(r)

\* Ids and times are taken once.
TakenOnce ==
    /\ \A r, q \in Requests : Stores(r) /\ Stores(q) /\ id[r] = id[q] => r = q
    /\ \A s \in Sessions : stamp[s] = 0 => gameOf[s] = "none"
    /\ \A s, t \in Sessions : stamp[s] = stamp[t] /\ stamp[s] # 0 => s = t

Linking == \A e \in edges : gameOf[e[1]] = e[2]

IInv == Types /\ Places /\ TakenOnce /\ Linking /\ OwnersExist

-----------------------------------------------------------------------------
(* What every step keeps.                                                  *)

\* Rows are stored once and never changed: whose a game is, and which game a
\* record is of, stays as it is.
Kept ==
    /\ users \subseteq users' /\ edges \subseteq edges'
    /\ \A g \in Games : owner[g] # "none" => owner'[g] = owner[g]
    /\ \A s \in Sessions : gameOf[s] # "none" => gameOf'[s] = gameOf[s]
    /\ \A c \in Characters : castOf[c] # "none" => castOf'[c] = castOf[c]
    /\ \A s \in Sessions : stamp[s] # 0 => stamp'[s] = stamp[s]

\* The only request that moves.
OnlyMoves(r) ==
    \A q \in Requests \ {r} : ask'[q] = ask[q] /\ step'[q] = step[q] /\ id'[q] = id[q]

USE DEF tables, vars

\* A handler that answers ends its request; only a success leaves ids in the
\* answer.
LEMMA AnswerMoves ==
    ASSUME NEW r \in Requests, NEW q, NEW status, NEW ids, Types, AnswerTo(r, q, status, ids)
    PROVE  /\ OnlyMoves(r)
           /\ step' \in [Requests -> Steps] /\ ask' \in [Requests -> Query]
           /\ id' \in [Requests -> Sessions \cup {"none"}]
           /\ step'[r] = "done" /\ ask'[r] = NoRequest
           /\ status # "ok" => answer' = NoAnswer
           /\ status = "ok" => /\ answer'.ask = q /\ answer'.status = "ok" /\ answer'.records = ids
                               /\ answer'.known = IF q.op = "list_sessions" THEN Linked ELSE {}
<1>1. NoRequest \in Query
  BY DEF NoRequest, Query, Metadata
<1> QED
  BY <1>1 DEF AnswerTo, OnlyMoves, Types, Steps, NoAnswer

\* A handler that goes on to its next call changes its own place and nothing
\* else.
LEMMA GotoMoves ==
    ASSUME NEW r \in Requests, NEW to \in Steps, Types, Goto(r, to)
    PROVE  /\ OnlyMoves(r)
           /\ step' \in [Requests -> Steps] /\ ask' = ask /\ id' = id
           /\ step'[r] = to /\ answer' = NoAnswer
  BY DEF Goto, OnlyMoves, Types, Silent

\* What a client asks for is a query of the operations, on something of the kind they name.
LEMMA InputTypes ==
    ASSUME NEW r \in Requests, NEW q \in Inputs(r)
    PROVE  /\ q \in Query /\ q.op \in Operations /\ q.target \in Targets(q.op)
           /\ q.op \in ByGame => q.target \in Games
           /\ q.op \in BySession => q.target \in Sessions
           /\ q.op = "get_character" => q.target \in Characters
           /\ NeedsUser(q.op) /\ Admission(q) = "ok" => q.as \in Users
<1>1. q \in [op : Ops[r], as : Metadata, target : Ids \cup {"none"}, present : BOOLEAN,
             limit : Sizes \cup {0}, page : Sizes \cup {0}] /\ q.target \in Targets(q.op)
  BY DEF Inputs
<1>2. Ops[r] \subseteq Operations
  OBVIOUS
<1>3. q \in Query /\ q.op \in Operations
  BY <1>1, <1>2 DEF Query
<1>4. /\ q.op \in ByGame => q.target \in Games
      /\ q.op \in BySession => q.target \in Sessions
      /\ q.op = "get_character" => q.target \in Characters
  BY <1>1 DEF Targets, ByGame, BySession
<1>5. NeedsUser(q.op) /\ Admission(q) = "ok" => q.as \in Users
  BY <1>1 DEF Admission, require_user_id, Metadata
<1> QED
  BY <1>1, <1>3, <1>4, <1>5

\* The steps that only read the tables: they answer, or go to another call.
Reads(r) ==
    \/ get_user(r) \/ GetOwner(r) \/ require_owned_session(r) \/ get_character(r)
    \/ require_owned_game(r) \/ list_sessions(r) \/ list_games(r) \/ list_characters(r)
    \/ list_messages(r) \/ list_events(r) \/ search_memory(r) \/ get_story_summary(r)
    \/ CallFails(r)

\* The calls of a handler that only read leave the tables alone: each ends
\* its request or moves it to the next call.
LEMMA ReadsMove ==
    ASSUME NEW r \in Requests, Types, Places, Reads(r)
    PROVE  /\ UNCHANGED <<tables, clock, stamp>> /\ faults' \in 0..MaxFaults
           /\ OnlyMoves(r)
           /\ step' \in [Requests -> Steps] /\ ask' \in [Requests -> Query]
           /\ id' \in [Requests -> Sessions \cup {"none"}]
           /\ \/ step'[r] = "done" /\ ask'[r] = NoRequest
              \/ /\ step[r] = "get_owner" /\ OwnerExists(r) /\ Goto(r, "row")
              \/ /\ step[r] = "get_session" /\ gameOf[ask[r].target] # "none" /\ Goto(r, "get_game")
              \/ /\ step[r] = "get_character" /\ castOf[ask[r].target] # "none" /\ Goto(r, "get_game")
              \/ /\ step[r] = "get_game" /\ owner[GameOfTarget(r)] = ask[r].as
                 /\ \/ ask[r].op = "create_session" /\ Goto(r, "again")
                    \/ /\ ask[r].op \notin {"get_game", "get_session", "get_character", "create_session"}
                       /\ Goto(r, "read")
<1> USE DEF Answer
<1>1. CASE get_user(r)
  BY <1>1, AnswerMoves DEF get_user, Types
<1>2. CASE GetOwner(r)
  BY <1>2, AnswerMoves, GotoMoves DEF GetOwner, Types, Steps
<1>3. CASE require_owned_session(r)
  BY <1>3, AnswerMoves, GotoMoves DEF require_owned_session, Types, Steps
<1>4. CASE get_character(r)
  BY <1>4, AnswerMoves, GotoMoves DEF get_character, Types, Steps
<1>5. CASE require_owned_game(r)
  <2>1. CASE owner[GameOfTarget(r)] = "none"
    BY <1>5, <2>1, AnswerMoves DEF require_owned_game, Types
  <2>2. CASE owner[GameOfTarget(r)] # "none" /\ ~IsOwner(GameOfTarget(r), ask[r].as)
    BY <1>5, <2>2, AnswerMoves DEF require_owned_game, Types
  <2>3. CASE owner[GameOfTarget(r)] # "none" /\ IsOwner(GameOfTarget(r), ask[r].as)
    <3>1. Owned(r) /\ step[r] = "get_game" /\ owner[GameOfTarget(r)] = ask[r].as
          /\ UNCHANGED <<tables, clock, stamp, faults>>
      BY <1>5, <2>3 DEF require_owned_game, IsOwner
    <3>2. CASE ask[r].op \in {"get_game", "get_session", "get_character"}
      BY <3>1, <3>2, AnswerMoves DEF Owned, Types
    <3>3. CASE ask[r].op = "create_session" /\ ~ask[r].present
      BY <3>1, <3>3, AnswerMoves DEF Owned, Types
    <3>4. CASE ask[r].op = "create_session" /\ ask[r].present
      BY <3>1, <3>4, GotoMoves DEF Owned, Types, Steps
    <3>5. CASE ask[r].op \notin {"get_game", "get_session", "get_character", "create_session"}
      BY <3>1, <3>5, GotoMoves DEF Owned, Types, Steps
    <3> QED
      BY <3>2, <3>3, <3>4, <3>5
  <2> QED
    BY <2>1, <2>2, <2>3
<1>6. CASE list_sessions(r)
  BY <1>6, AnswerMoves DEF list_sessions, Types
<1>7. CASE list_games(r)
  BY <1>7, AnswerMoves DEF list_games, Types
<1>8. CASE list_characters(r)
  BY <1>8, AnswerMoves DEF list_characters, Types
<1>9. CASE list_messages(r) \/ list_events(r) \/ search_memory(r) \/ get_story_summary(r)
  BY <1>9, AnswerMoves
     DEF list_messages, list_events, search_memory, get_story_summary, ReadSession, Types
<1>10. CASE CallFails(r)
  BY <1>10, AnswerMoves DEF CallFails, Types
<1> QED
  BY <1>1, <1>2, <1>3, <1>4, <1>5, <1>6, <1>7, <1>8, <1>9, <1>10 DEF Reads

\* The steps that store something, and what each of them finds.
LEMMA WritesMove ==
    ASSUME NEW r \in Requests, Types, Places
    PROVE  /\ create_user(r) => /\ OnlyMoves(r) /\ step'[r] = "done" /\ ask'[r] = NoRequest
           /\ create_game(r) => /\ OnlyMoves(r) /\ step'[r] = "done" /\ ask'[r] = NoRequest
                                /\ ask[r].op = "create_game" /\ resolve_owner_user_id(ask[r]) \in users
           /\ TakeStamp(r) => /\ OnlyMoves(r) /\ step'[r] = "row" /\ ask' = ask
                              /\ ask[r].op = "create_session" /\ Mine(r)
                              /\ \E s \in Sessions : stamp[s] = 0 /\ id'[r] = s
                                       /\ stamp' = [stamp EXCEPT ![s] = clock + 1]
           /\ create_session(r) => /\ OnlyMoves(r) /\ step'[r] = "edge" /\ ask' = ask /\ id' = id
                                   /\ ask[r].target \in Games /\ id[r] \in Sessions
                                   /\ gameOf[id[r]] = "none" /\ Mine(r)
           /\ upsert_graph_relation(r) =>
                 /\ OnlyMoves(r) /\ step'[r] = "done" /\ ask'[r] = NoRequest
                 /\ ask[r].target \in Games /\ id[r] \in Sessions
                 /\ gameOf[id[r]] = ask[r].target /\ Mine(r)
<1> USE DEF Answer
<1>1. create_user(r) => OnlyMoves(r) /\ step'[r] = "done" /\ ask'[r] = NoRequest
  BY AnswerMoves DEF create_user
<1>2. create_game(r) => /\ OnlyMoves(r) /\ step'[r] = "done" /\ ask'[r] = NoRequest
                        /\ ask[r].op = "create_game" /\ resolve_owner_user_id(ask[r]) \in users
  BY AnswerMoves DEF create_game, Places, Place
<1>3. TakeStamp(r) => /\ OnlyMoves(r) /\ step'[r] = "row" /\ ask' = ask
                      /\ ask[r].op = "create_session" /\ Mine(r)
                      /\ \E s \in Sessions : stamp[s] = 0 /\ id'[r] = s
                               /\ stamp' = [stamp EXCEPT ![s] = clock + 1]
  BY DEF TakeStamp, Places, Place, OnlyMoves, Types
<1>4. create_session(r) => /\ OnlyMoves(r) /\ step'[r] = "edge" /\ ask' = ask /\ id' = id
                           /\ ask[r].target \in Games /\ id[r] \in Sessions
                           /\ gameOf[id[r]] = "none" /\ Mine(r)
  <2> SUFFICES ASSUME create_session(r)
               PROVE  /\ OnlyMoves(r) /\ step'[r] = "edge" /\ ask' = ask /\ id' = id
                      /\ ask[r].target \in Games /\ id[r] \in Sessions
                      /\ gameOf[id[r]] = "none" /\ Mine(r)
    OBVIOUS
  <2>1. step[r] = "row" /\ ask[r].op = "create_session" /\ Goto(r, "edge")
    BY DEF create_session
  <2>2. OnlyMoves(r) /\ step'[r] = "edge" /\ ask' = ask /\ id' = id
    BY <2>1, GotoMoves DEF Steps
  <2>3. ask[r] \in Inputs(r) /\ Place(r)
    BY <2>1 DEF Places, Served
  <2>4. id[r] \in Sessions /\ gameOf[id[r]] = "none" /\ Mine(r)
    BY <2>1, <2>3 DEF Place, Stores
  <2> QED
    BY <2>1, <2>2, <2>3, <2>4, InputTypes DEF ByGame
<1>5. upsert_graph_relation(r) =>
        /\ OnlyMoves(r) /\ step'[r] = "done" /\ ask'[r] = NoRequest
        /\ ask[r].target \in Games /\ id[r] \in Sessions
        /\ gameOf[id[r]] = ask[r].target /\ Mine(r)
  <2> SUFFICES ASSUME upsert_graph_relation(r)
               PROVE  /\ OnlyMoves(r) /\ step'[r] = "done" /\ ask'[r] = NoRequest
                      /\ ask[r].target \in Games /\ id[r] \in Sessions
                      /\ gameOf[id[r]] = ask[r].target /\ Mine(r)
    OBVIOUS
  <2>1. step[r] = "edge" /\ Answer(r, "ok", {id[r]})
    BY DEF upsert_graph_relation
  <2>2. OnlyMoves(r) /\ step'[r] = "done" /\ ask'[r] = NoRequest
    BY <2>1, AnswerMoves
  <2>3. ask[r] \in Inputs(r) /\ Place(r)
    BY <2>1 DEF Places, Served
  <2>4. id[r] \in Sessions /\ gameOf[id[r]] = ask[r].target /\ Mine(r) /\ ask[r].op = "create_session"
    BY <2>1, <2>3 DEF Place, Stores
  <2> QED
    BY <2>2, <2>3, <2>4, InputTypes DEF ByGame
<1> QED
  BY <1>1, <1>2, <1>3, <1>4, <1>5

\* A step is that of one request, or of a job, or none.
LEMMA StepCases ==
    ASSUME [Next]_vars
    PROVE  \/ \E r \in Requests : \/ Receive(r) \/ Reads(r) \/ create_user(r) \/ create_game(r)
                                  \/ TakeStamp(r) \/ create_session(r) \/ upsert_graph_relation(r)
           \/ \E c \in Characters, g \in Games : upsert_character(c, g)
           \/ UNCHANGED vars
  BY Zenon DEF Next, Serve, Reads

\* A request is refused at once, or sent on to its first call.
LEMMA ReceiveMoves ==
    ASSUME NEW r \in Requests, Types, Receive(r)
    PROVE  /\ UNCHANGED <<tables, clock, stamp, faults>> /\ OnlyMoves(r)
           /\ answer' = NoAnswer
           /\ step' \in [Requests -> Steps] /\ ask' \in [Requests -> Query]
           /\ id' \in [Requests -> Sessions \cup {"none"}]
           /\ \/ step'[r] = "done" /\ ask'[r] = NoRequest
              \/ \E q \in Inputs(r) : /\ Admission(q) = "ok" /\ ask'[r] = q
                                      /\ step'[r] = First(q.op)
<1>1. PICK q \in Inputs(r) :
          IF Admission(q) = "ok"
          THEN /\ step' = [step EXCEPT ![r] = First(q.op)]
               /\ ask' = [ask EXCEPT ![r] = q]
               /\ Silent /\ UNCHANGED id
          ELSE AnswerTo(r, q, Admission(q), {})
  BY DEF Receive
<1>2. UNCHANGED <<tables, clock, stamp, faults>>
  BY DEF Receive
<1>3. CASE Admission(q) = "ok"
  <2>1. q \in Query /\ q.op \in Operations
    BY InputTypes
  <2>2. First(q.op) \in Steps
    BY <2>1 DEF First, Steps, Operations, ByGame, BySession
  <2> QED
    BY <1>1, <1>2, <1>3, <2>1, <2>2 DEF Types, Silent, OnlyMoves
<1>4. CASE Admission(q) # "ok"
  BY <1>1, <1>2, <1>4, AnswerMoves
<1> QED
  BY <1>3, <1>4

\* An empty store has the types.
LEMMA InitTypes == Init => Types
<1>1. NoRequest \in Query
  BY DEF NoRequest, Query, Metadata
<1> QED
  BY <1>1 DEF Init, Types, Steps

\* Every step keeps the types.
LEMMA NextTypes == Types /\ Places /\ [Next]_vars => Types'
<1> SUFFICES ASSUME Types, Places, [Next]_vars PROVE Types'
  OBVIOUS
<1>1. ASSUME NEW r \in Requests, Receive(r) PROVE Types'
  BY <1>1, ReceiveMoves DEF Types
<1>2. ASSUME NEW r \in Requests, Reads(r) PROVE Types'
  BY <1>2, ReadsMove DEF Types
<1>3. ASSUME NEW r \in Requests, create_user(r) PROVE Types'
  BY <1>3, AnswerMoves DEF create_user, Answer, Types
<1>4. ASSUME NEW r \in Requests, create_game(r) PROVE Types'
  <2>1. resolve_owner_user_id(ask[r]) \in Users
    BY <1>4, WritesMove DEF Types
  <2>2. owner' \in [Games -> Users \cup {"none"}]
    BY <1>4, <2>1 DEF create_game, Types
  <2> QED
    BY <1>4, <2>2, AnswerMoves DEF create_game, Answer, Types
<1>5. ASSUME NEW r \in Requests, TakeStamp(r) PROVE Types'
  <2>1. PICK s \in Sessions : id' = [id EXCEPT ![r] = s] /\ stamp' = [stamp EXCEPT ![s] = clock + 1]
    BY <1>5 DEF TakeStamp
  <2>2. clock' = clock + 1 /\ clock' \in Nat /\ 0..clock \subseteq 0..clock' /\ clock + 1 \in 0..clock'
    BY <1>5 DEF TakeStamp, NextTime, Types
  <2>3. stamp' \in [Sessions -> 0..clock']
    BY <2>1, <2>2 DEF Types
  <2>4. step' \in [Requests -> Steps]
    BY <1>5 DEF TakeStamp, Types, Steps
  <2>5. id' \in [Requests -> Sessions \cup {"none"}]
    BY <2>1 DEF Types
  <2>6. UNCHANGED <<tables, ask, faults>>
    BY <1>5 DEF TakeStamp
  <2> QED
    BY <2>2, <2>3, <2>4, <2>5, <2>6 DEF Types
<1>6. ASSUME NEW r \in Requests, create_session(r) PROVE Types'
  <2>1. Goto(r, "edge") /\ "edge" \in Steps
    BY <1>6 DEF create_session, Steps
  <2>2. step' \in [Requests -> Steps] /\ ask' = ask /\ id' = id
    BY <2>1, GotoMoves
  <2>3. gameOf' \in [Sessions -> Games \cup {"none"}]
    BY <1>6, WritesMove DEF create_session, Types
  <2> QED
    BY <1>6, <2>2, <2>3 DEF create_session, Types
<1>7. ASSUME NEW r \in Requests, upsert_graph_relation(r) PROVE Types'
  BY <1>7, WritesMove, AnswerMoves DEF upsert_graph_relation, Answer, Types
<1>8. ASSUME NEW c \in Characters, NEW g \in Games, upsert_character(c, g) PROVE Types'
  BY <1>8 DEF upsert_character, Types
<1>9. CASE UNCHANGED vars
  BY <1>9 DEF Types
<1> QED
  BY <1>1, <1>2, <1>3, <1>4, <1>5, <1>6, <1>7, <1>8, <1>9, StepCases

\* Every step keeps the rows there are, their owners and their games:
\* records never move.
LEMMA NextKept == Types /\ Places /\ [Next]_vars => Kept
<1> SUFFICES ASSUME Types, Places, [Next]_vars PROVE Kept
  OBVIOUS
<1>1. ASSUME NEW r \in Requests, Receive(r) PROVE Kept
  BY <1>1 DEF Receive, Kept
<1>2. ASSUME NEW r \in Requests, Reads(r) PROVE Kept
  BY <1>2, ReadsMove DEF Kept
<1>3. ASSUME NEW r \in Requests, create_user(r) PROVE Kept
  BY <1>3 DEF create_user, Kept
<1>4. ASSUME NEW r \in Requests, create_game(r) PROVE Kept
  BY <1>4 DEF create_game, Kept, Types
<1>5. ASSUME NEW r \in Requests, TakeStamp(r) PROVE Kept
  BY <1>5 DEF TakeStamp, Kept, Types
<1>6. ASSUME NEW r \in Requests, create_session(r) PROVE Kept
  BY <1>6, WritesMove DEF create_session, Kept, Types
<1>7. ASSUME NEW r \in Requests, upsert_graph_relation(r) PROVE Kept
  BY <1>7 DEF upsert_graph_relation, Kept
<1>8. ASSUME NEW c \in Characters, NEW g \in Games, upsert_character(c, g) PROVE Kept
  BY <1>8 DEF upsert_character, Kept, Types
<1>9. CASE UNCHANGED vars
  BY <1>9 DEF Kept
<1> QED
  BY <1>1, <1>2, <1>3, <1>4, <1>5, <1>6, <1>7, <1>8, <1>9, StepCases

-----------------------------------------------------------------------------
(* What a request has found out stays true.                                *)

\* The game of what a request names stays that game, and its user's.
LEMMA SameGame ==
    ASSUME NEW q \in Requests, Types, Kept, ask[q] \in Inputs(q), ask'[q] = ask[q],
           ask[q].op \in ByGame \cup BySession \cup {"get_character"},
           GameOfTarget(q) \in Games
    PROVE  /\ GameOfTarget(q)' = GameOfTarget(q)
           /\ NeedsUser(ask[q].op)
           /\ Mine(q) /\ ask[q].as \in Users => Mine(q)'
<1>1. /\ ask[q].op \in ByGame => ask[q].target \in Games
      /\ ask[q].op \in BySession => ask[q].target \in Sessions
      /\ ask[q].op = "get_character" => ask[q].target \in Characters
  BY InputTypes
<1>2. "none" \notin Games /\ "none" \notin Users
  OBVIOUS
<1>3. GameOfTarget(q)' = GameOfTarget(q)
  <2>1. CASE ask[q].op \in ByGame
    BY <2>1 DEF GameOfTarget
  <2>2. CASE ask[q].op \in BySession
    <3>1. ask[q].op \notin ByGame
      BY <2>2 DEF ByGame, BySession
    <3>2. gameOf'[ask[q].target] = gameOf[ask[q].target]
      BY <1>1, <1>2, <2>2, <3>1 DEF Kept, GameOfTarget
    <3> QED
      BY <2>2, <3>1, <3>2 DEF GameOfTarget
  <2>3. CASE ask[q].op = "get_character"
    <3>1. ask[q].op \notin ByGame \cup BySession
      BY <2>3 DEF ByGame, BySession
    <3>2. castOf'[ask[q].target] = castOf[ask[q].target]
      BY <1>1, <1>2, <2>3, <3>1 DEF Kept, GameOfTarget
    <3> QED
      BY <2>3, <3>1, <3>2 DEF GameOfTarget
  <2> QED
    BY <2>1, <2>2, <2>3
<1>4. NeedsUser(ask[q].op)
  BY DEF NeedsUser, ByGame, BySession
<1>5. Mine(q) /\ ask[q].as \in Users => Mine(q)'
  BY <1>2, <1>3 DEF Mine, Kept
<1> QED
  BY <1>3, <1>4, <1>5

\* A request that does not move is where it was, and what it has found out holds.
LEMMA SameStep ==
    ASSUME NEW q \in Requests, Types, Kept, Served(q), Place(q),
           ask'[q] = ask[q], step'[q] = step[q], id'[q] = id[q],
           Stores(q) => gameOf'[id[q]] = gameOf[id[q]]
    PROVE  Served(q)' /\ Place(q)'
<1>1. ask'[q] = ask[q] /\ step'[q] = step[q] /\ id'[q] = id[q]
  OBVIOUS
<1>2. Served(q)'
  BY <1>1 DEF Served
<1>3. CASE step[q] = "done"
  BY <1>1, <1>2, <1>3 DEF Place, Stores
<1>4. CASE step[q] # "done"
  <2>1. ask[q] \in Inputs(q) /\ (NeedsUser(ask[q].op) => ask[q].as \in Users)
    BY <1>4 DEF Served
  <2> DEFINE named == ask[q].op \in ByGame \cup BySession \cup {"get_character"}
  <2>2. named /\ GameOfTarget(q) \in Games => GameOfTarget(q)' \in Games
    BY <1>1, <2>1, SameGame
  <2>3. named /\ Mine(q) => Mine(q)'
    BY <1>1, <2>1, SameGame DEF Mine
  <2>4. Stores(q)' = Stores(q)
    BY <1>1 DEF Stores
  <2>5. Stores(q) => id'[q] \in Sessions /\ stamp'[id'[q]] # 0 /\ gameOf'[id'[q]] = gameOf[id[q]]
    BY <1>1 DEF Place, Kept
  <2>6. resolve_owner_user_id(ask[q]) \in users => resolve_owner_user_id(ask'[q]) \in users'
    BY <1>1 DEF Kept
  <2>7. /\ step'[q] = "get_user" => ask'[q].op = "get_user"
        /\ step'[q] = "get_owner" => ask'[q].op = "create_game"
        /\ step'[q] = "get_session" => ask'[q].op \in BySession
        /\ step'[q] = "get_character" => ask'[q].op = "get_character"
    BY <1>1 DEF Place
  <2>8. step'[q] = "get_game" => /\ ask'[q].op \in ByGame \cup BySession \cup {"get_character"}
                                 /\ GameOfTarget(q)' \in Games
    BY <1>1, <2>2 DEF Place
  <2>9. step'[q] = "again" => ask'[q].op = "create_session" /\ Mine(q)'
    BY <1>1, <2>3 DEF Place, ByGame
  <2>10. step'[q] = "row" =>
          \/ ask'[q].op = "create_user"
          \/ ask'[q].op = "create_game" /\ resolve_owner_user_id(ask'[q]) \in users'
          \/ ask'[q].op = "create_session" /\ Mine(q)' /\ gameOf'[id'[q]] = "none"
    BY <1>1, <2>3, <2>5, <2>6 DEF Place, ByGame, Stores
  <2>11. step'[q] = "edge" =>
          ask'[q].op = "create_session" /\ Mine(q)' /\ gameOf'[id'[q]] = ask'[q].target
    BY <1>1, <2>3, <2>5 DEF Place, ByGame, Stores
  <2>12. step'[q] = "read" =>
          \/ ask'[q].op = "list_games"
          \/ /\ ask'[q].op \in {"list_sessions", "list_characters"} \cup (BySession \ {"get_session"})
             /\ Mine(q)'
    BY <1>1, <2>3 DEF Place, ByGame
  <2> QED
    BY <1>2, <2>4, <2>5, <2>7, <2>8, <2>9, <2>10, <2>11, <2>12 DEF Place
<1> QED
  BY <1>3, <1>4

\* A step of one request leaves what another has learnt so far as it was.
LEMMA OthersStay ==
    ASSUME NEW r \in Requests, NEW q \in Requests, q # r, Types, Kept, OnlyMoves(r),
           Served(q), Place(q),
           Stores(q) => gameOf'[id[q]] = gameOf[id[q]]
    PROVE  Served(q)' /\ Place(q)'
  BY SameStep DEF OnlyMoves

\* The request that moves, where it moves to another call.
LEMMA MoverIsPlaced ==
    ASSUME NEW r \in Requests, Types, Places, TakenOnce, Kept, ask'[r] = ask[r],
           step[r] # "done",
           step'[r] \notin {"done", "get_user", "get_owner", "get_session", "get_character"},
           step'[r] = "get_game" => /\ ask[r].op \in ByGame \cup BySession \cup {"get_character"}
                                    /\ GameOfTarget(r)' \in Games,
           step'[r] = "again" => ask[r].op = "create_session" /\ Mine(r)',
           step'[r] = "row" =>
              \/ ask[r].op = "create_game" /\ resolve_owner_user_id(ask[r]) \in users
              \/ ask[r].op = "create_session" /\ Mine(r)' /\ gameOf'[id'[r]] = "none",
           step'[r] = "edge" =>
              ask[r].op = "create_session" /\ Mine(r)' /\ gameOf'[id'[r]] = ask[r].target,
           step'[r] = "read" =>
              \/ ask[r].op = "list_games"
              \/ /\ ask[r].op \in {"list_sessions", "list_characters"} \cup (BySession \ {"get_session"})
                 /\ Mine(r)',
           Stores(r)' => id'[r] \in Sessions /\ stamp'[id'[r]] # 0
    PROVE  Served(r)' /\ Place(r)'
<1>1. Served(r)'
  BY DEF Places, Served
<1>2. resolve_owner_user_id(ask[r]) \in users => resolve_owner_user_id(ask'[r]) \in users'
  BY DEF Kept
<1> QED
  BY <1>1, <1>2 DEF Place

\* Every step keeps what a request knows at each of its calls.
LEMMA NextPlaces == Types /\ Places /\ TakenOnce /\ [Next]_vars => Places'
<1> SUFFICES ASSUME Types, Places, TakenOnce, [Next]_vars PROVE Places'
  OBVIOUS
<1>0. Types' /\ Kept
  BY NextTypes, NextKept
<1> DEFINE others(r) == \A q \in Requests \ {r} : Served(q)' /\ Place(q)'
<1>1. ASSUME NEW r \in Requests, OnlyMoves(r), gameOf' = gameOf PROVE others(r)
  BY <1>0, <1>1, OthersStay DEF Places
<1>2. ASSUME NEW r \in Requests, others(r), Served(r)', Place(r)' PROVE Places'
  BY <1>2 DEF Places
<1>3. ASSUME NEW r \in Requests, step'[r] = "done", ask'[r] = NoRequest
      PROVE  Served(r)' /\ Place(r)'
  BY <1>3 DEF Served, Place, Stores
<1>4. ASSUME NEW r \in Requests, Receive(r) PROVE Places'
  <2>1. OnlyMoves(r) /\ gameOf' = gameOf
    BY <1>4, ReceiveMoves
  <2>2. CASE step'[r] = "done" /\ ask'[r] = NoRequest
    BY <1>1, <1>2, <1>3, <2>1, <2>2
  <2>3. ASSUME NEW q \in Inputs(r), Admission(q) = "ok", ask'[r] = q, step'[r] = First(q.op)
        PROVE  Served(r)' /\ Place(r)'
    <3>1. q.op \in Operations /\ (NeedsUser(q.op) => q.as \in Users)
          /\ (q.op \in ByGame => q.target \in Games)
      BY <2>3, InputTypes
    <3>2. Served(r)'
      BY <2>3, <3>1 DEF Served, First, Operations, ByGame, BySession
    <3>3. CASE q.op \in ByGame
      BY <2>3, <3>1, <3>2, <3>3 DEF Place, First, Stores, GameOfTarget
    <3>4. CASE q.op \in BySession
      BY <2>3, <3>1, <3>2, <3>4 DEF Place, First, Stores, ByGame, BySession
    <3>5. CASE q.op \notin ByGame \cup BySession
      BY <2>3, <3>1, <3>2, <3>5 DEF Place, First, Stores, Operations
    <3> QED
      BY <3>2, <3>3, <3>4, <3>5
  <2> QED
    BY <1>1, <1>2, <1>4, <2>1, <2>2, <2>3, ReceiveMoves
<1>5. ASSUME NEW r \in Requests, Reads(r) PROVE Places'
  <2>1. OnlyMoves(r) /\ gameOf' = gameOf /\ castOf' = castOf /\ owner' = owner /\ stamp' = stamp
    BY <1>5, ReadsMove
  <2>2. CASE step'[r] = "done" /\ ask'[r] = NoRequest
    BY <1>1, <1>2, <1>3, <2>1, <2>2
  <2>3. CASE step[r] = "get_owner" /\ OwnerExists(r) /\ Goto(r, "row")
    <3>1. step'[r] = "row" /\ ask' = ask /\ ask[r].op = "create_game"
          /\ resolve_owner_user_id(ask[r]) \in users
      BY <2>3, GotoMoves DEF Steps, Places, Place, OwnerExists
    <3>2. Served(r)' /\ Place(r)'
      BY <1>0, <2>3, <3>1, MoverIsPlaced DEF Stores
    <3> QED
      BY <1>1, <1>2, <2>1, <3>2
  <2>4. CASE step[r] = "get_session" /\ gameOf[ask[r].target] # "none" /\ Goto(r, "get_game")
    <3>1. step'[r] = "get_game" /\ ask' = ask /\ ask[r].op \in BySession
      BY <2>4, GotoMoves DEF Steps, Places, Place
    <3>2. ask[r].target \in Sessions
      BY <2>4, <3>1, InputTypes DEF Places, Served
    <3>3. GameOfTarget(r)' \in Games
      BY <2>1, <2>4, <3>1, <3>2 DEF GameOfTarget, ByGame, BySession, Types
    <3>4. Served(r)' /\ Place(r)'
      BY <1>0, <2>4, <3>1, <3>3, MoverIsPlaced DEF Stores
    <3> QED
      BY <1>1, <1>2, <2>1, <3>4
  <2>5. CASE step[r] = "get_character" /\ castOf[ask[r].target] # "none" /\ Goto(r, "get_game")
    <3>1. step'[r] = "get_game" /\ ask' = ask /\ ask[r].op = "get_character"
      BY <2>5, GotoMoves DEF Steps, Places, Place
    <3>2. ask[r].target \in Characters
      BY <2>5, <3>1, InputTypes DEF Places, Served
    <3>3. GameOfTarget(r)' \in Games
      BY <2>1, <2>5, <3>1, <3>2 DEF GameOfTarget, ByGame, BySession, Types
    <3>4. Served(r)' /\ Place(r)'
      BY <1>0, <2>5, <3>1, <3>3, MoverIsPlaced DEF Stores
    <3> QED
      BY <1>1, <1>2, <2>1, <3>4
  <2>6. CASE /\ step[r] = "get_game" /\ owner[GameOfTarget(r)] = ask[r].as
             /\ \/ ask[r].op = "create_session" /\ Goto(r, "again")
                \/ /\ ask[r].op \notin {"get_game", "get_session", "get_character", "create_session"}
                   /\ Goto(r, "read")
    <3>1. ask[r].op \in ByGame \cup BySession \cup {"get_character"} /\ Mine(r)
          /\ ask[r] \in Inputs(r)
      BY <2>6 DEF Places, Place, Mine, Served
    <3>2. step'[r] \in {"again", "read"} /\ ask' = ask
      BY <2>6, GotoMoves DEF Steps
    <3>3. NeedsUser(ask[r].op) /\ ask[r].as \in Users
      BY <2>6, <3>1 DEF Places, Served, NeedsUser, ByGame, BySession
    <3>4. Mine(r)'
      BY <1>0, <3>1, <3>2, <3>3, SameGame DEF Mine
    <3>5. step'[r] = "again" => ask[r].op = "create_session"
      BY <2>6, GotoMoves DEF Steps
    <3>6. step'[r] = "read" =>
             ask[r].op \in {"list_sessions", "list_characters"} \cup (BySession \ {"get_session"})
      BY <2>6, <3>1, GotoMoves DEF Steps, ByGame
    <3>7. Served(r)' /\ Place(r)'
      BY <1>0, <2>6, <3>2, <3>4, <3>5, <3>6, MoverIsPlaced DEF Stores
    <3> QED
      BY <1>1, <1>2, <2>1, <3>7
  <2> QED
    BY <1>5, <2>2, <2>3, <2>4, <2>5, <2>6, ReadsMove
<1>6. ASSUME NEW r \in Requests, create_user(r) PROVE Places'
  BY <1>1, <1>2, <1>3, <1>6, WritesMove DEF create_user
<1>7. ASSUME NEW r \in Requests, create_game(r) PROVE Places'
  BY <1>1, <1>2, <1>3, <1>7, WritesMove DEF create_game
<1>8. ASSUME NEW r \in Requests, TakeStamp(r) PROVE Places'
  <2>1. PICK s \in Sessions : stamp[s] = 0 /\ id'[r] = s /\ stamp' = [stamp EXCEPT ![s] = clock + 1]
    BY <1>8, WritesMove
  <2>2. /\ OnlyMoves(r) /\ step'[r] = "row" /\ ask' = ask
        /\ ask[r].op = "create_session" /\ Mine(r) /\ step[r] = "again"
        /\ gameOf' = gameOf /\ owner' = owner
    BY <1>8, WritesMove DEF TakeStamp
  <2>3. gameOf'[id'[r]] = "none"
    BY <2>1, <2>2 DEF TakenOnce
  <2>4. stamp'[s] # 0
    BY <2>1 DEF Types
  <2>5. Mine(r)'
    BY <2>2 DEF Mine, GameOfTarget, ByGame
  <2>6. Served(r)' /\ Place(r)'
    BY <1>0, <2>1, <2>2, <2>3, <2>4, <2>5, MoverIsPlaced DEF Stores
  <2> QED
    BY <1>1, <1>2, <2>2, <2>6
<1>9. ASSUME NEW r \in Requests, create_session(r) PROVE Places'
  <2>1. /\ OnlyMoves(r) /\ step'[r] = "edge" /\ ask' = ask /\ id' = id
        /\ ask[r].target \in Games /\ id[r] \in Sessions /\ gameOf[id[r]] = "none" /\ Mine(r)
        /\ step[r] = "row" /\ ask[r].op = "create_session"
        /\ gameOf' = [gameOf EXCEPT ![id[r]] = ask[r].target] /\ owner' = owner
    BY <1>9, WritesMove DEF create_session
  <2>2. Stores(r) /\ stamp[id[r]] # 0 /\ stamp' = stamp
    BY <1>9, <2>1 DEF Stores, Places, Place, create_session
  <2>3. \A q \in Requests \ {r} : Stores(q) => id[q] # id[r] /\ id[q] \in Sessions
    BY <2>2 DEF TakenOnce, Places, Place
  <2>4. others(r)
    BY <1>0, <2>1, <2>3, OthersStay DEF Places, Types
  <2>5. Mine(r)'
    BY <2>1 DEF Mine, GameOfTarget, ByGame
  <2>6. gameOf'[id'[r]] = ask[r].target
    BY <2>1 DEF Types
  <2>7. Served(r)' /\ Place(r)'
    BY <1>0, <2>1, <2>2, <2>5, <2>6, MoverIsPlaced DEF Stores
  <2> QED
    BY <1>2, <2>4, <2>7
<1>10. ASSUME NEW r \in Requests, upsert_graph_relation(r) PROVE Places'
  BY <1>1, <1>2, <1>3, <1>10, WritesMove DEF upsert_graph_relation
<1>11. ASSUME NEW c \in Characters, NEW g \in Games, upsert_character(c, g) PROVE Places'
  <2>1. \A q \in Requests : ask'[q] = ask[q] /\ step'[q] = step[q] /\ id'[q] = id[q]
    BY <1>11 DEF upsert_character
  <2>2. gameOf' = gameOf
    BY <1>11 DEF upsert_character
  <2>3. \A q \in Requests : Served(q)' /\ Place(q)'
    BY <1>0, <2>1, <2>2, SameStep DEF Places
  <2> QED
    BY <2>3 DEF Places
<1>12. CASE UNCHANGED vars
  BY <1>0, <1>12, SameStep DEF Places
<1> QED
  BY <1>4, <1>5, <1>6, <1>7, <1>8, <1>9, <1>10, <1>11, <1>12, StepCases

-----------------------------------------------------------------------------
(* The records fit together.                                               *)

\* Every step keeps that ids and times are taken once.
LEMMA NextTakenOnce == Types /\ Places /\ TakenOnce /\ [Next]_vars => TakenOnce'
<1> SUFFICES ASSUME Types, Places, TakenOnce, [Next]_vars PROVE TakenOnce'
  OBVIOUS
<1>1. ASSUME NEW r \in Requests, OnlyMoves(r), ~Stores(r)', gameOf' = gameOf, stamp' = stamp
      PROVE  TakenOnce'
  BY <1>1 DEF TakenOnce, OnlyMoves, Stores
<1>2. ASSUME NEW r \in Requests, Receive(r) PROVE TakenOnce'
  <2>1. OnlyMoves(r) /\ gameOf' = gameOf /\ stamp' = stamp
    BY <1>2, ReceiveMoves
  <2>2. ~Stores(r)'
    <3>1. ASSUME NEW q \in Inputs(r), ask'[r] = q, step'[r] = First(q.op) PROVE ~Stores(r)'
      <4>1. q.op \in Operations
        BY <3>1, InputTypes
      <4> QED
        BY <3>1, <4>1 DEF Stores, First, Operations, ByGame, BySession
    <3>2. step'[r] = "done" => ~Stores(r)'
      BY DEF Stores
    <3> QED
      BY <1>2, <3>1, <3>2, ReceiveMoves
  <2> QED
    BY <1>1, <2>1, <2>2
<1>3. ASSUME NEW r \in Requests, Reads(r) PROVE TakenOnce'
  <2>1. OnlyMoves(r) /\ gameOf' = gameOf /\ stamp' = stamp
    BY <1>3, ReadsMove
  <2>2. \/ step'[r] \in {"done", "get_game", "again", "read"}
        \/ step'[r] = "row" /\ ask' = ask /\ ask[r].op = "create_game"
    BY <1>3, ReadsMove, GotoMoves DEF Steps, Places, Place
  <2> QED
    BY <1>1, <2>1, <2>2 DEF Stores
<1>4. ASSUME NEW r \in Requests, create_user(r) PROVE TakenOnce'
  BY <1>1, <1>4, WritesMove DEF create_user, Stores
<1>5. ASSUME NEW r \in Requests, create_game(r) PROVE TakenOnce'
  BY <1>1, <1>5, WritesMove DEF create_game, Stores
<1>6. ASSUME NEW r \in Requests, TakeStamp(r) PROVE TakenOnce'
  <2>1. PICK s \in Sessions : stamp[s] = 0 /\ id'[r] = s /\ stamp' = [stamp EXCEPT ![s] = clock + 1]
    BY <1>6, WritesMove
  <2>2. OnlyMoves(r) /\ gameOf' = gameOf
    BY <1>6, WritesMove DEF TakeStamp
  <2>3. \A q \in Requests \ {r} : Stores(q)' => Stores(q) /\ id'[q] = id[q] /\ id[q] # s
    BY <2>1, <2>2 DEF OnlyMoves, Stores, Places, Place
  <2>4. \A p, q \in Requests : Stores(p)' /\ Stores(q)' /\ id'[p] = id'[q] => p = q
    BY <2>1, <2>3 DEF TakenOnce
  <2>5. \A t \in Sessions : t # s => stamp'[t] = stamp[t] /\ stamp[t] # clock + 1
    BY <2>1 DEF Types
  <2>6. stamp'[s] = clock + 1 /\ clock + 1 # 0
    BY <2>1 DEF Types
  <2> QED
    BY <2>2, <2>4, <2>5, <2>6 DEF TakenOnce
<1>7. ASSUME NEW r \in Requests, create_session(r) PROVE TakenOnce'
  <2>1. OnlyMoves(r) /\ step'[r] = "edge" /\ ask' = ask /\ id' = id /\ stamp' = stamp
        /\ gameOf' = [gameOf EXCEPT ![id[r]] = ask[r].target] /\ Stores(r)
    BY <1>7, WritesMove DEF create_session, Stores
  <2>2. stamp[id[r]] # 0
    BY <2>1 DEF Places, Place
  <2>3. \A q \in Requests : Stores(q)' = Stores(q)
    BY <2>1 DEF OnlyMoves, Stores
  <2>4. \A s \in Sessions : stamp[s] = 0 => gameOf'[s] = gameOf[s]
    BY <2>1, <2>2 DEF Types
  <2> QED
    BY <2>1, <2>3, <2>4 DEF TakenOnce
<1>8. ASSUME NEW r \in Requests, upsert_graph_relation(r) PROVE TakenOnce'
  BY <1>1, <1>8, WritesMove DEF upsert_graph_relation, Stores
<1>9. ASSUME NEW c \in Characters, NEW g \in Games, upsert_character(c, g) PROVE TakenOnce'
  BY <1>9 DEF upsert_character, TakenOnce, Stores
<1>10. CASE UNCHANGED vars
  BY <1>10 DEF TakenOnce, Stores
<1> QED
  BY <1>2, <1>3, <1>4, <1>5, <1>6, <1>7, <1>8, <1>9, <1>10, StepCases

\* Every step keeps that an edge joins a session to the game its row names,
\* and that the owner of a game exists.
LEMMA NextLinking ==
    Types /\ Places /\ TakenOnce /\ Linking /\ OwnersExist /\ [Next]_vars => Linking' /\ OwnersExist'
<1> SUFFICES ASSUME Types, Places, TakenOnce, Linking, OwnersExist, [Next]_vars
             PROVE  Linking' /\ OwnersExist'
  OBVIOUS
<1>1. Types' /\ Kept
  BY NextTypes, NextKept
<1>2. \A e \in edges : e[1] \in Sessions /\ e[2] \in Games /\ gameOf'[e[1]] = e[2]
  BY <1>1 DEF Linking, Types, Kept
<1>3. edges' = edges \/ \E r \in Requests : upsert_graph_relation(r)
  BY StepCases, ReceiveMoves, ReadsMove
     DEF create_user, create_game, TakeStamp, create_session, upsert_character
<1>4. Linking'
  <2>1. CASE edges' = edges
    BY <1>2, <2>1 DEF Linking
  <2>2. ASSUME NEW r \in Requests, upsert_graph_relation(r)
        PROVE  Linking'
    <3>1. edges' = edges \cup {<<id[r], ask[r].target>>} /\ gameOf' = gameOf
          /\ gameOf[id[r]] = ask[r].target
      BY <2>2, WritesMove DEF upsert_graph_relation
    <3> QED
      BY <1>2, <3>1 DEF Linking
  <2> QED
    BY <1>3, <2>1, <2>2
<1>5. owner' = owner \/ \E r \in Requests : create_game(r)
  BY StepCases, ReceiveMoves, ReadsMove
     DEF create_user, upsert_graph_relation, TakeStamp, create_session, upsert_character
<1>6. OwnersExist'
  <2>1. CASE owner' = owner
    BY <1>1, <2>1 DEF OwnersExist, Kept
  <2>2. ASSUME NEW r \in Requests, create_game(r)
        PROVE  OwnersExist'
    <3>1. PICK g \in Games : owner' = [owner EXCEPT ![g] = resolve_owner_user_id(ask[r])]
      BY <2>2 DEF create_game
    <3>2. resolve_owner_user_id(ask[r]) \in users /\ users' = users
      BY <2>2, WritesMove DEF create_game
    <3> QED
      BY <3>1, <3>2 DEF OwnersExist, Types
  <2> QED
    BY <1>5, <2>1, <2>2
<1> QED
  BY <1>4, <1>6

\* The inductive invariant holds at first.
LEMMA InitIInv == Init => IInv
<1> SUFFICES ASSUME Init PROVE IInv
  OBVIOUS
<1>1. Types
  BY InitTypes
<1>2. Places
  BY DEF Init, Places, Served, Place, Stores
<1>3. TakenOnce
  BY DEF Init, TakenOnce, Stores
<1>4. Linking /\ OwnersExist
  BY DEF Init, Linking, OwnersExist
<1> QED
  BY <1>1, <1>2, <1>3, <1>4 DEF IInv

\* The inductive invariant is kept by every step.
LEMMA NextIInv == IInv /\ [Next]_vars => IInv'
  BY NextTypes, NextPlaces, NextTakenOnce, NextLinking DEF IInv

\* The inductive invariant: what each request in flight has found out is true,
\* whatever the others have stored meanwhile.
THEOREM Inductive == Spec => []IInv
  BY InitIInv, NextIInv, PTL DEF Spec

-----------------------------------------------------------------------------
(* What requests are answered.                                             *)

\* The answers a step can give.  CallFails answers nothing well.
LEMMA Answers ==
    ASSUME IInv, Next, answer'.status = "ok"
    PROVE  \E r \in Requests :
              \/ create_user(r) \/ get_user(r) \/ create_game(r) \/ require_owned_game(r)
              \/ upsert_graph_relation(r)
              \/ list_sessions(r) \/ list_games(r) \/ list_characters(r)
              \/ list_messages(r) \/ list_events(r) \/ search_memory(r) \/ get_story_summary(r)
<1> USE DEF Answer
<1>1. NoAnswer.status # "ok"
  BY DEF NoAnswer
<1>2. Types
  BY DEF IInv
<1>3. ASSUME NEW r \in Requests,
             \/ Receive(r) \/ GetOwner(r) \/ require_owned_session(r) \/ get_character(r)
             \/ TakeStamp(r) \/ create_session(r) \/ CallFails(r)
      PROVE  answer' = NoAnswer
  <2>1. CASE Receive(r)
    BY <1>2, <2>1, ReceiveMoves
  <2>2. CASE GetOwner(r) \/ require_owned_session(r) \/ get_character(r)
    BY <1>2, <2>2 DEF GetOwner, require_owned_session, get_character, AnswerTo, Goto, Silent
  <2>3. CASE TakeStamp(r) \/ create_session(r)
    BY <1>2, <2>3 DEF TakeStamp, create_session, Goto, Silent
  <2>4. CASE CallFails(r)
    BY <1>2, <2>4 DEF CallFails, AnswerTo, StatusOf
  <2> QED
    BY <1>3, <2>1, <2>2, <2>3, <2>4
<1>4. ASSUME NEW c \in Characters, NEW g \in Games, upsert_character(c, g) PROVE answer' = NoAnswer
  BY <1>4 DEF upsert_character, Silent
<1> QED
  BY <1>1, <1>3, <1>4, Zenon DEF Next, Serve

\* What a step answers well with, of which request, and from which tables.
AnsweredAs(r) ==
    /\ answer'.ask = ask[r] /\ ask[r] \in Inputs(r)
    /\ NeedsUser(ask[r].op) => ask[r].as \in Users
    /\ \/ ~NeedsUser(ask[r].op)
       \/ /\ ask[r].op \in {"get_game", "get_session", "get_character"} \cup BySession
          /\ answer'.records = {ask[r].target} /\ Mine(r)
          /\ UNCHANGED tables
       \/ /\ ask[r].op = "create_session" /\ Mine(r) /\ id[r] \in Sessions
          /\ gameOf[id[r]] = ask[r].target /\ answer'.records = {id[r]}
          /\ gameOf' = gameOf /\ owner' = owner
          /\ <<id[r], ask[r].target>> \in edges'
       \/ /\ ask[r].op = "list_sessions" /\ Mine(r) /\ UNCHANGED tables
          /\ list_sessions(r)
          /\ answer'.records \subseteq {s \in Sessions : gameOf[s] = ask[r].target}
       \/ /\ ask[r].op = "list_characters" /\ Mine(r) /\ UNCHANGED tables
          /\ answer'.records \subseteq {c \in Characters : castOf[c] = ask[r].target}
       \/ /\ ask[r].op = "list_games" /\ UNCHANGED tables
          /\ answer'.records \subseteq {g \in Games : owner[g] = ask[r].as}

\* Whoever is told of a success is a request that passed its checks: what it
\* got is what its handler found.
LEMMA AnswerShape ==
    ASSUME IInv, Next, answer'.status = "ok"
    PROVE  \E r \in Requests : AnsweredAs(r)
<1> USE DEF Answer, AnsweredAs
<1>1. PICK r \in Requests :
              \/ create_user(r) \/ get_user(r) \/ create_game(r) \/ require_owned_game(r)
              \/ upsert_graph_relation(r)
              \/ list_sessions(r) \/ list_games(r) \/ list_characters(r)
              \/ list_messages(r) \/ list_events(r) \/ search_memory(r) \/ get_story_summary(r)
  BY Answers
<1>2. Types /\ Served(r) /\ Place(r)
  BY DEF IInv, Places
<1>3. step[r] # "done"
  BY <1>1 DEF create_user, get_user, create_game, require_owned_game, upsert_graph_relation,
              list_sessions, list_games, list_characters, list_messages, list_events,
              search_memory, get_story_summary, ReadSession
<1>4. ask[r] \in Inputs(r) /\ (NeedsUser(ask[r].op) => ask[r].as \in Users)
  BY <1>2, <1>3 DEF Served
<1>5. NoAnswer.status # "ok"
  BY DEF NoAnswer
<1>6. CASE create_user(r) \/ get_user(r) \/ create_game(r)
  <2>1. answer'.ask = ask[r]
    BY <1>2, <1>5, <1>6, AnswerMoves DEF create_user, get_user, create_game
  <2>2. ~NeedsUser(ask[r].op)
    BY <1>2, <1>6 DEF create_user, get_user, create_game, Place, NeedsUser
  <2> QED
    BY <1>4, <2>1, <2>2
<1>7. CASE require_owned_game(r)
  <2>1. step[r] = "get_game" /\ UNCHANGED tables
    BY <1>7 DEF require_owned_game
  <2>2. owner[GameOfTarget(r)] = ask[r].as /\ Owned(r)
    BY <1>5, <1>7 DEF require_owned_game, AnswerTo, IsOwner
  <2>3. ask[r].op \in {"get_game", "get_session", "get_character"} /\ Answer(r, "ok", {ask[r].target})
    BY <1>5, <2>2 DEF Owned, AnswerTo, Goto, Silent
  <2>4. answer'.ask = ask[r] /\ answer'.records = {ask[r].target}
    BY <1>2, <2>3, AnswerMoves
  <2>5. Mine(r)
    BY <1>2, <2>1, <2>2 DEF Place, Mine
  <2> QED
    BY <1>4, <2>1, <2>3, <2>4, <2>5
<1>8. CASE upsert_graph_relation(r)
  <2>1. step[r] = "edge" /\ Answer(r, "ok", {id[r]}) /\ gameOf' = gameOf /\ owner' = owner
        /\ <<id[r], ask[r].target>> \in edges'
    BY <1>8 DEF upsert_graph_relation
  <2>2. answer'.ask = ask[r] /\ answer'.records = {id[r]}
    BY <1>2, <2>1, AnswerMoves
  <2>3. ask[r].op = "create_session" /\ Mine(r) /\ id[r] \in Sessions /\ gameOf[id[r]] = ask[r].target
    BY <1>2, <2>1 DEF Place, Stores
  <2> QED
    BY <1>4, <2>1, <2>2, <2>3
<1>9. CASE list_sessions(r)
  <2>1. PICK P : /\ P \subseteq {s \in Sessions : gameOf[s] = ask[r].target}
                 /\ Answer(r, "ok", P)
    BY <1>9 DEF list_sessions, Pages
  <2>2. answer'.ask = ask[r] /\ answer'.records = P
    BY <1>2, <2>1, AnswerMoves
  <2>3. ask[r].op = "list_sessions" /\ Mine(r) /\ UNCHANGED tables
    BY <1>2, <1>9 DEF list_sessions, Place
  <2> QED
    BY <1>4, <1>9, <2>1, <2>2, <2>3
<1>10. CASE list_games(r)
  <2>1. PICK P : /\ P \subseteq {g \in Games : owner[g] = ask[r].as}
                 /\ Answer(r, "ok", P)
    BY <1>10 DEF list_games, Pages
  <2>2. answer'.ask = ask[r] /\ answer'.records = P
    BY <1>2, <2>1, AnswerMoves
  <2>3. ask[r].op = "list_games" /\ UNCHANGED tables
    BY <1>10 DEF list_games
  <2> QED
    BY <1>4, <2>1, <2>2, <2>3
<1>11. CASE list_characters(r)
  <2>1. PICK P : /\ P \subseteq {c \in Characters : castOf[c] = ask[r].target}
                 /\ Answer(r, "ok", P)
    BY <1>11 DEF list_characters, truncate_to_limit, Pages
  <2>2. answer'.ask = ask[r] /\ answer'.records = P
    BY <1>2, <2>1, AnswerMoves
  <2>3. ask[r].op = "list_characters" /\ Mine(r) /\ UNCHANGED tables
    BY <1>2, <1>11 DEF list_characters, Place
  <2> QED
    BY <1>4, <2>1, <2>2, <2>3
<1>12. CASE list_messages(r) \/ list_events(r) \/ search_memory(r) \/ get_story_summary(r)
  <2>1. step[r] = "read" /\ UNCHANGED tables
        /\ ask[r].op \in {"list_messages", "list_events", "search_memory", "get_story_summary"}
    BY <1>12 DEF list_messages, list_events, search_memory, get_story_summary, ReadSession
  <2>2. Answer(r, "ok", {ask[r].target})
    BY <1>5, <1>12 DEF list_messages, list_events, search_memory, get_story_summary, ReadSession, AnswerTo
  <2>3. answer'.ask = ask[r] /\ answer'.records = {ask[r].target}
    BY <1>2, <2>2, AnswerMoves
  <2>4. Mine(r)
    BY <1>2, <2>1 DEF Place
  <2> QED
    BY <1>4, <2>1, <2>3, <2>4 DEF BySession
<1> QED
  BY <1>1, <1>6, <1>7, <1>8, <1>9, <1>10, <1>11, <1>12

\* A step leaves the answer of a success or none.
LEMMA AnswerStatus == IInv /\ Next => answer'.status \in {"none", "ok"}
<1> SUFFICES ASSUME IInv, Next PROVE answer'.status \in {"none", "ok"}
  OBVIOUS
<1> USE DEF Answer
<1>1. NoAnswer.status = "none"
  BY DEF NoAnswer
<1>2. \A r \in Requests : \A q, status, ids :
          AnswerTo(r, q, status, ids) => answer'.status \in {"none", "ok"}
  BY <1>1 DEF AnswerTo
<1>3. \A r \in Requests : \A to : Goto(r, to) => answer' = NoAnswer
  BY DEF Goto, Silent
<1>4. ASSUME NEW r \in Requests, Receive(r) PROVE answer'.status \in {"none", "ok"}
  BY <1>1, <1>4, ReceiveMoves DEF IInv
<1>5. ASSUME NEW r \in Requests, Reads(r) PROVE answer'.status \in {"none", "ok"}
  <2>1. CASE get_user(r) \/ GetOwner(r) \/ require_owned_session(r) \/ get_character(r) \/ CallFails(r)
    BY <1>1, <1>2, <1>3, <2>1
       DEF get_user, GetOwner, require_owned_session, get_character, CallFails
  <2>2. CASE require_owned_game(r)
    BY <1>1, <1>2, <1>3, <2>2, Zenon DEF require_owned_game, Owned
  <2>3. CASE \/ list_sessions(r) \/ list_games(r) \/ list_characters(r)
             \/ list_messages(r) \/ list_events(r) \/ search_memory(r) \/ get_story_summary(r)
    BY <1>2, <2>3 DEF list_sessions, list_games, list_characters, list_messages, list_events,
                      search_memory, get_story_summary, ReadSession
  <2> QED
    BY <1>5, <2>1, <2>2, <2>3 DEF Reads
<1>6. ASSUME NEW r \in Requests, create_user(r) \/ create_game(r) \/ upsert_graph_relation(r)
      PROVE  answer'.status \in {"none", "ok"}
  BY <1>2, <1>6 DEF create_user, create_game, upsert_graph_relation
<1>7. ASSUME NEW r \in Requests, TakeStamp(r) \/ create_session(r)
      PROVE  answer'.status \in {"none", "ok"}
  BY <1>1, <1>3, <1>7 DEF TakeStamp, create_session, Silent
<1>8. ASSUME NEW c \in Characters, NEW g \in Games, upsert_character(c, g)
      PROVE  answer'.status \in {"none", "ok"}
  BY <1>1, <1>8 DEF upsert_character, Silent
<1> QED
  BY <1>4, <1>5, <1>6, <1>7, <1>8, Zenon DEF Next, Serve, Reads

\* What a request names, looked up again as a record, is of the same game.
LEMMA TargetIsRecord ==
    ASSUME NEW r \in Requests, Types, ask[r] \in Inputs(r),
           ask[r].op \in {"get_game", "get_session", "get_character"} \cup BySession
    PROVE  GameOfRecord(ask[r].target) = GameOfTarget(r)
<1>1. /\ ask[r].op \in ByGame => ask[r].target \in Games
      /\ ask[r].op \in BySession => ask[r].target \in Sessions
      /\ ask[r].op = "get_character" => ask[r].target \in Characters
  BY InputTypes
<1>2. CASE ask[r].op = "get_game"
  BY <1>1, <1>2 DEF GameOfRecord, GameOfTarget, ByGame
<1>3. CASE ask[r].op \in BySession
  BY <1>1, <1>3 DEF GameOfRecord, GameOfTarget, ByGame, BySession
<1>4. CASE ask[r].op = "get_character"
  BY <1>1, <1>4 DEF GameOfRecord, GameOfTarget, ByGame, BySession
<1> QED
  BY <1>2, <1>3, <1>4 DEF BySession

\* Whatever is stored while a request is checked, what it is answered with is of
\* games that are its user's at the moment of the answer.
LEMMA NextOwnRecords == IInv /\ Next => OwnRecordsOnly'
<1> SUFFICES ASSUME IInv, Next, answer'.status = "ok", NeedsUser(answer'.ask.op),
                    NEW x \in answer'.records
             PROVE  GameOfRecord(x)' # "none" /\ owner'[GameOfRecord(x)'] = answer'.ask.as
  BY DEF OwnRecordsOnly
<1> USE DEF AnsweredAs
<1>1. PICK r \in Requests : AnsweredAs(r)
  BY AnswerShape
<1>2. Types /\ NeedsUser(ask[r].op) /\ "none" \notin Games
  BY <1>1 DEF IInv
<1>3. CASE /\ ask[r].op \in {"get_game", "get_session", "get_character"} \cup BySession
           /\ answer'.records = {ask[r].target} /\ Mine(r)
           /\ UNCHANGED tables
  <2>1. GameOfRecord(ask[r].target) = GameOfTarget(r)
    BY <1>1, <1>2, <1>3, TargetIsRecord
  <2>2. GameOfRecord(x)' = GameOfRecord(x) /\ x = ask[r].target
    BY <1>3 DEF GameOfRecord
  <2> QED
    BY <1>1, <1>2, <1>3, <2>1, <2>2 DEF Mine
<1>4. CASE ask[r].op \in {"create_session", "list_sessions", "list_characters"}
  <2>1. Mine(r) /\ owner' = owner /\ GameOfTarget(r) = ask[r].target
    BY <1>1, <1>2, <1>4 DEF GameOfTarget, ByGame, NeedsUser, BySession
  <2>2. GameOfRecord(x)' = ask[r].target
    BY <1>1, <1>2, <1>4 DEF GameOfRecord, BySession
  <2> QED
    BY <1>1, <1>2, <2>1, <2>2 DEF Mine
<1>5. CASE ask[r].op = "list_games"
  BY <1>1, <1>2, <1>5 DEF GameOfRecord, BySession
<1> QED
  BY <1>1, <1>2, <1>3, <1>4, <1>5

\* A session whose creation was answered with success has its edge.
LEMMA NextAnswered == IInv /\ Next => AnsweredIsLinked'
<1> SUFFICES ASSUME IInv, Next PROVE AnsweredIsLinked'
  OBVIOUS
<1>1. Linking'
  BY NextIInv DEF IInv
<1>2. ASSUME answer'.status = "ok", answer'.ask.op = "create_session", NEW s \in answer'.records
      PROVE  <<s, gameOf'[s]>> \in edges'
  BY <1>2, AnswerShape DEF AnsweredAs, BySession, NeedsUser
<1> QED
  BY <1>1, <1>2 DEF AnsweredIsLinked, Linking

Answered == answer.status \in {"none", "ok"} /\ OwnRecordsOnly /\ AnsweredIsLinked

\* The answers of every step are sound; a step that changes nothing leaves the last one.
LEMMA AnsweredInductive == Spec => []Answered
<1>1. Init => Answered
  BY DEF Init, Answered, NoAnswer, OwnRecordsOnly, AnsweredIsLinked
<1>2. IInv /\ Answered /\ [Next]_vars => Answered'
  <2>1. IInv /\ Next => Answered'
    BY AnswerStatus, NextOwnRecords, NextAnswered DEF Answered
  <2>2. Answered /\ UNCHANGED vars => Answered'
    BY DEF Answered, OwnRecordsOnly, AnsweredIsLinked, GameOfRecord
  <2> QED
    BY <2>1, <2>2
<1> QED
  BY <1>1, <1>2, Inductive, PTL DEF Spec

\* Games have owners that exist, every edge is of the session's own game, and a
\* session whose creation was answered well has its edge, for any number of
\* requests that overlap.
THEOREM StoreIsSoundHolds == Spec => []StoreIsSound
<1>1. IInv /\ Answered => StoreIsSound
  BY DEF IInv, Types, Places, Served, Answered, StoreIsSound, TypeOK, OwnersExist
<1> QED
  BY <1>1, Inductive, AnsweredInductive, PTL

\* No request is answered with records of a game that is not its user's, although
\* each checks the owner in an earlier step than the one that reads.
THEOREM OwnRecordsOnlyHolds == Spec => []OwnRecordsOnly
<1>1. Answered => OwnRecordsOnly
  BY DEF Answered
<1> QED
  BY <1>1, AnsweredInductive, PTL

-----------------------------------------------------------------------------
(* Pages of sessions.                                                      *)

LimitOf(q) == normalize_limit(IF q.page > 0 THEN q.page ELSE q.limit)

\* What is still true of a page a client remembers: its sessions are of the game it
\* asked for, no more than it asked for, and the oldest of those that were created
\* to their end by then.
IsPage(old) ==
    /\ old.ask.op = "list_sessions" /\ old.ask.target \in Games
    /\ old.records \subseteq {s \in Sessions : gameOf[s] = old.ask.target}
    /\ Cardinality(old.records) <= LimitOf(old.ask)
    /\ \A t \in old.known : t \in Sessions /\ gameOf[t] \in Games
    /\ \A s \in old.records, t \in old.known :
          gameOf[t] = old.ask.target /\ stamp[t] < stamp[s] => t \in old.records

PInv == PagesAreStable /\ \A old \in noted : IsPage(old)

\* The page some client keeps changes only when a listing of sessions
\* answers.
LEMMA NotedMoves ==
    [Next]_vars => noted' = noted \/ \E r \in Requests : list_sessions(r) /\ noted' = {answer'}
  BY StepCases
     DEF Receive, Reads, get_user, GetOwner, require_owned_session, get_character,
         require_owned_game, list_sessions, list_games, list_characters, list_messages,
         list_events, search_memory, get_story_summary, ReadSession, CallFails, create_user,
         create_game, TakeStamp, create_session, upsert_graph_relation, upsert_character

\* The limit of a request is a natural number.
LEMMA LimitIsNat == ASSUME NEW q \in Query PROVE LimitOf(q) \in Nat
<1>1. q.page \in Sizes \cup {0} /\ q.limit \in Sizes \cup {0}
  BY DEF Query
<1>2. \A n \in Nat : normalize_limit(n) \in Nat
  BY DEF normalize_limit
<1>3. Sizes \subseteq Nat
  BY DEF CatalogAssumption
<1> QED
  BY <1>1, <1>2, <1>3 DEF LimitOf

\* A page that is answered.
LEMMA PageAnswered ==
    ASSUME IInv, NEW r \in Requests, list_sessions(r)
    PROVE  \E P :
              /\ answer'.ask = ask[r] /\ answer'.records = P /\ answer'.known = Linked
              /\ ask[r] \in Query /\ ask[r].op = "list_sessions" /\ ask[r].target \in Games
              /\ P \in Pages({s \in Sessions : gameOf[s] = ask[r].target}, LimitOf(ask[r]))
              /\ FirstOf(P, ask[r].target)
              /\ gameOf' = gameOf /\ stamp' = stamp /\ edges' = edges
<1>1. Types /\ step[r] = "read" /\ ask[r].op = "list_sessions"
      /\ gameOf' = gameOf /\ stamp' = stamp /\ edges' = edges
  BY DEF IInv, list_sessions
<1>2. PICK P : /\ P \in Pages({s \in Sessions : gameOf[s] = ask[r].target}, LimitOf(ask[r]))
               /\ FirstOf(P, ask[r].target) /\ AnswerTo(r, ask[r], "ok", P)
  BY DEF list_sessions, request_limit, LimitOf, Answer
<1>3. answer'.ask = ask[r] /\ answer'.records = P /\ answer'.known = Linked
  BY <1>1, <1>2, AnswerMoves
<1>4. ask[r] \in Query /\ ask[r].target \in Games
  BY <1>1, InputTypes DEF IInv, Places, Served, ByGame, Types
<1> QED
  BY <1>1, <1>2, <1>3, <1>4

\* A set of sessions is finite and has a size.
LEMMA PageIsFinite ==
    ASSUME NEW S \in SUBSET Sessions
    PROVE  IsFiniteSet(S) /\ Cardinality(S) \in Nat
  BY FS_Subset, FS_CardinalityType

\* A page is remembered as it was answered.
LEMMA PageIsNoted ==
    ASSUME IInv, NEW r \in Requests, list_sessions(r)
    PROVE  IsPage(answer)'
<1>1. PICK P :
              /\ answer'.ask = ask[r] /\ answer'.records = P /\ answer'.known = Linked
              /\ ask[r] \in Query /\ ask[r].op = "list_sessions" /\ ask[r].target \in Games
              /\ P \in Pages({s \in Sessions : gameOf[s] = ask[r].target}, LimitOf(ask[r]))
              /\ FirstOf(P, ask[r].target)
              /\ gameOf' = gameOf /\ stamp' = stamp /\ edges' = edges
  BY PageAnswered
<1>2. P \subseteq {s \in Sessions : gameOf[s] = ask[r].target}
  BY <1>1 DEF Pages
<1>3. Cardinality(P) <= LimitOf(ask[r])
  <2> DEFINE S == {s \in Sessions : gameOf[s] = ask[r].target}
  <2>1. Cardinality(S) \in Nat /\ LimitOf(ask[r]) \in Nat
    BY <1>1, PageIsFinite, LimitIsNat
  <2>2. Cardinality(P) = IF Cardinality(S) < LimitOf(ask[r]) THEN Cardinality(S) ELSE LimitOf(ask[r])
    BY <1>1 DEF Pages
  <2> HIDE DEF S
  <2> QED
    BY <2>1, <2>2
<1>4. \A t \in Linked : t \in Sessions /\ gameOf[t] \in Games
  BY DEF Linked, IInv, Linking, Types
<1> QED
  BY <1>1, <1>2, <1>3, <1>4 DEF IsPage, FirstOf, LimitOf, normalize_limit

\* A remembered page stays one: rows keep their game and their time.
LEMMA PageStays ==
    ASSUME IInv, Kept, NEW old, IsPage(old)
    PROVE  IsPage(old)'
<1>1. "none" \notin Games /\ Types /\ TakenOnce
  BY DEF IInv
<1>2. \A s \in Sessions : gameOf[s] \in Games => gameOf'[s] = gameOf[s] /\ stamp'[s] = stamp[s]
  BY <1>1 DEF Kept, TakenOnce
<1>3. \A s \in old.records : s \in Sessions /\ gameOf[s] \in Games
  BY DEF IsPage
<1>4. \A t \in old.known : t \in Sessions /\ gameOf[t] \in Games
  BY DEF IsPage
<1> QED
  BY <1>2, <1>3, <1>4 DEF IsPage, LimitOf, normalize_limit

\* A later page leaves out a session of an earlier one only for one that is older
\* and was still being created: both are full of the first sessions of the game.
LEMMA PagesCompare ==
    ASSUME IInv, NEW r \in Requests, list_sessions(r), NEW old, IsPage(old)',
           old.ask.target = ask[r].target,
           old.ask.limit = ask[r].limit, old.ask.page = ask[r].page,
           NEW s \in old.records \ answer'.records
    PROVE  \E t \in answer'.records \ old.records : t \notin old.known /\ stamp'[t] < stamp'[s]
<1> DEFINE g == ask[r].target
           n == LimitOf(ask[r])
           S == {u \in Sessions : gameOf[u] = g}
<1>1. PICK P :
              /\ answer'.ask = ask[r] /\ answer'.records = P /\ answer'.known = Linked
              /\ ask[r] \in Query /\ ask[r].op = "list_sessions" /\ g \in Games
              /\ P \in Pages(S, n)
              /\ FirstOf(P, g)
              /\ gameOf' = gameOf /\ stamp' = stamp /\ edges' = edges
  BY PageAnswered
<1>2. n \in Nat /\ LimitOf(old.ask) = n
  BY <1>1, LimitIsNat DEF LimitOf
<1>3. P \subseteq S /\ Cardinality(P) = IF Cardinality(S) < n THEN Cardinality(S) ELSE n
  BY <1>1 DEF Pages
<1>4. old.records \subseteq S /\ Cardinality(old.records) <= n
  BY <1>1, <1>2 DEF IsPage, LimitOf, normalize_limit
<1>5. /\ IsFiniteSet(S) /\ Cardinality(S) \in Nat
      /\ IsFiniteSet(P) /\ Cardinality(P) \in Nat
      /\ IsFiniteSet(old.records) /\ Cardinality(old.records) \in Nat
  BY <1>3, <1>4, PageIsFinite
<1>6. s \in S /\ s \in old.records /\ s \notin P
  BY <1>1, <1>4
<1>7. Cardinality(P) = n
  <2>1. P # S
    BY <1>6
  <2>2. Cardinality(P) # Cardinality(S)
    BY <1>3, <1>5, <2>1, FS_Subset
  <2> QED
    BY <1>3, <2>2
<1>8. PICK t \in P : t \notin old.records
  <2>1. SUFFICES ASSUME P \subseteq old.records PROVE FALSE
    OBVIOUS
  <2>2. Cardinality(P) <= Cardinality(old.records) /\ Cardinality(P) # Cardinality(old.records)
    BY <1>5, <1>6, <2>1, FS_Subset
  <2> QED
    BY <1>2, <1>4, <1>5, <1>7, <2>2
<1>9. stamp[t] \in Nat /\ stamp[s] \in Nat /\ t \in Sessions /\ s \in Sessions
      /\ gameOf[t] = g /\ gameOf[s] = g
  BY <1>3, <1>6 DEF IInv, Types
<1>10. ~(stamp[s] < stamp[t])
  BY <1>1, <1>6, <1>9 DEF FirstOf
<1>11. stamp[s] # stamp[t]
  <2>1. "none" \notin Games /\ t # s
    BY <1>6, <1>8
  <2> QED
    BY <1>1, <1>9, <2>1 DEF IInv, TakenOnce
<1>12. stamp[t] < stamp[s]
  BY <1>9, <1>10, <1>11
<1>13. t \notin old.known
  BY <1>1, <1>6, <1>8, <1>9, <1>12 DEF IsPage
<1> QED
  BY <1>1, <1>8, <1>12, <1>13

\* Every step keeps that a noted page was right, and that one asked for now
\* differs from it only by sessions that overtook each other.
LEMMA NextPages == IInv /\ PInv /\ [Next]_vars => PInv'
<1> SUFFICES ASSUME IInv, PInv, [Next]_vars PROVE PInv'
  OBVIOUS
<1>1. Kept
  BY NextKept DEF IInv
<1>2. \A old \in noted : IsPage(old)'
  BY <1>1, PageStays DEF PInv
<1>3. \A old \in noted' : IsPage(old)'
  <2>1. CASE noted' = noted
    BY <1>2, <2>1
  <2>2. ASSUME NEW r \in Requests, list_sessions(r), noted' = {answer'} PROVE \A old \in noted' : IsPage(old)'
    BY <2>2, PageIsNoted
  <2> QED
    BY <2>1, <2>2, NotedMoves
<1>4. PagesAreStable'
  <2>1. CASE UNCHANGED vars
    BY <2>1 DEF PInv, PagesAreStable
  <2>2. CASE Next
    <3>1. SUFFICES ASSUME NEW old \in noted',
                          answer'.ask.op = "list_sessions", answer'.status = "ok",
                          old.ask.target = answer'.ask.target,
                          old.ask.limit = answer'.ask.limit, old.ask.page = answer'.ask.page,
                          NEW s \in old.records \ answer'.records
                   PROVE  \E t \in answer'.records \ old.records :
                              t \notin old.known /\ stamp'[t] < stamp'[s]
      BY DEF PagesAreStable
    <3>2. PICK r \in Requests : answer'.ask = ask[r] /\ list_sessions(r)
      BY <2>2, <3>1, AnswerShape DEF AnsweredAs, NeedsUser, BySession
    <3> QED
      BY <1>3, <3>1, <3>2, PagesCompare
  <2> QED
    BY <2>1, <2>2
<1> QED
  BY <1>3, <1>4 DEF PInv

\* Pages of the first sessions of a game only grow, except where two creations
\* overtake each other, for pages of any size and any number of sessions.
THEOREM PagesAreStableHolds == Spec => []PagesAreStable
<1>1. Init => PInv
  BY DEF Init, PInv, PagesAreStable
<1>2. PInv => PagesAreStable
  BY DEF PInv
<1> QED
  BY <1>1, <1>2, NextPages, Inductive, PTL DEF Spec
=============================================================================
