-------------------------------- MODULE Catalog --------------------------------
(***************************************************************************)
(* Users, games and sessions (server/src/api/grpc/user_service.rs,         *)
(* game_service.rs, session_service.rs, memory_service.rs, ownership.rs,   *)
(* pagination.rs and the calls of db/surreal/mod.rs they make).  Requests  *)
(* of several clients overlap; each store call of a request is a step, so  *)
(* that what a request has checked may be old when it acts on it.          *)
(*                                                                         *)
(* Characters stand for every record of a game that jobs store, and what a *)
(* request reads of a session is named by the session.                     *)
(***************************************************************************)
EXTENDS Naturals, FiniteSets

CONSTANTS
    Users, Games, Sessions, Characters,     \* ids
    Requests,       \* requests in flight at once
    Ops,            \* for each request the operations it may ask for
    Sizes,          \* page sizes and limits they ask for
    Default,        \* the limit that stands for 0: 50
    Cap,            \* the largest limit: 1000
    MaxFaults       \* bound: store and LLM calls that fail

ASSUME CatalogAssumption ==
    /\ Sizes \subseteq Nat /\ Default \in Nat /\ Cap \in Nat /\ Default <= Cap
    /\ MaxFaults \in Nat
    /\ {"none", "invalid"} \cap (Users \cup Games \cup Sessions) = {}
    /\ Games \cap Sessions = {} /\ Games \cap Characters = {} /\ Sessions \cap Characters = {}
    /\ IsFiniteSet(Sessions)

VARIABLES
    users,      \* table user_account
    owner,      \* table game: the owner of each, "none" before it is stored
    gameOf,     \* table session: the game of each, "none" before it is stored
    castOf,     \* table character: the game of each, "none" before it is stored
    edges,      \* table session_in_game
    clock,      \* stamps taken
    stamp,      \* created_at of each session
    ask,        \* of each request: what is asked
    step,       \* the call it is at, "done" when it is answered
    id,         \* the id it has chosen for its new row
    faults,     \* faults so far
    answer,     \* history: what the last step has answered well, with the ids of the records
    noted       \* history: a page of sessions a client remembers, or nothing

tables   == <<users, owner, gameOf, castOf, edges>>
vars     == <<users, owner, gameOf, castOf, edges, clock, stamp, ask, step, id, faults, answer,
              noted>>

\* Metadata without a user, with a user, and with what is no text.
Metadata == Users \cup {"none", "invalid"}

ByGame    == {"get_game", "create_session", "list_sessions", "list_characters"}
BySession == {"get_session", "list_messages", "get_story_summary", "list_events", "search_memory"}

Operations ==
    ByGame \cup BySession
      \cup {"create_user", "get_user", "create_game", "list_games", "get_character"}

ASSUME CatalogOps == Ops \in [Requests -> SUBSET Operations]

Targets(op) ==
    CASE op \in ByGame        -> Games
      [] op \in BySession     -> Sessions
      [] op = "get_character" -> Characters
      [] op = "get_user"      -> Users
      [] op = "create_game"   -> Users \cup {"none"}
      [] OTHER                -> {"none"}

NoRequest == [op |-> "none", as |-> "none", target |-> "none", present |-> TRUE, limit |-> 0,
              page |-> 0]

NoAnswer == [ask |-> NoRequest, status |-> "none", records |-> {}, known |-> {}]

Init ==
    /\ users = {} /\ edges = {}
    /\ owner = [g \in Games |-> "none"]
    /\ gameOf = [s \in Sessions |-> "none"] /\ castOf = [c \in Characters |-> "none"]
    /\ clock = 0 /\ stamp = [s \in Sessions |-> 0]
    /\ ask = [r \in Requests |-> NoRequest]
    /\ step = [r \in Requests |-> "done"] /\ id = [r \in Requests |-> "none"]
    /\ faults = 0
    /\ answer = NoAnswer
    /\ noted = {}

Silent == answer' = NoAnswer

Goto(r, to) == step' = [step EXCEPT ![r] = to] /\ Silent /\ UNCHANGED <<ask, id>>

\* The sessions whose creation has come to its end.
Linked == {s \in Sessions : \E e \in edges : e[1] = s}

AnswerTo(r, q, status, ids) ==
    /\ step' = [step EXCEPT ![r] = "done"]
    /\ ask' = [ask EXCEPT ![r] = NoRequest] /\ id' = [id EXCEPT ![r] = "none"]
    /\ answer' = IF status # "ok" THEN NoAnswer
                 ELSE [ask |-> q, status |-> status, records |-> ids,
                       known |-> IF q.op = "list_sessions" THEN Linked ELSE {}]

Answer(r, status, ids) == AnswerTo(r, ask[r], status, ids)

Ids     == Users \cup Games \cup Sessions \cup Characters
Creates == {"create_user", "create_game", "create_session"}
Lists   == {"list_games", "list_sessions", "list_characters"}

Asked(op) == {r \in Requests : ask[r].op = op}

\* Bound: a row is asked for while an id is left for it.
HasId(op) ==
    CASE op = "create_user"    -> Cardinality(Asked(op)) < Cardinality(Users \ users)
      [] op = "create_game"    -> Cardinality(Asked(op)) < Cardinality({g \in Games : owner[g] = "none"})
      [] op = "create_session" -> Cardinality(Asked(op)) < Cardinality({s \in Sessions : stamp[s] = 0})
      [] OTHER                 -> TRUE

\* What clients ask: with a title or name where they create something, and a limit
\* and a page size where they list something.
Inputs(r) ==
    {q \in [op : Ops[r], as : Metadata, target : Ids \cup {"none"}, present : BOOLEAN,
            limit : Sizes \cup {0}, page : Sizes \cup {0}] :
        /\ q.target \in Targets(q.op)
        /\ q.op \in Creates \/ q.present
        /\ IF q.op \in Lists THEN {q.limit, q.page} \subseteq Sizes ELSE q.limit = 0 /\ q.page = 0}

-----------------------------------------------------------------------------
(* Who asks: what a handler decides before its first call.                 *)

require_user_id(q) == q.as \notin {"none", "invalid"}

\* The owner of a new game: "none" stands for no such user.
resolve_owner_user_id(q) ==
    CASE q.as = "invalid"              -> "none"
      [] q.as = "none"                 -> q.target
      [] q.target \in {"none", q.as}   -> q.as
      [] q.target \notin {"none", q.as} /\ q.as \in Users -> "none"

First(op) ==
    CASE op \in ByGame        -> "get_game"
      [] op \in BySession     -> "get_session"
      [] op = "get_character" -> "get_character"
      [] op = "list_games"    -> "read"
      [] op = "create_game"   -> "get_owner"
      [] op = "create_user"   -> "row"
      [] op = "get_user"      -> "get_user"

\* The handlers of users and of a new game require no metadata.
NeedsUser(op) == op \notin {"create_user", "get_user", "create_game"}

\* The status a request is refused with at once, or "ok".
Admission(q) ==
    CASE NeedsUser(q.op) /\ ~require_user_id(q) -> "denied"
      [] q.op = "create_game" /\ resolve_owner_user_id(q) = "none" -> "denied"
      [] q.op = "create_game" /\ resolve_owner_user_id(q) # "none" /\ ~q.present -> "invalid"
      [] q.op = "create_user" /\ ~q.present -> "invalid"
      [] OTHER -> "ok"

Receive(r) ==
    /\ step[r] = "done"
    /\ \E q \in Inputs(r) :
          /\ HasId(q.op)
          /\ IF Admission(q) = "ok"
             THEN /\ step' = [step EXCEPT ![r] = First(q.op)]
                  /\ ask' = [ask EXCEPT ![r] = q]
                  /\ Silent /\ UNCHANGED id
             ELSE AnswerTo(r, q, Admission(q), {})
    /\ UNCHANGED <<tables, clock, stamp, faults, noted>>

-----------------------------------------------------------------------------
(* Users and games.                                                        *)

create_user(r) ==
    /\ step[r] = "row" /\ ask[r].op = "create_user"
    /\ \E u \in Users \ users : users' = users \cup {u} /\ Answer(r, "ok", {u})
    /\ UNCHANGED <<owner, gameOf, castOf, edges, clock, stamp, faults, noted>>

get_user(r) ==
    /\ step[r] = "get_user"
    /\ IF ask[r].target \in users THEN Answer(r, "ok", {ask[r].target})
       ELSE Answer(r, "not_found", {})
    /\ UNCHANGED <<tables, clock, stamp, faults, noted>>

\* Mutant: the user of a new game is not looked up.
AnyOwner(r) == TRUE
OwnerExists(r) == resolve_owner_user_id(ask[r]) \in users

GetOwner(r) ==
    /\ step[r] = "get_owner"
    /\ IF OwnerExists(r) THEN Goto(r, "row") ELSE Answer(r, "not_found", {})
    /\ UNCHANGED <<tables, clock, stamp, faults, noted>>

create_game(r) ==
    /\ step[r] = "row" /\ ask[r].op = "create_game"
    /\ \E g \in Games :
          /\ owner[g] = "none"
          /\ owner' = [owner EXCEPT ![g] = resolve_owner_user_id(ask[r])]
          /\ Answer(r, "ok", {g})
    /\ UNCHANGED <<users, gameOf, castOf, edges, clock, stamp, faults, noted>>

-----------------------------------------------------------------------------
(* What is asked for, and whose it is.                                     *)

require_owned_session(r) ==
    /\ step[r] = "get_session"
    /\ IF gameOf[ask[r].target] = "none" THEN Answer(r, "not_found", {}) ELSE Goto(r, "get_game")
    /\ UNCHANGED <<tables, clock, stamp, faults, noted>>

get_character(r) ==
    /\ step[r] = "get_character"
    /\ IF castOf[ask[r].target] = "none" THEN Answer(r, "not_found", {}) ELSE Goto(r, "get_game")
    /\ UNCHANGED <<tables, clock, stamp, faults, noted>>

\* The game of a record a request names.
GameOfTarget(r) ==
    CASE ask[r].op \in ByGame        -> ask[r].target
      [] ask[r].op \in BySession     -> gameOf[ask[r].target]
      [] ask[r].op = "get_character" -> castOf[ask[r].target]

\* What follows when the game is the user's.
Owned(r) ==
    CASE ask[r].op \in {"get_game", "get_session", "get_character"} -> Answer(r, "ok", {ask[r].target})
      [] ask[r].op = "create_session" /\ ~ask[r].present -> Answer(r, "invalid", {})
      [] ask[r].op = "create_session" /\ ask[r].present  -> Goto(r, "again")
      [] OTHER -> Goto(r, "read")

\* Mutant: the owner of the game is not compared with the user.
IsAnyones(g, u) == owner[g] # "none"
IsOwner(g, u)   == owner[g] = u

require_owned_game(r) ==
    /\ step[r] = "get_game"
    /\ LET g == GameOfTarget(r) IN
       CASE owner[g] = "none" -> Answer(r, "not_found", {})
         [] owner[g] # "none" /\ ~IsOwner(g, ask[r].as) -> Answer(r, "denied", {})
         [] OTHER -> Owned(r)
    /\ UNCHANGED <<tables, clock, stamp, faults, noted>>

\* The time of a row is later than that of every row before.
NextTime == clock + 1

\* create_session of the store looks the game up once more, then takes the id
\* and the time of the row, before it is sent.
TakeStamp(r) ==
    /\ step[r] = "again" /\ step' = [step EXCEPT ![r] = "row"]
    /\ \E s \in Sessions :
          /\ stamp[s] = 0
          /\ id' = [id EXCEPT ![r] = s]
          /\ stamp' = [stamp EXCEPT ![s] = clock + 1]
    /\ clock' = NextTime
    /\ Silent /\ UNCHANGED <<tables, ask, faults, noted>>

create_session(r) ==
    /\ step[r] = "row" /\ ask[r].op = "create_session" /\ Goto(r, "edge")
    /\ gameOf' = [gameOf EXCEPT ![id[r]] = ask[r].target]
    /\ UNCHANGED <<users, owner, castOf, edges, clock, stamp, faults, noted>>

upsert_graph_relation(r) ==
    /\ step[r] = "edge" /\ Answer(r, "ok", {id[r]})
    /\ edges' = edges \cup {<<id[r], ask[r].target>>}
    /\ UNCHANGED <<users, owner, gameOf, castOf, clock, stamp, faults, noted>>

-----------------------------------------------------------------------------
(* Listings.                                                               *)

\* A page size above zero, else the limit.
request_limit(r) == IF ask[r].page > 0 THEN ask[r].page ELSE ask[r].limit

normalize_limit(n) == IF n = 0 THEN Default ELSE IF n > Cap THEN Cap ELSE n

\* The sets of at most n members of S, and of n where S has more.
Pages(S, n) == {P \in SUBSET S : Cardinality(P) = IF Cardinality(S) < n THEN Cardinality(S) ELSE n}

\* Mutant: ORDER BY created_at DESC.
NewestOf(P, g) ==
    \A s \in P, t \in Sessions : gameOf[t] = g /\ stamp[t] > stamp[s] => t \in P
FirstOf(P, g) ==
    \A s \in P, t \in Sessions : gameOf[t] = g /\ stamp[t] < stamp[s] => t \in P

\* The client may remember the page.
list_sessions(r) ==
    /\ step[r] = "read" /\ ask[r].op = "list_sessions"
    /\ \E P \in Pages({s \in Sessions : gameOf[s] = ask[r].target}, normalize_limit(request_limit(r))) :
          FirstOf(P, ask[r].target) /\ Answer(r, "ok", P)
    /\ (noted' = noted) \/ (noted = {} /\ noted' = {answer'})
    /\ UNCHANGED <<tables, clock, stamp, faults>>

\* ORDER BY created_at DESC: which games the page leaves out is not modelled.
list_games(r) ==
    /\ step[r] = "read" /\ ask[r].op = "list_games"
    /\ \E P \in Pages({g \in Games : owner[g] = ask[r].as}, normalize_limit(request_limit(r))) :
          Answer(r, "ok", P)
    /\ UNCHANGED <<tables, clock, stamp, faults, noted>>

\* truncate_to_limit: everything of the game is read, and zero is no limit.
truncate_to_limit(S, n) == IF n > 0 THEN Pages(S, n) ELSE {S}

list_characters(r) ==
    /\ step[r] = "read" /\ ask[r].op = "list_characters"
    /\ \E P \in truncate_to_limit({c \in Characters : castOf[c] = ask[r].target}, request_limit(r)) :
          Answer(r, "ok", P)
    /\ UNCHANGED <<tables, clock, stamp, faults, noted>>

ReadSession(r, op) ==
    /\ step[r] = "read" /\ ask[r].op = op /\ Answer(r, "ok", {ask[r].target})
    /\ UNCHANGED <<tables, clock, stamp, faults, noted>>

list_messages(r) == ReadSession(r, "list_messages")
list_events(r)   == ReadSession(r, "list_events")
search_memory(r) == ReadSession(r, "search_memory")

get_story_summary(r) ==
    \/ ReadSession(r, "get_story_summary")
    \/ /\ step[r] = "read" /\ ask[r].op = "get_story_summary" /\ Answer(r, "not_found", {})
       /\ UNCHANGED <<tables, clock, stamp, faults, noted>>

-----------------------------------------------------------------------------
(* Faults and jobs.                                                        *)

\* Mutant: what goes wrong after the row is stored is not reported.
HideLate(r) == IF step[r] = "edge" THEN "ok" ELSE "error"
StatusOf(r) == "error"

\* A store call fails, or embed does: the request is answered with the error.
CallFails(r) ==
    /\ step[r] # "done" /\ faults < MaxFaults /\ faults' = faults + 1
    /\ Answer(r, StatusOf(r), {id[r]} \ {"none"})
    /\ UNCHANGED <<tables, clock, stamp, noted>>

\* A job stores a character of a game.
upsert_character(c, g) ==
    /\ castOf[c] = "none" /\ owner[g] # "none"
    /\ castOf' = [castOf EXCEPT ![c] = g]
    /\ Silent /\ UNCHANGED <<users, owner, gameOf, edges, clock, stamp, ask, step, id, faults, noted>>

Serve(r) ==
    \/ create_user(r) \/ get_user(r) \/ GetOwner(r) \/ create_game(r)
    \/ require_owned_session(r) \/ get_character(r) \/ require_owned_game(r)
    \/ TakeStamp(r) \/ create_session(r) \/ upsert_graph_relation(r)
    \/ list_sessions(r) \/ list_games(r) \/ list_characters(r)
    \/ list_messages(r) \/ list_events(r) \/ search_memory(r) \/ get_story_summary(r)

Next ==
    \/ \E r \in Requests : Receive(r) \/ Serve(r) \/ CallFails(r)
    \/ \E c \in Characters, g \in Games : upsert_character(c, g)

Spec == Init /\ [][Next]_vars

-----------------------------------------------------------------------------
(* Properties.                                                             *)

Steps == {"get_user", "get_owner", "get_session", "get_character", "get_game", "again", "row", "edge",
          "read", "done"}

TypeOK ==
    /\ users \subseteq Users
    /\ owner \in [Games -> Users \cup {"none"}]
    /\ gameOf \in [Sessions -> Games \cup {"none"}]
    /\ castOf \in [Characters -> Games \cup {"none"}]
    /\ edges \subseteq Sessions \X Games
    /\ clock \in Nat /\ stamp \in [Sessions -> 0..clock]
    /\ step \in [Requests -> Steps]
    /\ id \in [Requests -> Sessions \cup {"none"}]
    /\ \A r \in Requests : ask[r] \in Inputs(r) \cup {NoRequest}
    /\ answer.status \in {"none", "ok"}
    /\ faults \in 0..MaxFaults

GameOfRecord(x) ==
    IF x \in Games THEN x ELSE IF x \in Sessions THEN gameOf[x] ELSE castOf[x]

\* A request that is answered well has been shown only records of games of the
\* user in its metadata, whatever was stored while it was checked.
OwnRecordsOnly ==
    answer.status = "ok" /\ NeedsUser(answer.ask.op) =>
        \A x \in answer.records :
            GameOfRecord(x) # "none" /\ owner[GameOfRecord(x)] = answer.ask.as

\* The owner of every game is a user that exists.
OwnersExist == \A g \in Games : owner[g] # "none" => owner[g] \in users

\* A session whose creation was answered well is stored and has its edge, to the
\* game it names; a row without its edge is left only where an error was told.
AnsweredIsLinked ==
    /\ answer.status = "ok" /\ answer.ask.op = "create_session" =>
          \A s \in answer.records : <<s, gameOf[s]>> \in edges
    /\ \A e \in edges : gameOf[e[1]] = e[2]

\* The records fit together.
StoreIsSound == TypeOK /\ OwnersExist /\ AnsweredIsLinked

\* What a client has seen in a page of sessions leaves it only for an older session
\* that was still being created when it looked: pages of the first sessions grow at
\* their end, except where two creations overtake each other.
PagesAreStable ==
    \A old \in noted :
        /\ answer.ask.op = "list_sessions" /\ answer.status = "ok"
        /\ old.ask.target = answer.ask.target
        /\ old.ask.limit = answer.ask.limit /\ old.ask.page = answer.ask.page
        => \A s \in old.records \ answer.records :
               \E t \in answer.records \ old.records :
                   t \notin old.known /\ stamp[t] < stamp[s]
=============================================================================
