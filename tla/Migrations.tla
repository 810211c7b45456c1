------------------------------ MODULE Migrations ------------------------------
(***************************************************************************)
(* Schema migrations (server/src/db/surreal/mod.rs migrate,                *)
(* server/src/db/surreal/migrations.rs).  A server migrates when it starts *)
(* and serves afterwards; several may start together, and any may stop at  *)
(* any call.  The statements of a migration are transactions of their own. *)
(* The migration "user_ownership" also changes rows: it defines the owner  *)
(* of a game with a default and then gives one to the games without.       *)
(***************************************************************************)
EXTENDS Naturals

CONSTANTS
    Servers,        \* server processes of this release
    Last,           \* number of migrations: 6
    Statements,     \* statements of each migration
    Ownership,      \* the version "user_ownership": 4
    DefineOwner,    \* its statement DEFINE FIELD ... DEFAULT ""
    UpdateOwner,    \* its statement UPDATE ... WHERE owner_user_id = NONE
    Games, Users,   \* game ids and user ids
    MaxStops        \* bound: servers stopped, calls failed

ASSUME MigrationsAssumption ==
    /\ Last \in Nat /\ Statements \in [1..Last -> Nat \ {0}]
    /\ Ownership \in 1..Last
    /\ DefineOwner \in 1..Statements[Ownership] /\ UpdateOwner \in 1..Statements[Ownership]
    /\ DefineOwner < UpdateOwner
    /\ MaxStops \in Nat
    /\ \A u \in Users : u # "none" /\ u # "nobody" /\ u # "absent"

VARIABLES
    schema,     \* statements applied: pairs of a version and a number
    recorded,   \* versions in schema_migration
    owner,      \* of each game: "absent" before it is created, "none" when the field is
                \* not set, "nobody" when it is empty
    state,      \* of each server: "stopped", "started", "migrating", "serving"
    known,      \* versions each read as applied
    version,    \* the migration each is at
    statement,  \* the next statement of it
    stops       \* stops so far

migrationVars == <<schema, recorded, owner, state, known, version, statement, stops>>

MigrationInit ==
    /\ schema = {} /\ recorded = {}
    /\ owner = [g \in Games |-> "absent"]
    /\ state = [s \in Servers |-> "stopped"]
    /\ known = [s \in Servers |-> {}]
    /\ version = [s \in Servers |-> 1] /\ statement = [s \in Servers |-> 1]
    /\ stops = 0

\* connect: the server signs in and defines the table schema_migration.
Start(s) ==
    /\ state[s] = "stopped" /\ state' = [state EXCEPT ![s] = "started"]
    /\ UNCHANGED <<schema, recorded, owner, known, version, statement, stops>>

FromOne(s) == version' = [version EXCEPT ![s] = 1] /\ statement' = [statement EXCEPT ![s] = 1]

applied_migrations(s) ==
    /\ state[s] = "started" /\ state' = [state EXCEPT ![s] = "migrating"]
    /\ known' = [known EXCEPT ![s] = recorded]
    /\ FromOne(s)
    /\ UNCHANGED <<schema, recorded, owner, stops>>

AtMigration(s) == state[s] = "migrating" /\ version[s] <= Last
NextVersion(s) ==
    /\ version' = [version EXCEPT ![s] = @ + 1]
    /\ statement' = [statement EXCEPT ![s] = 1]

\* Mutant: the loop waits at what was applied.
SkipInPlace(s) == AtMigration(s) /\ version[s] \in known[s] /\ UNCHANGED migrationVars

\* continue: what was applied when the server started is passed over.
Skip(s) ==
    /\ AtMigration(s) /\ version[s] \in known[s] /\ NextVersion(s)
    /\ UNCHANGED <<schema, recorded, owner, state, known, stops>>

\* Mutant: no game is updated.
UpdateNothing(g) == owner[g]
UpdateMissing(g) == IF owner[g] = "none" THEN "nobody" ELSE owner[g]

\* A statement is applied and, unless it fails, the next one follows.
Apply(s) ==
    /\ AtMigration(s) /\ version[s] \notin known[s]
    /\ statement[s] <= Statements[version[s]]
    /\ schema' = schema \cup {<<version[s], statement[s]>>}
    /\ statement' = [statement EXCEPT ![s] = @ + 1]
    /\ owner' = IF version[s] = Ownership /\ statement[s] = UpdateOwner
                THEN [g \in Games |-> UpdateMissing(g)] ELSE owner
    /\ UNCHANGED <<recorded, state, known, version, stops>>

\* Mutant: the migration is recorded when it begins.
AnyTime(s) == statement[s] >= 1
AllApplied(s) == statement[s] > Statements[version[s]]

record_migration(s) ==
    /\ AtMigration(s) /\ version[s] \notin known[s] /\ AllApplied(s)
    /\ recorded' = recorded \cup {version[s]}
    /\ NextVersion(s)
    /\ UNCHANGED <<schema, owner, state, known, stops>>

\* Mutant: a server whose schema lacks the last migration serves, too.
OneBefore(s) == version[s] >= Last
LoopEnded(s) == version[s] > Last

Serve(s) ==
    /\ state[s] = "migrating" /\ LoopEnded(s)
    /\ state' = [state EXCEPT ![s] = "serving"]
    /\ UNCHANGED <<schema, recorded, owner, known, version, statement, stops>>

\* A call fails, or the process is stopped: the server exits.
Stop(s) ==
    /\ state[s] # "stopped" /\ state' = [state EXCEPT ![s] = "stopped"]
    /\ stops < MaxStops /\ stops' = stops + 1
    /\ UNCHANGED <<schema, recorded, owner, known, version, statement>>

create_game(s, g, u) ==
    /\ state[s] = "serving" /\ owner[g] = "absent"
    /\ owner' = [owner EXCEPT ![g] = u]
    /\ UNCHANGED <<schema, recorded, state, known, version, statement, stops>>

\* External: a server of a release without owners stores a game.
OldCreateGame(g) ==
    /\ 1 \in recorded /\ owner[g] = "absent"
    /\ owner' = [owner EXCEPT ![g] = IF <<Ownership, DefineOwner>> \in schema
                                     THEN "nobody" ELSE "none"]
    /\ UNCHANGED <<schema, recorded, state, known, version, statement, stops>>

Migrate(s) ==
    applied_migrations(s) \/ Skip(s) \/ Apply(s) \/ record_migration(s) \/ Serve(s)

MigrationNext ==
    \/ \E s \in Servers : Start(s) \/ Migrate(s) \/ Stop(s)
    \/ \E g \in Games : OldCreateGame(g) \/ \E s \in Servers, u \in Users : create_game(s, g, u)

MigrationSpec == MigrationInit /\ [][MigrationNext]_migrationVars

\* A server that has started goes on; whoever stops it starts it again or not.
FairMigrationSpec == MigrationSpec /\ \A s \in Servers : WF_migrationVars(Migrate(s))

-----------------------------------------------------------------------------
(* Properties.                                                             *)

MigrationTypeOK ==
    /\ schema \subseteq (1..Last) \X (Nat \ {0})
    /\ recorded \subseteq 1..Last
    /\ owner \in [Games -> {"absent", "none", "nobody"} \cup Users]
    /\ state \in [Servers -> {"stopped", "started", "migrating", "serving"}]
    /\ known \in [Servers -> SUBSET (1..Last)]
    /\ version \in [Servers -> 1..Last + 1]
    /\ statement \in [Servers -> Nat \ {0}]
    /\ stops \in 0..MaxStops

Complete(v) == \A k \in 1..Statements[v] : <<v, k>> \in schema

\* What is recorded as applied is applied, with all of its statements, although
\* a server may stop between any two of them and another may migrate meanwhile.
RecordedIsApplied == \A v \in recorded : Complete(v)

\* A server that serves finds the schema of every migration it knows.
ServingHasSchema ==
    \A s \in Servers : state[s] = "serving" => \A v \in 1..Last : Complete(v) /\ v \in recorded

\* Once the migration to owners is recorded no game is without, not even one
\* that a server of the old release stored while it was applied.
EveryGameHasOwner ==
    Ownership \in recorded => \A g \in Games : owner[g] # "none"

\* A server that migrates once more what another one has migrated takes no game
\* away from its owner.
OwnersAreKept == [][\A g \in Games : owner[g] \in Users => owner'[g] = owner[g]]_owner

\* A server that has started serves or stops.
StartsOrStops ==
    \A s \in Servers : state[s] = "started" ~> state[s] \in {"serving", "stopped"}
=============================================================================
