------------------------------- MODULE MCCatalog -------------------------------
(* One request of any operation beside one that creates and lists sessions. *)
EXTENDS Catalog, TLC

CONSTANTS u1, u2, g1, s1, s2, c1, r1, r2

OpsOf == [r \in {r1, r2} |->
            IF r = r1 THEN Operations ELSE {"create_game", "create_session", "list_sessions"}]

Alike == Permutations(Users) \cup Permutations(Sessions)
=============================================================================
