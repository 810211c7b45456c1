----------------------------- MODULE MCMigrations -----------------------------
(* Three migrations, the second the one to owners; the others stand for     *)
(* those before and after it.                                               *)
EXTENDS Migrations

FewStatements == <<1, 3, 1>>
=============================================================================
