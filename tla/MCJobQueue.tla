----------------------------- MODULE MCJobQueue -----------------------------
(* Model values and symmetry for checking JobQueue.                        *)
EXTENDS JobQueue, TLC

AnyRunner == Permutations(Runners) \cup Permutations(Admins)
=============================================================================
