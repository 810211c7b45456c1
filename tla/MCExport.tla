------------------------------ MODULE MCExport ------------------------------
(* A session with a summary, an event and a memory chunk; a character and a *)
(* fact; a second session may be created meanwhile.                         *)
EXTENDS Export

CONSTANTS s1, s2

One(id) == <<[id |-> id, ver |-> 0]>>
SmallGame ==
    [k \in Keys |-> CASE k = <<"session">> -> One(s1)
                     [] k[1] \in {"character", "world_fact"} -> One(1)
                     [] Len(k) = 2 /\ k[2] = s1 -> One(1)
                     [] OTHER -> <<>>]
=============================================================================
