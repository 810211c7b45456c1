---------------------------- MODULE TurnPromise -----------------------------
(***************************************************************************)
(* What SendMessage promises the client of a turn, with the store, the LLM *)
(* and the reply channel left out: the question is stored before the       *)
(* reply, the reply before its memory job, and a client that is told the   *)
(* turn is complete is told so after all three.  A client told of a        *)
(* failure, or cut off, learns nothing about how far the turn went.        *)
(***************************************************************************)
CONSTANT Turns

VARIABLES
  stored,   \* what the store holds of each turn
  told      \* what the client of each turn has been told

promiseVars == <<stored, told>>

Init ==
  /\ stored = [t \in Turns |-> "nothing"]
  /\ told = [t \in Turns |-> "nothing"]

Store(t, from, to) ==
  /\ stored[t] = from
  /\ stored' = [stored EXCEPT ![t] = to]
  /\ UNCHANGED told

\* Only a turn that is whole in the store may be called complete.
Complete(t) ==
  /\ told[t] = "nothing"
  /\ stored[t] = "job"
  /\ told' = [told EXCEPT ![t] = "complete"]
  /\ UNCHANGED stored

Fail(t) ==
  /\ told[t] = "nothing"
  /\ told' = [told EXCEPT ![t] = "failure"]
  /\ UNCHANGED stored

Next ==
  \E t \in Turns : \/ Store(t, "nothing", "question")
                   \/ Store(t, "question", "reply")
                   \/ Store(t, "reply", "job")
                   \/ Complete(t) \/ Fail(t)

Spec == Init /\ [][Next]_promiseVars
=============================================================================
