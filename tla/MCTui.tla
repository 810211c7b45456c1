------------------------------- MODULE MCTui --------------------------------
(* Two games with a session each, the transcript and a panel of the game. *)
EXTENDS Tui

CONSTANTS g1, g2, s1, s2, alpha, beta

OneEach == [s \in {s1, s2} |-> IF s = s1 THEN g1 ELSE g2]
OnePanel == <<"characters">>
Listed == <<g1, g2, s1, s2>>
Titles == [e \in {g1, g2, s1, s2} |-> IF e = g2 THEN <<beta>> ELSE <<alpha>>]

\* What tells two states of the run apart: all but the Context tab, which no guard and
\* no other variable depends on, and of which the properties say its type only.
AllButTheTab ==
    <<pc, todo, missed, game, session, finder, error, messages, panel, kept, streaming,
      saved, server, events, faults, configured>>
=============================================================================
