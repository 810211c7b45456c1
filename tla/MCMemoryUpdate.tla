--------------------------- MODULE MCMemoryUpdate ---------------------------
(* Extractions for checking MemoryUpdate.                                  *)
EXTENDS MemoryUpdate, TLC

Fact(s, o) == [subject |-> s, object |-> o]

\* An event, and a character and a fact, which are looked up before they are stored.
OneExtraction ==
  { [event |-> {"meeting"}, character |-> {"ann"}, fact |-> {Fact("ann", "key")},
     location |-> {}] }

AnyWorker == Permutations(Workers)
=============================================================================
