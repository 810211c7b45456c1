------------------------------ MODULE MCContext ------------------------------
(* Three sessions: one with rows of every kind and messages up to the       *)
(* limit, two whose rows and messages do not all fit.                       *)
EXTENDS Context

Plain(chars, words) == [chars |-> chars, words |-> words, punctuation |-> 0, non_ascii |-> 0]
Short  == Plain(24, 5)
Medium == Plain(80, 16)
Large  == Plain(200, 40)
Long   == Plain(400, 80)
Foreign == [chars |-> 40, words |-> 1, punctuation |-> 4, non_ascii |-> 30]

NewRow(id, text, w) == [id |-> id, text |-> text, w |-> w]
NewMessage(id, text) == [id |-> id, text |-> text]

\* Chunk 1 is only found by its words, chunk 2 by its words and its embedding,
\* chunk 3 by its embedding, chunk 4 is of another session; 5 is the new one.
Unlike(i) == [id |-> i, own |-> TRUE, same_dimension |-> TRUE, old |-> FALSE, near |-> TRUE,
              cosine |-> 0, terms |-> 0, match |-> FALSE, bm25 |-> 0]
Chunk1 == [Unlike(1) EXCEPT !.same_dimension = FALSE, !.terms = 100, !.match = TRUE, !.bm25 = 60]
Chunk2 == [Unlike(2) EXCEPT !.cosine = 40, !.terms = 100, !.match = TRUE, !.bm25 = 150]
Chunk3 == [Unlike(3) EXCEPT !.cosine = 20, !.terms = 50]
Chunk4 == [Chunk2 EXCEPT !.id = 4, !.own = FALSE]
Chunk5 == [Unlike(5) EXCEPT !.cosine = -10, !.terms = 100, !.match = TRUE, !.bm25 = -5]
RowOfChunk == <<NewMessage("m1", Short), NewMessage("m2", Medium), NewMessage("m3", Short),
                NewMessage("m4", Large), NewMessage("m5", Short)>>

Full == [summary   |-> <<NewRow("summary", Medium, 0)>>,
         event     |-> <<NewRow("e1", Short, 5), NewRow("e2", Medium, 1)>>,
         memory    |-> {Chunk1, Chunk3, Chunk4},
         character |-> <<NewRow("c1", Short, 0)>>,
         fact      |-> <<NewRow("f1", Foreign, 100)>>,
         location  |-> <<NewRow("l1", Short, 0)>>,
         messages  |-> <<NewMessage("a", Short), NewMessage("b", Medium), NewMessage("c", Short)>>]
Tight == [Full EXCEPT !.summary = <<NewRow("summary", Long, 0)>>,
                      !.memory = {Chunk1, Chunk2, Chunk3},
                      !.messages = <<NewMessage("a", Short), NewMessage("b", Large), NewMessage("c", Large)>>]
Wordy == [Full EXCEPT !.summary = <<NewRow("summary", Short, 0)>>, !.memory = {[Chunk1 EXCEPT !.terms = 50, !.match = FALSE]},
                      !.event = <<NewRow("e1", Short, 5), NewRow("e2", Short, 5), NewRow("e3", Large, 3)>>,
                      !.messages[3].text = Large, !.fact[1].w = 0]
AnyId == STRING
SomeStores == {Full, Tight, Wordy}
TwoTexts == {Short, Long}
=============================================================================
