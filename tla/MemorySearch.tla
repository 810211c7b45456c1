----------------------------- MODULE MemorySearch -----------------------------
(***************************************************************************)
(* search_memory (server/src/db/surreal/mod.rs): up to three queries for   *)
(* candidates among the memory chunks of a session, and their ranking.     *)
(* What a chunk has in common with the query is part of the chunk here:    *)
(* all who search have one query, or a blank one with the same embedding.  *)
(* Scores are in hundredths.                                               *)
(***************************************************************************)
EXTENDS Integers, Sequences, FiniteSets, FiniteSetsExt, SequencesExt

CONSTANTS
    IndexedDimension,   \* whether the query's embedding has an index: 16, 384, ... 3072
    PerHit,             \* candidates for each hit asked for: 8
    MinCandidates,      \* 32
    MaxCandidates,      \* 512
    DefaultLimit,       \* of a listing that names none: 50
    MaxLimit            \* 1000

ASSUME MemorySearchAssumption ==
    /\ IndexedDimension \in BOOLEAN
    /\ {PerHit, MinCandidates, MaxCandidates, DefaultLimit, MaxLimit} \subseteq Nat \ {0}
    /\ MinCandidates <= MaxCandidates

\* A chunk; ids are given in the order of created_at.
Chunk == [id: Nat, own: BOOLEAN,      \* whether it is of the session searched
          same_dimension: BOOLEAN,    \* of its embedding and the query's
          old: BOOLEAN,               \* stored before its dimension had a field
          near: BOOLEAN,              \* external: whether the HNSW index finds it
          cosine: -100..100,
          terms: 0..100,              \* the share of the query's words in it
          match: BOOLEAN,             \* external: whether the full-text index matches it,
          bm25: Int]                  \*   and the score it gives

Least(x, y)    == IF x < y THEN x ELSE y
Greatest(x, y) == IF x > y THEN x ELSE y

normalize_limit(limit) == IF limit = 0 THEN DefaultLimit ELSE Least(limit, MaxLimit)

memory_candidate_limit(limit) ==
    Greatest(MinCandidates, Least(MaxCandidates, normalize_limit(limit) * PerHit))

\* The field of the query's dimension, where there is one, is set when the chunk
\* is stored.
indexed_embedding_field == IndexedDimension
fixed_embedding(c)      == c.same_dimension /\ ~c.old

cosine_similarity(c)    == IF c.same_dimension THEN c.cosine ELSE 0
lexical_score(c, blank) == IF blank THEN 0 ELSE c.terms

Scored(c, lexical) == [chunk |-> c, score |-> Greatest(cosine_similarity(c), lexical)]

\* The members of S, of which "before" has those pairs that are in order; and
\* the first n of them.
Sorted(S, before) ==
    [i \in 1..Cardinality(S) |->
        CHOOSE x \in S : Cardinality({y \in S : <<y, x>> \in before}) = i - 1]
Top(S, before, n) == {x \in S : Cardinality({y \in S : <<y, x>> \in before}) < n}

Newer(c, d)       == c.id > d.id
NearestFirst(S)   == {p \in S \X S : \/ p[1].cosine > p[2].cosine
                                     \/ p[1].cosine = p[2].cosine /\ Newer(p[1], p[2])}
BestTextFirst(S)  == {p \in S \X S : \/ p[1].bm25 > p[2].bm25
                                     \/ p[1].bm25 = p[2].bm25 /\ Newer(p[1], p[2])}
NewestFirst(S)    == {p \in S \X S : Newer(p[1], p[2])}
BestHitFirst(S)   == {p \in S \X S : \/ p[1].score > p[2].score
                                     \/ p[1].score = p[2].score /\ Newer(p[1].chunk, p[2].chunk)}

\* The three queries, each for at most n chunks of the session.  The first is
\* asked when the dimension is indexed, the second when the query has a text, the
\* third when both have found nothing.
Near(chunks)     == {c \in chunks : c.own /\ fixed_embedding(c) /\ c.near}
Matching(chunks) == {c \in chunks : c.own /\ c.match}
OfSession(chunks) == {c \in chunks : c.own}

NearestQuery(chunks, blank, n) ==
    IF ~indexed_embedding_field THEN {}
    ELSE {Scored(c, lexical_score(c, blank)) :
             c \in Top(Near(chunks), NearestFirst(Near(chunks)), n)}

\* Mutant: not asked when the first query has found something.
TextQueryIfNone(chunks, blank, n, found) ==
    IF blank \/ found # {} THEN {}
    ELSE {Scored(c, c.bm25) :
             c \in Top(Matching(chunks), BestTextFirst(Matching(chunks)), n)}
TextQuery(chunks, blank, n, found) ==
    IF blank THEN {}
    ELSE {Scored(c, c.bm25) :
             c \in Top(Matching(chunks), BestTextFirst(Matching(chunks)), n)}

NewestQuery(chunks, blank, n, found) ==
    IF found # {} THEN {}
    ELSE {Scored(c, lexical_score(c, blank)) :
             c \in Top(OfSession(chunks), NewestFirst(OfSession(chunks)), n)}

\* A chunk found twice counts with its better score; one that scores nothing
\* counts for a blank query only.
BestScore(found, c) == Max({x.score : x \in {y \in found : y.chunk = c}})
HitsOf(found, blank) ==
    {[chunk |-> x.chunk, score |-> BestScore(found, x.chunk)] :
        x \in {y \in found : BestScore(found, y.chunk) > 0 \/ blank}}
rank_memory_candidates(found, blank, limit) ==
    LET hits == HitsOf(found, blank)
    IN  SubSeq(Sorted(hits, BestHitFirst(hits)), 1, Least(normalize_limit(limit), Cardinality(hits)))
=============================================================================
