------------------------------- MODULE Context -------------------------------
(***************************************************************************)
(* The context of a turn (server/src/api/grpc/mod.rs build_context_for_turn *)
(* and server/src/engine): read after read, while another turn and the jobs *)
(* of the session write, and then a request to the model within a budget of *)
(* estimated tokens.  One turn, one preview of the same question and one    *)
(* SearchMemory request with a blank query run.  A text is what the         *)
(* estimator counts in it.                                                  *)
(***************************************************************************)
EXTENDS MemorySearch

CONSTANTS
    MaxContext, Reserved,   \* ContextBudget
    Profile,                \* TokenizerProfile
    MessageLimit,           \* recent_message_limit: 24
    MemoryLimit,            \* memory_limit: 8
    SearchLimit,            \* the limit of the SearchMemory request
    RowIds,                 \* the ids of rows and messages
    ChunkRow,               \* the row that stands for each memory chunk, by its id
    NewChunk,               \* the chunk a job may store meanwhile
    CharacterLimit,         \* character_limit: 12
    BasePrompt,             \* the game's system prompt
    Question,               \* the text of the turn and of the preview
    InitialStores,          \* what the session may hold when both begin
    NewTexts,               \* what another turn and a job may write meanwhile
    MaxWrites, MaxFaults    \* bounds

Profiles == {"Generic", "OpenAi", "Anthropic", "Llama", "Mistral"}
Text     == [chars: Nat, words: Nat, punctuation: Nat, non_ascii: Nat]
Message  == [id: RowIds, text: Text]
Row      == [id: RowIds, text: Text, w: Int]
Store    == [summary: Seq(Row), event: Seq(Row), memory: SUBSET Chunk, character: Seq(Row),
             fact: Seq(Row), location: Seq(Row), messages: Seq(Message)]

ASSUME ContextAssumption ==
    /\ MaxContext \in Nat /\ Reserved \in Nat /\ Profile \in Profiles
    /\ MessageLimit \in Nat \ {0} /\ MemoryLimit \in Nat /\ SearchLimit \in Nat /\ CharacterLimit \in Nat
    /\ {"question", "other", "new", "summary"} \subseteq RowIds
    /\ NewChunk \in Chunk /\ InitialStores \subseteq Store
    /\ \A s \in InitialStores :
          /\ IsFiniteSet(s.memory)
          /\ \A c \in s.memory \cup {NewChunk} :
                /\ ChunkRow[c.id] \in Message
                /\ \A d \in s.memory \cup {NewChunk} : c.id = d.id => c = d
          /\ \A i \in DOMAIN s.messages : s.messages[i].id # "question"
    /\ BasePrompt \in Text /\ Question \in Text /\ NewTexts \subseteq Text
    /\ MaxWrites \in Nat /\ MaxFaults \in Nat

-----------------------------------------------------------------------------
(* The estimator.                                                          *)

DivCeil(a, b) == (a + b - 1) \div b

CharsPerTokenX10 ==
    [Generic |-> 40, OpenAi |-> 40, Anthropic |-> 38, Llama |-> 32, Mistral |-> 34]
PunctuationDivisor ==
    [Generic |-> 3, OpenAi |-> 2, Anthropic |-> 2, Llama |-> 1, Mistral |-> 1]

estimate(t) ==
    Greatest(1, Greatest(DivCeil(t.chars * 10, CharsPerTokenX10[Profile]),
                     t.words + DivCeil(t.punctuation, PunctuationDivisor[Profile]) + t.non_ascii))

Counts(c, w, p) == [chars |-> c, words |-> w, punctuation |-> p, non_ascii |-> 0]
Join(s, t) == [chars |-> s.chars + t.chars, words |-> s.words + t.words,
               punctuation |-> s.punctuation + t.punctuation, non_ascii |-> s.non_ascii + t.non_ascii]

Total(costs) ==
    LET sum[n \in 0..Len(costs)] == IF n = 0 THEN 0 ELSE sum[n - 1] + costs[n]
    IN  sum[Len(costs)]

-----------------------------------------------------------------------------
(* The request.                                                            *)

\* Sections by their order; what a line of each begins with, its title with the
\* line ends around it, and the rank of its rows (w: importance, score or
\* confidence; a score and a confidence are in hundredths).
Section == [summary |-> 1, event |-> 2, memory |-> 3, character |-> 4, fact |-> 5, location |-> 6]
Kinds   == {"summary", "event", "memory", "character", "fact", "location"}
LineStart == [summary |-> Counts(0, 0, 0), event |-> Counts(2, 1, 1), memory |-> Counts(10, 2, 3),
              character |-> Counts(2, 1, 1), fact |-> Counts(2, 1, 1), location |-> Counts(2, 1, 1)]
Title == [summary |-> Counts(17, 2, 1), event |-> Counts(17, 2, 1), memory |-> Counts(21, 2, 1),
          character |-> Counts(20, 2, 1), fact |-> Counts(15, 2, 1), location |-> Counts(19, 2, 1)]
NewLine == Counts(1, 0, 0)
TrustedNote == Counts(122, 17, 5)
base_prompt == Join(BasePrompt, TrustedNote)

Clamp(x, low, high) == Greatest(low, Least(x, high))
Priority(kind, w) ==
    CASE kind = "summary"   -> 900
      [] kind = "event"     -> 600 + Clamp(w, 1, 5) * 10
      [] kind = "memory"    -> 700 + Clamp(w, 0, 100)
      [] kind = "character" -> 650
      [] kind = "fact"      -> 550 + Clamp(w, 0, 100)
      [] kind = "location"  -> 400

\* Mutant: nothing is added for the lines and titles around a row.
BareTokens(text)      == estimate(text)
CandidateTokens(text) == estimate(text) + 4

Listed(rows, kind) ==
    CASE kind = "memory"    -> SubSeq(rows, 1, Least(MemoryLimit, Len(rows)))
      [] kind = "character" -> SubSeq(rows, 1, Least(CharacterLimit, Len(rows)))
      [] OTHER              -> rows

\* The insertion index is that of the section and then that of the row in it.
Candidate(kind, row, place) ==
    LET content == Join(row.text, LineStart[kind])
    IN  [kind |-> kind, text |-> content, id |-> row.id, priority |-> Priority(kind, row.w),
         tokens |-> CandidateTokens(content), index |-> <<Section[kind], place>>]

candidates(input) ==
    UNION {{Candidate(kind, Listed(input[kind], kind)[j], j) :
               j \in DOMAIN Listed(input[kind], kind)} : kind \in Kinds}

Inserted(x, y) ==
    x.index[1] < y.index[1] \/ (x.index[1] = y.index[1] /\ x.index[2] < y.index[2])
\* Mutant: equal ranks are ordered before the better rank is asked for.
ShorterFirst(x, y) ==
    \/ x.tokens < y.tokens
    \/ x.tokens = y.tokens /\ Inserted(x, y)
Outranks(x, y) ==
    \/ x.priority > y.priority
    \/ x.priority = y.priority /\ x.tokens < y.tokens
    \/ x.priority = y.priority /\ x.tokens = y.tokens /\ Inserted(x, y)

Ranking(S) == {p \in S \X S : Outranks(p[1], p[2])}
ranked_candidates(input) == Sorted(candidates(input), Ranking(candidates(input)))

\* Items are taken in order, each if it fits in what is left: their positions.
Fit(costs, budget) ==
    LET got[n \in 0..Len(costs)] ==
          IF n = 0 THEN [left |-> budget, taken |-> <<>>]
          ELSE LET before == got[n - 1]
               IN  IF costs[n] <= before.left
                   THEN [left |-> before.left - costs[n], taken |-> Append(before.taken, n)]
                   ELSE before
    IN  got[Len(costs)].taken
Taken(items, costs, budget) ==
    LET taken == Fit(costs, budget) IN [k \in DOMAIN taken |-> items[taken[k]]]

MessageTokens(messages) == [i \in DOMAIN messages |-> estimate(messages[i].text)]
RowTokens(rows)         == [i \in DOMAIN rows |-> rows[i].tokens]

max_prompt_tokens == Greatest(0, MaxContext - Reserved)

\* The last messages, in their own order: what list_recent_messages returns, and
\* what the builder looks at.
Newest(s) == SubSeq(s, Greatest(1, Len(s) - MessageLimit + 1), Len(s))

\* From the newest on, and then in their own order.
\* Mutant: the oldest come first.
SelectOldest(messages) == Taken(messages, MessageTokens(messages), max_prompt_tokens \div 2)
select_recent_messages(messages) ==
    LET latest == Reverse(Newest(messages))
    IN  Reverse(Taken(latest, MessageTokens(latest), max_prompt_tokens \div 2))

\* Mutant: what the messages take is not subtracted.
WholeBudget(messages)  == max_prompt_tokens
SystemBudget(messages) ==
    Greatest(0, max_prompt_tokens - Total(MessageTokens(messages)))

build(input) ==
    LET messages == select_recent_messages(input.messages)
        ranked   == ranked_candidates(input)
        left     == Greatest(0, SystemBudget(messages) - estimate(base_prompt))
    IN  [rows |-> Taken(ranked, RowTokens(ranked), left), messages |-> messages]

\* The text of the system message: the base prompt, the selected rows, and a title
\* for each section with a row.  Their order makes no difference to the estimator.
render_sections(rows) ==
    LET text[n \in 0..Len(rows)] ==
          IF n = 0 THEN base_prompt
          ELSE LET line == Join(rows[n].text, NewLine)
               IN  Join(text[n - 1],
                        IF \E m \in 1..n - 1 : rows[m].kind = rows[n].kind THEN line
                        ELSE Join(Title[rows[n].kind], line))
    IN  text[Len(rows)]

-----------------------------------------------------------------------------
(* The reads of a turn and of a preview.                                   *)

VARIABLES
    store,      \* what the session and its game hold
    read,       \* reads done by each of the two
    input,      \* what they returned
    request,    \* the request built: NoRequest before
    writes,     \* writes by others
    faults,
    quiet       \* history: nothing was written since the preview began

vars == <<store, read, input, request, writes, faults, quiet>>

Turns == {"turn", "preview"}
Procs == Turns \cup {"search"}
Reads(p) ==
    IF p \in Turns
    THEN <<"embed", "summary", "event", "nearest", "text", "newest",
           "character", "fact", "location", "messages">>
    ELSE <<"embed", "nearest", "text", "newest">>
NoRequest == [rows |-> <<>>, messages |-> <<>>]
Own(t) == [id |-> "question", text |-> t]

Blank(p) == p = "search"
Limit(p) == IF p \in Turns THEN MemoryLimit ELSE SearchLimit

Idle == -1   Failed == -2   Built == 11

\* What a process has read; found and known are those of its search.
NothingRead == [summary |-> <<>>, event |-> <<>>, memory |-> <<>>, character |-> <<>>, fact |-> <<>>,
                location |-> <<>>, messages |-> <<>>, found |-> {}, known |-> {}, hits |-> <<>>]

Init ==
    /\ store \in InitialStores
    /\ read = [p \in Procs |-> Idle]
    /\ input = [p \in Procs |-> NothingRead]
    /\ request = [p \in Procs |-> NoRequest]
    /\ writes = 0 /\ faults = 0 /\ quiet = TRUE

\* The turn stores its question first; the others store nothing.
Start(p) ==
    /\ read[p] = Idle /\ read' = [read EXCEPT ![p] = 0]
    /\ store' = IF p = "turn"
                THEN [store EXCEPT !.messages = Append(@, Own(Question))] ELSE store
    /\ quiet' = CASE p = "preview" -> read["turn"] = Idle
                  [] p = "turn"    -> quiet /\ read["preview"] = Built
                  [] p = "search"  -> quiet
    /\ UNCHANGED <<input, request, writes, faults>>

\* After the last read the preview adds its question to what it read.
\* Mutant: the preview adds nothing.
AddNothing(p, messages)  == messages
AddQuestion(p, messages) ==
    IF p = "preview" THEN Append(messages, Own(Question)) ELSE messages

RowOf(hit) == [id |-> ChunkRow[hit.chunk.id].id, text |-> ChunkRow[hit.chunk.id].text, w |-> hit.score]

\* The search, a query at a time; the last step ranks what they have found.
Search(p, k, old) ==
    LET n == memory_candidate_limit(Limit(p))
        more == CASE k = "nearest" -> NearestQuery(store.memory, Blank(p), n)
                  [] k = "text"    -> TextQuery(store.memory, Blank(p), n, old.found)
                  [] k = "newest"  -> NewestQuery(store.memory, Blank(p), n, old.found)
        hits == rank_memory_candidates(old.found \cup more, Blank(p), Limit(p))
    IN  [old EXCEPT
           !.found = @ \cup more,
           !.known = IF k = "nearest" THEN store.memory ELSE @,
           !.hits  = IF k = "newest" THEN hits ELSE @,
           !.memory = IF k = "newest" THEN [i \in DOMAIN hits |-> RowOf(hits[i])] ELSE @]

\* What a process has read when its read k has returned.
Returned(p, k, old) ==
    CASE k = "embed" -> old
      [] k \in {"nearest", "text", "newest"} -> Search(p, k, old)
      [] k = "messages" -> [old EXCEPT !.messages = AddQuestion(p, Newest(store.messages))]
      [] OTHER -> [old EXCEPT ![k] = store[k]]

Reading(p) == read[p] \in 0..Len(Reads(p)) - 1

Read(p) ==
    /\ Reading(p) /\ read' = [read EXCEPT ![p] = @ + 1]
    /\ input' = [input EXCEPT ![p] = Returned(p, Reads(p)[read[p] + 1], @)]
    /\ UNCHANGED <<store, request, writes, faults, quiet>>

\* A turn's request is built; the search answers with its hits.
Build(p) ==
    /\ read[p] = Len(Reads(p)) /\ read' = [read EXCEPT ![p] = Built]
    /\ request' = IF p \in Turns THEN [request EXCEPT ![p] = build(input[p])] ELSE request
    /\ UNCHANGED <<store, input, writes, faults, quiet>>

\* A query that is not asked cannot fail.
IsCall(p) ==
    LET k == Reads(p)[read[p] + 1]
    IN  /\ k = "nearest" => indexed_embedding_field
        /\ k = "text" => ~Blank(p)
        /\ k = "newest" => input[p].found = {}

\* A call to the provider or to the store fails, and with it the turn.
ReadFails(p) ==
    /\ Reading(p) /\ IsCall(p) /\ faults < MaxFaults /\ faults' = faults + 1
    /\ read' = [read EXCEPT ![p] = Failed]
    /\ UNCHANGED <<store, input, request, writes, quiet>>

\* External: another turn of the session stores a message, or a job an event,
\* a memory chunk or the summary.
Write ==
    /\ writes < MaxWrites /\ writes' = writes + 1 /\ quiet' = FALSE
    /\ \E t \in NewTexts :
          \/ store' = [store EXCEPT !.messages = Append(@, [id |-> "other", text |-> t])]
          \/ store' = [store EXCEPT !.event = Append(@, [id |-> "new", text |-> t, w |-> 5])]
          \/ store' = [store EXCEPT !.memory = @ \cup {NewChunk}]
          \/ store' = [store EXCEPT !.summary = <<[id |-> "summary", text |-> t, w |-> 0]>>]
    /\ UNCHANGED <<read, input, request, faults>>

Ended == (\A p \in Procs : read[p] \in {Built, Failed}) /\ UNCHANGED vars

Next == (\E p \in Procs : Start(p) \/ Read(p) \/ Build(p) \/ ReadFails(p)) \/ Write \/ Ended

Spec == Init /\ [][Next]_vars

-----------------------------------------------------------------------------
(* Properties.                                                             *)

TypeOK ==
    /\ read \in [Procs -> {Idle, Failed} \cup 0..Built]
    /\ \A p \in Turns : Len(input[p].messages) <= MessageLimit + (IF p = "preview" THEN 1 ELSE 0)
    /\ writes \in 0..MaxWrites /\ faults \in 0..MaxFaults /\ quiet \in BOOLEAN

IsBuilt(p) == read[p] = Built
MessagesUse(p) == Total(MessageTokens(request[p].messages))
RowsUse(p)     == Total(RowTokens(request[p].rows))
Used(p)        == MessagesUse(p) + RowsUse(p) + estimate(base_prompt)

\* A preview shows the request that the turn then makes, message by message and
\* row by row, when nobody writes in between; although the turn has stored its
\* question and the preview only adds it, after the limit of the listing.
PreviewIsExact ==
    IsBuilt("preview") /\ IsBuilt("turn") /\ quiet => request["preview"] = request["turn"]

\* A search misses no chunk that the words of its query match, unless hits that
\* score as well fill its limit or what one query returns; a blank one finds
\* something as long as there is something; and a chunk found by two queries
\* is one hit, with the better of its scores, and a chunk of the session.
SearchFindsMatches ==
    \A p \in Procs : IsBuilt(p) =>
        LET hits == input[p].hits
            full == Least(normalize_limit(Limit(p)), memory_candidate_limit(Limit(p)))
        IN  /\ \A c \in input[p].known :
                  c.own /\ (Blank(p) \/ (c.match /\ c.bm25 > 0)) =>
                    \/ \E i \in DOMAIN hits : hits[i].chunk = c /\ (Blank(p) \/ hits[i].score >= c.bm25)
                    \/ Blank(p) /\ hits # <<>>
                    \/ Len(hits) >= full /\ \A i \in 1..full : hits[i].score >= c.bm25
            /\ \A i, j \in DOMAIN hits :
                  /\ hits[i].chunk = hits[j].chunk => i = j
                  /\ i < j => hits[i].score >= hits[j].score
                  /\ hits[i].chunk.own

\* The question is in the request it is asked for, unless it and the messages
\* stored after it take more than half of the budget or of the limit.
QuestionIsSent ==
    \A p \in Turns : IsBuilt(p) =>
        LET m == input[p].messages
            own == {i \in DOMAIN m : m[i].id = "question"}
        IN  \A i \in own :
              Len(m) - i < MessageLimit
              /\ Total(MessageTokens(SubSeq(m, i, Len(m)))) <= max_prompt_tokens \div 2
                => Own(Question) \in ToSet(request[p].messages)

\* The estimates of what is sent stay within the budget; only the base prompt is
\* sent whatever it takes.
WithinBudget ==
    \A p \in Turns : IsBuilt(p) =>
        \/ Used(p) <= max_prompt_tokens
        \/ request[p].rows = <<>> /\ estimate(base_prompt) > max_prompt_tokens \div 2

\* The lines and titles that join the rows are not counted, but for four tokens
\* a row: the prompt as it is sent exceeds the budget by four for a section.
RenderedNearlyFits ==
    \A p \in Turns : IsBuilt(p) /\ Used(p) <= max_prompt_tokens =>
        estimate(render_sections(request[p].rows)) + MessagesUse(p)
          <= max_prompt_tokens + 4 * Cardinality({x.kind : x \in ToSet(request[p].rows)})

\* A row is left out only for rows of a better rank: it does not fit beside
\* those of them that are sent.
DroppedForBetterRanks ==
    \A p \in Turns : IsBuilt(p) =>
        LET rows == request[p].rows
            Better(y, x) == y.priority > x.priority
                            \/ (y.priority = x.priority /\ y.tokens <= x.tokens)
        IN  \A x \in candidates(input[p]) \ ToSet(rows) :
              Total([k \in DOMAIN rows |-> IF Better(rows[k], x) THEN rows[k].tokens ELSE 0])
                + x.tokens + estimate(base_prompt) + MessagesUse(p) > max_prompt_tokens

\* Messages keep their order, and one is left out only when it does not fit
\* beside the newer ones that are sent.
NewestMessagesFirst ==
    \A p \in Turns : IsBuilt(p) =>
        LET m == input[p].messages
            sent == ToSet(request[p].messages)
            newer(i) == [j \in 1..Len(m) - i |-> IF m[i + j] \in sent THEN estimate(m[i + j].text) ELSE 0]
        IN  \A i \in DOMAIN m :
              m[i] \notin sent /\ Len(m) - i < MessageLimit =>
                Total(newer(i)) + estimate(m[i].text) > max_prompt_tokens \div 2

\* What a turn sends of its messages and rows, and how much it sends.
BestIsSent   == TypeOK /\ QuestionIsSent /\ NewestMessagesFirst /\ DroppedForBetterRanks
BudgetIsKept == WithinBudget /\ RenderedNearlyFits
=============================================================================
