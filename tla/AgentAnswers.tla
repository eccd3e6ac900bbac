---------------------------- MODULE AgentAnswers ----------------------------
(***************************************************************************)
(* What the agent context endpoint and the listing tools of MCP compute:   *)
(* the context that fits the character budget, the citations its labels    *)
(* name, the warnings about the resources asked for, the outcome of the    *)
(* synthesized answer, pages of a listing and the resource a human name    *)
(* stands for.  A text is its length, a listed row is what decides about   *)
(* it.  `asked` holds one request.                                         *)
(***************************************************************************)
EXTENDS Integers, Sequences, FiniteSets, Functions

CONSTANTS
    LongSnippet,     \* 1200: the longest snippet of an entry
    ShortSnippet,    \* 120: a snippet is cut no shorter than this
    AnswerSnippets,  \* the snippets an answer quotes
    MaxCaveats,      \* the caveats an answer lists
    RefLimit,        \* the rows a name is looked up in
    MaxEntries,      \* bounds the citations, resources and rows of a request
    MaxChars         \* bounds max_chars, and the lengths of texts

ASSUME AnswerConstants ==
    /\ {LongSnippet, ShortSnippet, RefLimit, MaxEntries, MaxChars} \subseteq Nat
    /\ {AnswerSnippets, MaxCaveats} \subseteq Nat \ {0}

VARIABLE asked

Fewer(a, b) == IF a < b THEN a ELSE b
More(a, b) == IF a > b THEN a ELSE b

Total(lengths) ==
    LET sum[i \in 0..Len(lengths)] == IF i = 0 THEN 0 ELSE sum[i - 1] + lengths[i]
    IN  sum[Len(lengths)]

-----------------------------------------------------------------------------
(* The context of a request: entries, each a header and a text, until one does not fit *)

Separator == 2

\* make_snippet: a text longer than the limit is cut and gets one more character.
SnippetOf(text, limit) == IF text <= limit THEN text ELSE limit + 1

\* Mutant: the separator is not counted.
RoomBare(max, parts) == max - Total(parts)

\* The characters left for one more entry.
Room(max, parts) ==
    max - Total(parts) - Separator * (IF parts = <<>> THEN 0 ELSE Len(parts))

EntryLength(entry, room) ==
    Fewer(room, entry.header
        + SnippetOf(entry.text, Fewer(LongSnippet, More(ShortSnippet, room - entry.header))))

\* The parts after the first i entries.
Parts(entries, max) ==
    LET upTo[i \in 0..Len(entries)] ==
            IF i = 0 THEN [parts |-> <<>>, open |-> TRUE]
            ELSE LET before == upTo[i - 1]
                     room == Room(max, before.parts)
                 IN  IF ~before.open \/ room <= entries[i].header
                     THEN [before EXCEPT !.open = FALSE]
                     ELSE [before EXCEPT !.parts = Append(@, EntryLength(entries[i], room))]
    IN  upTo[Len(entries)].parts

-----------------------------------------------------------------------------
(* The citations an answer names *)

\* The rows of a pack: its version is read whole or not at all (require_pack_read), so the
\* number of a row is its place among the citations.
RowsRead(rows, token) == IF {rows[i].of : i \in DOMAIN rows} \subseteq token THEN rows ELSE <<>>

\* agent_answer_snippets: the places of the first parts that have a sentence.
Quoted(rows) ==
    LET said == {i \in DOMAIN rows : rows[i].said}
    IN  {i \in said : Cardinality({j \in said : j <= i}) <= AnswerSnippets}

\* agent_answer_citations_used
CitationsUsed(rows) ==
    IF Quoted(rows) # {} THEN Quoted(rows) ELSE 1..Fewer(Len(rows), AnswerSnippets)

-----------------------------------------------------------------------------
(* Coverage and outcome *)

\* The resources of a comparison that the answer does not cite; a deleted one is not known.
Missing(ids, known, cited) ==
    IF Cardinality(ids) > 1 THEN {r \in ids \cap known : r \notin cited} ELSE {}

\* agent_answer_caveats: the warnings, then the resources without full coverage.
Caveats(ids, known, cited, partial) ==
    LET covered == IF ids = {} THEN known ELSE ids \cap known
    IN  Fewer(MaxCaveats,
              Cardinality(Missing(ids, known, cited)) + Cardinality(partial \cap covered))

\* synthesize_agent_answer: a family of claims is unsupported when the question names it
\* and the context negates something or lacks one of its groups.
Confidence(families, negated, cited, caveats) ==
    IF \/ \E f \in families : f.asked /\ (negated \/ ~f.found)
       \/ cited = {}
    THEN "none" ELSE IF caveats > 0 THEN "low" ELSE "medium"

-----------------------------------------------------------------------------
(* Pages and names *)

\* The cursor of the next page, 0 when there is none: list_sources and graph_query filter
\* the rows of a page after it was cut, get_graph_inventory before.
NextCursor(rows, offset, limit, listed) ==
    IF Len(rows) > offset + limit THEN offset + limit ELSE 0

\* A page is the places of its rows, whose order it keeps.
Page(rows, offset, limit) ==
    {i \in (offset + 1)..Fewer(Len(rows), offset + limit) : rows[i].fits}

\* The pages of a client that followed every cursor.
Listed(rows, limit) ==
    LET after[hops \in 0..Len(rows)] ==
            IF hops = 0 THEN [out |-> <<>>, cursor |-> 0, more |-> TRUE]
            ELSE LET before == after[hops - 1]
                     page == Page(rows, before.cursor, limit)
                     next == NextCursor(rows, before.cursor, limit, page)
                 IN  IF ~before.more THEN before
                     ELSE [out |-> Append(before.out, page), cursor |-> next, more |-> next # 0]
    IN  after[Len(rows)].out

\* runtime_resolve_resource_ref: the rows are the live resources with the name, in order;
\* the limit cuts them before the token does.
Resolved(rows, token) ==
    LET kept == {i \in 1..Fewer(Len(rows), RefLimit) : rows[i].of \in token}
    IN  IF Cardinality(kept) = 1 THEN {rows[i].of : i \in kept} ELSE {}

-----------------------------------------------------------------------------
(* Requests *)

Rows(shape) == UNION {[1..n -> shape] : n \in 0..MaxEntries}
SomeResources == 1..MaxEntries

Requests ==
    [kind : {"context"}, entries : Rows([header : 1..2, text : 0..(LongSnippet + 2)]),
     max : 0..MaxChars]
    \cup [kind : {"pack"}, rows : Rows([of : 1..2, said : BOOLEAN]), token : SUBSET (1..2)]
    \cup [kind : {"answer"}, ids : SUBSET (1..2), known : SUBSET (1..2), cited : SUBSET (1..2),
          partial : SUBSET (1..2), families : SUBSET [asked : BOOLEAN, found : BOOLEAN],
          negated : BOOLEAN]
    \cup [kind : {"page"}, rows : Rows([fits : BOOLEAN]), limit : 1..MaxEntries]
    \cup [kind : {"name"}, rows : {q \in Rows([of : SomeResources]) : IsInjective(q)},
          token : SUBSET SomeResources]

AnswersInit == asked \in Requests
AnswersNext == UNCHANGED asked
AnswersSpec == AnswersInit /\ [][AnswersNext]_asked

-----------------------------------------------------------------------------
(* Properties *)

\* The context with its separators is no longer than max_chars, every part holds its whole
\* header, and the first entry is left out only when its header does not fit.
ContextFits ==
    asked.kind = "context" =>
        LET parts == Parts(asked.entries, asked.max)
        IN  /\ Total(parts) + Separator * More(0, Len(parts) - 1) <= asked.max
            /\ \A i \in DOMAIN parts : parts[i] > asked.entries[i].header \/ asked.entries[i].text = 0
            /\ asked.entries # <<>> /\ asked.max > asked.entries[1].header => parts # <<>>

\* A label in the answer is the number in the header of the part it quotes, and the
\* citations used are exactly those the labels name.
LabelsResolve ==
    asked.kind = "pack" =>
        LET read == RowsRead(asked.rows, asked.token)
        IN  /\ \A i \in DOMAIN read : read[i] = asked.rows[i]
            /\ Quoted(read) # {} => CitationsUsed(read) = Quoted(read)
            /\ read # <<>> => CitationsUsed(read) # {}

\* An answer is given with medium confidence only when it cites something, cites every live
\* resource of a comparison, and no resource it was drawn from is covered only in part.
ConfidenceIsEarned ==
    asked.kind = "answer" =>
        LET caveats == Caveats(asked.ids, asked.known, asked.cited, asked.partial)
        IN  Confidence(asked.families, asked.negated, asked.cited, caveats) = "medium" =>
                /\ asked.cited # {}
                /\ Cardinality(asked.ids) > 1 => asked.ids \cap asked.known \subseteq asked.cited
                /\ asked.ids \cap asked.known \cap asked.partial = {}

\* A client that follows every cursor lists every row that fits, once and in order.
PagesListAll ==
    asked.kind = "page" =>
        LET pages == Listed(asked.rows, asked.limit)
        IN  /\ UNION {pages[i] : i \in DOMAIN pages} = {i \in DOMAIN asked.rows : asked.rows[i].fits}
            /\ \A i, j \in DOMAIN pages : i < j => \A p \in pages[i], q \in pages[j] : p < q

\* A name stands for a resource only if the token may read it and, as long as the rows that
\* are looked up hold every resource of that name, only if no other one could be meant.
NamesAreUnique ==
    asked.kind = "name" =>
        LET readable == {asked.rows[i].of : i \in DOMAIN asked.rows} \cap asked.token
            resolved == Resolved(asked.rows, asked.token)
        IN  /\ resolved \subseteq readable /\ Cardinality(resolved) <= 1
            /\ Len(asked.rows) <= RefLimit => (resolved # {} <=> Cardinality(readable) = 1)

\* Answers say what they are drawn from, and lists and names hold no surprise.
\* (agent_context_builders.py, agent_context_runtime.py, runtime_content.py)
AnswersAreGrounded ==
    ContextFits /\ LabelsResolve /\ ConfidenceIsEarned /\ PagesListAll /\ NamesAreUnique

=============================================================================
