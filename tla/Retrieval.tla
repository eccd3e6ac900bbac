----------------------------- MODULE Retrieval ------------------------------
(***************************************************************************)
(* Retrieval of cited evidence: a context packet is built from several     *)
(* statements that each see the database as it is when they run (lexical,  *)
(* vector, graph), the pool of candidates is capped and reranked, and the  *)
(* answer selects from the ranking with sibling promotion and breadth      *)
(* rules.  A chunk is its number in Corpus, which is also its place in the *)
(* order (resource, ordinal, chunk id) that breaks ties.  Scores are       *)
(* integers, weights are hundredths.                                       *)
(***************************************************************************)
EXTENDS Integers, Sequences, FiniteSets, FiniteSetsExt

CONSTANTS
    Corpus,        \* sequence of [resource, snapshot, path, family, series, hash, prior]
    NoText,        \* a chunk without a path, a path without a series
    NotServed,     \* a resource that is archived, deleted, disabled or without snapshot
    Configs,       \* embedding configurations: [provider, model, deployment]
    SafeDeployment, \* what _safe_deployment_id makes of a deployment's identifier
    DevProviders,  \* the offline providers, which are no semantic models
    Pool,          \* candidate_pool_min and candidate_pool_max
    Lookahead,     \* the least lookahead of sibling promotion
    TopKs,         \* the values of top_k a ranking is selected from with
    PacketTopKs,   \* the values of top_k a packet is asked for with
    MaxChanges     \* bounds what happens to the resources while a packet is built

ASSUME RetrievalConstants ==
    /\ Pool.min \in Nat /\ Pool.max \in Nat /\ Lookahead \in Nat /\ MaxChanges \in Nat
    /\ TopKs \subseteq Nat \ {0} /\ PacketTopKs \subseteq Nat \ {0}
    /\ Len(Corpus) \in Nat /\ DOMAIN Corpus = 1..Len(Corpus)
    /\ \A c \in DOMAIN Corpus : Corpus[c].prior \in Int

VARIABLES
    served,      \* the current snapshot of a resource that may be retrieved from
    embeddedBy,  \* the configuration under which the worker embedded a resource
    purged,      \* resources whose chunks are gone
    changes,     \* how often a resource has changed, at most MaxChanges
    packet       \* the packet being built, or a ranking and what is selected from it

retrievalVars == <<served, embeddedBy, purged, changes, packet>>

ChunkIds == DOMAIN Corpus
Resources == {Corpus[c].resource : c \in ChunkIds}
SnapshotsOf(r) == {Corpus[c].snapshot : c \in {d \in ChunkIds : Corpus[d].resource = r}}

-----------------------------------------------------------------------------
(* Profiles *)

\* use: the statements and the reranker a profile runs, all of them if it says nothing.
\* The candidate multipliers 8 and 12 become 1 and 2.
Plain == [lexical |-> 0, vector |-> 0, graph |-> 0, rerank |-> 0,
          use |-> {"lexical", "vector", "graph", "rerank"}, multiplier |-> 1,
          capped |-> FALSE, secondStage |-> FALSE]

\* The hybrid profiles give the graph no weight, and run its statement.
RetrievalProfiles ==
    [lexical |-> [Plain EXCEPT !.lexical = 100, !.use = {"lexical"}],
     vector |-> [Plain EXCEPT !.vector = 85, !.rerank = 15, !.use = {"vector", "rerank"}],
     hybrid |-> [Plain EXCEPT !.lexical = 45, !.vector = 40, !.rerank = 15],
     hybrid_rerank |-> [Plain EXCEPT !.lexical = 35, !.vector = 35, !.rerank = 30],
     graph |-> [Plain EXCEPT !.lexical = 35, !.vector = 30, !.graph = 25, !.rerank = 10],
     retrieval_v2_rerank |->
        [Plain EXCEPT !.lexical = 45, !.vector = 40, !.graph = 15,
                      !.multiplier = 2, !.capped = TRUE, !.secondStage = TRUE]]

Lower(a, b) == IF a < b THEN a ELSE b
Higher(a, b) == IF a > b THEN a ELSE b

CandidateLimit(profile, k) ==
    LET limit == Higher(k * profile.multiplier, Pool.min)
    IN  IF profile.capped THEN Lower(limit, Pool.max) ELSE limit

\* A pair of scores decides, the first before the second; the order of the corpus
\* breaks ties.
Above(score, c, d) ==
    \/ score[c][1] > score[d][1]
    \/ score[c][1] = score[d][1] /\ score[c][2] > score[d][2]
    \/ score[c][1] = score[d][1] /\ score[c][2] = score[d][2] /\ c < d

\* In place i stands the chunk that has i - 1 others above it.
Ranked(chunks, score) ==
    LET places == {<<c, Cardinality({d \in chunks : Above(score, d, c)})>> : c \in chunks}
    IN  [i \in 1..Cardinality(chunks) |-> (CHOOSE p \in places : p[2] = i - 1)[1]]

-----------------------------------------------------------------------------
(* Embedding namespaces *)

\* Cleaning an identifier keeps 64 characters and makes one dash of what is no letter,
\* digit, point, dash or underscore, so that deployments may share a namespace.
Namespace(config) == <<config.provider, config.model, SafeDeployment[config.deployment]>>

Retrievable(c) ==
    Corpus[c].resource \notin purged /\ served[Corpus[c].resource] = Corpus[c].snapshot

NamespaceOf(c) == Namespace(embeddedBy[Corpus[c].resource])

VectorStatus(config) ==
    IF \E c \in ChunkIds : Retrievable(c) /\ NamespaceOf(c) = Namespace(config) THEN "ok"
    ELSE IF \E c \in ChunkIds : Retrievable(c) THEN "namespace_mismatch"
    ELSE "no_embeddings"

-----------------------------------------------------------------------------
(* The pool of candidates *)

Stage1(p, c) ==
    p.profile.lexical * p.lexical[c] + p.profile.vector * p.vector[c]
        + p.profile.graph * p.graph[c]

\* bound_merged_candidate_pool: by first-stage score, then by the prior of the path.
BoundedPool(p) ==
    LET ranked == Ranked(p.found, [c \in p.found |-> <<Stage1(p, c), Corpus[c].prior>>])
    IN  IF p.profile.capped THEN SubSeq(ranked, 1, Lower(Len(ranked), p.limit)) ELSE ranked

\* The offline hashing provider needs a term of the query in the text.
WithOverlap(p, c) ==
    p.config.provider \in DevProviders =>
        p.lexical[c] > 0 \/ p.rerank[c] > 0 \/ p.graph[c] > 0

FinalScore(p, c) ==
    IF p.profile.secondStage
    THEN 1000000 * p.rerank[c] + 10 * Stage1(p, c) + Corpus[c].prior
    ELSE Stage1(p, c) + p.profile.rerank * p.rerank[c] + Corpus[c].prior

-----------------------------------------------------------------------------
(* Selection *)

\* Places of the window that hold a member of the chunk's series not emitted yet.
Siblings(ranking, k, out, c) ==
    {j \in 1..Lower(Len(ranking), Higher(4 * k, Lookahead)) :
        /\ ranking[j] # c /\ ranking[j] \notin Range(out)
        /\ Corpus[ranking[j]].series = Corpus[c].series}

Emit(ranking, k, acc, c) ==
    LET siblings == Siblings(ranking, k, acc.out, c)
        alone == Corpus[c].series \in {NoText} \cup acc.series \/ siblings = {}
    IN  IF c \in Range(acc.out) THEN acc
        ELSE IF alone THEN [acc EXCEPT !.out = Append(@, c)]
        ELSE [out |-> Append(Append(acc.out, c), ranking[Min(siblings)]),
              series |-> acc.series \cup {Corpus[c].series}]

\* promote_sequence_siblings_for_second_stage: the best sibling of a series, within
\* the window, moves up behind the first member; once for every series.
Promote(ranking, k) ==
    LET emitted[i \in 0..Len(ranking)] ==
            IF i = 0 THEN [out |-> <<>>, series |-> {}]
            ELSE Emit(ranking, k, emitted[i - 1], ranking[i])
    IN  IF k <= 1 THEN ranking ELSE emitted[Len(ranking)].out

ResourceCap(ranking, k) ==
    LET target == Lower(Cardinality({Corpus[c].resource : c \in Range(ranking)}), k)
    IN  IF target = 0 THEN k ELSE (k + target - 1) \div target

\* A candidate is deferred when what is selected has its text or path, two of its
\* family, or its resource's share.
Crowded(c, selected, cap) ==
    \/ \E d \in selected : Corpus[d].hash = Corpus[c].hash
    \/ \E d \in selected : Corpus[d].path = Corpus[c].path /\ Corpus[c].path # NoText
    \/ Cardinality({d \in selected : Corpus[d].family = Corpus[c].family}) >= 2
    \/ Cardinality({d \in selected : Corpus[d].resource = Corpus[c].resource}) >= cap

Place(k, cap, acc, c) ==
    IF Len(acc.selected) >= k THEN acc
    ELSE IF Crowded(c, Range(acc.selected), cap) THEN [acc EXCEPT !.deferred = Append(@, c)]
    ELSE [acc EXCEPT !.selected = Append(@, c)]

\* diversify_ranked_candidates: the deferred fill what is left of top_k.
Diversify(ranking, k) ==
    LET cap == ResourceCap(ranking, k)
        placed[i \in 0..Len(ranking)] ==
            IF i = 0 THEN [selected |-> <<>>, deferred |-> <<>>]
            ELSE Place(k, cap, placed[i - 1], ranking[i])
        end == placed[Len(ranking)]
    IN  end.selected \o SubSeq(end.deferred, 1, Lower(Len(end.deferred), k - Len(end.selected)))

Select(ranking, k, secondStage) ==
    Diversify(IF secondStage THEN Promote(ranking, k) ELSE ranking, k)

-----------------------------------------------------------------------------
(* A packet *)

NoScores == [c \in ChunkIds |-> 0]

\* The query run is committed as running before anything is retrieved.
StartPacket(name, k, config) ==
    /\ packet.at = "none"
    /\ packet' = [at |-> "started", profile |-> RetrievalProfiles[name], k |-> k,
                  limit |-> CandidateLimit(RetrievalProfiles[name], k),
                  config |-> config, vectorStatus |-> VectorStatus(config),
                  seen |-> {c \in ChunkIds : Retrievable(c)}, found |-> {},
                  lexical |-> NoScores, vector |-> NoScores, graph |-> NoScores,
                  rerank |-> NoScores, batch |-> <<>>, hits |-> <<>>]
    /\ UNCHANGED <<served, embeddedBy, purged, changes>>

\* Mutant: the statement reads every chunk, not those of current snapshots.
LexicalRowsOfAny == {c \in ChunkIds : Corpus[c].resource \notin purged}

LexicalRows == {c \in ChunkIds : Retrievable(c)}

VectorRows(config) ==
    {c \in ChunkIds : Retrievable(c) /\ NamespaceOf(c) = Namespace(config)}

\* Which rows match and in what order is the text's; each statement returns at most
\* `limit` rows, and a chunk found twice keeps its better scores.
LexicalSearch ==
    /\ packet.at = "started"
    /\ \E rows \in SUBSET (IF "lexical" \in packet.profile.use THEN LexicalRows ELSE {}) :
        /\ Cardinality(rows) <= packet.limit
        /\ packet' = [packet EXCEPT !.at = "lexical", !.found = rows,
                        !.lexical = [c \in ChunkIds |-> IF c \in rows THEN 1 ELSE 0]]
    /\ UNCHANGED <<served, embeddedBy, purged, changes>>

VectorSearch ==
    /\ packet.at = "lexical"
    /\ \E rows \in SUBSET (IF "vector" \in packet.profile.use THEN VectorRows(packet.config) ELSE {}) :
        /\ Cardinality(rows) <= packet.limit
        /\ packet' = [packet EXCEPT !.at = "vector", !.found = @ \cup rows,
                        !.vector = [c \in ChunkIds |-> IF c \in rows THEN 1 ELSE 0]]
    /\ UNCHANGED <<served, embeddedBy, purged, changes>>

\* Graph scores of the candidates whose nodes still exist, whatever weight they have:
\* such a score counts as an overlap with the query.  Then the pool is capped and sent
\* to the reranker as one batch.
ScoreGraphAndRerank ==
    /\ packet.at = "vector"
    /\ \E linked \in SUBSET (IF "graph" \in packet.profile.use
                             THEN {c \in packet.found : Corpus[c].resource \notin purged}
                             ELSE {}) :
        LET scored == [packet EXCEPT !.graph = [c \in ChunkIds |-> IF c \in linked THEN 1 ELSE 0]]
            pool == BoundedPool(scored)
        IN  \E liked \in SUBSET (IF "rerank" \in packet.profile.use THEN Range(pool) ELSE {}) :
                packet' = [scored EXCEPT !.at = "ranked", !.batch = pool,
                            !.rerank = [c \in ChunkIds |-> IF c \in liked THEN 1 ELSE 0]]
    /\ UNCHANGED <<served, embeddedBy, purged, changes>>

\* The hits refer to their chunks: one purged in between fails the query run.
RecordPacket ==
    /\ packet.at = "ranked"
    /\ LET kept == {c \in Range(packet.batch) : WithOverlap(packet, c)}
           hits == Select(Ranked(kept, [c \in kept |-> <<FinalScore(packet, c), 0>>]),
                          packet.k, packet.profile.secondStage)
       IN  packet' = IF \E c \in Range(hits) : Corpus[c].resource \in purged
                     THEN [at |-> "failed"]
                     ELSE [packet EXCEPT !.at = "succeeded", !.hits = hits]
    /\ UNCHANGED <<served, embeddedBy, purged, changes>>

\* Any error of a statement or a provider, once the run is committed.
FailPacket ==
    /\ packet.at \in {"started", "lexical", "vector", "ranked"}
    /\ packet' = [at |-> "failed"]
    /\ UNCHANGED <<served, embeddedBy, purged, changes>>

Seen(p) ==
    IF p.at \in {"started", "lexical"}
    THEN [p EXCEPT !.seen = @ \cup {c \in ChunkIds : Corpus[c].resource \notin purged
                                        /\ served'[Corpus[c].resource] = Corpus[c].snapshot}]
    ELSE p

\* The worker publishes a snapshot, or a user withdraws the resource, or restores it.
Reserve(r) ==
    /\ packet.at \in {"started", "lexical", "vector", "ranked"} /\ r \notin purged
    /\ changes < MaxChanges /\ changes' = changes + 1
    /\ \E s \in {NotServed} \cup SnapshotsOf(r) : s # served[r] /\ served' = [served EXCEPT ![r] = s]
    /\ packet' = Seen(packet)
    /\ UNCHANGED <<embeddedBy, purged>>

PurgeChunks(r) ==
    /\ packet.at \in {"started", "lexical", "vector", "ranked"}
    /\ served[r] = NotServed /\ r \notin purged
    /\ purged' = purged \cup {r}
    /\ UNCHANGED <<served, embeddedBy, changes, packet>>

-----------------------------------------------------------------------------

\* A ranking to select from, as the profiles can produce it.
IsRanking(ranking) == Len(ranking) > 0 /\ IsInjective(ranking)

Rankings == {r \in UNION {[1..n -> ChunkIds] : n \in 1..Len(Corpus)} : IsRanking(r)}

RetrievalInit ==
    /\ purged = {} /\ changes = 0
    /\ served \in [Resources -> {Corpus[c].snapshot : c \in ChunkIds}]
    /\ \A r \in Resources : served[r] \in SnapshotsOf(r)
    /\ embeddedBy \in [Resources -> Configs]
    /\ \/ packet = [at |-> "none"]
       \/ /\ embeddedBy = CHOOSE e \in [Resources -> Configs] : TRUE
          /\ packet \in [at : {"ranking"}, ranking : Rankings, k : TopKs, secondStage : BOOLEAN]

SelectHits ==
    /\ packet.at = "ranking"
    /\ packet' = [at |-> "selected", from |-> Range(packet.ranking), k |-> packet.k,
                  order |-> packet.ranking,
                  hits |-> Select(packet.ranking, packet.k, packet.secondStage)]
    /\ UNCHANGED <<served, embeddedBy, purged, changes>>

RetrievalNext ==
    \/ \E name \in DOMAIN RetrievalProfiles, k \in PacketTopKs, config \in Configs :
            StartPacket(name, k, config)
    \/ LexicalSearch \/ VectorSearch \/ ScoreGraphAndRerank
    \/ RecordPacket \/ FailPacket \/ SelectHits
    \/ \E r \in Resources : Reserve(r) \/ PurgeChunks(r)

RetrievalSpec == RetrievalInit /\ [][RetrievalNext]_retrievalVars

-----------------------------------------------------------------------------
(* Properties *)

\* A packet cites only chunks that some statement of it could see as part of a
\* current snapshot (retrieve_context_candidates, "scoped to current snapshots only").
EvidenceWasServed ==
    packet.at = "succeeded" => Range(packet.hits) \subseteq packet.seen

\* The status a packet reports foretells the vector statement, which another statement
\* and a commit precede: unless a resource changed in between, vectors were compared only
\* if the status was "ok".  That is of namespaces, and says nothing of two deployments
\* whose identifiers are cleaned to the same one (_safe_deployment_id): their vectors are
\* compared.
StatusForetells ==
    (/\ packet.at \in {"started", "lexical", "vector", "ranked", "succeeded"} /\ changes = 0
     /\ \E c \in ChunkIds : packet.vector[c] > 0) => packet.vectorStatus = "ok"

\* A capped batch holds no more than the cap, and leaves out no candidate that the
\* first stage, graph scores included, puts above one it holds.
BatchIsBest ==
    packet.at = "ranked" /\ packet.profile.capped =>
        /\ Len(packet.batch) <= Pool.max
        /\ \A c \in Range(packet.batch), d \in packet.found \ Range(packet.batch) :
                Stage1(packet, c) >= Stage1(packet, d)

\* A selection is never short of what the ranking has, and never repeats a chunk:
\* promotion permutes, and the deferred candidates fill up.
SelectionFills ==
    packet.at = "selected" =>
        /\ IsInjective(packet.hits) /\ Range(packet.hits) \subseteq packet.from
        /\ Len(packet.hits) = Lower(packet.k, Cardinality(packet.from))

\* A near-duplicate is selected only when no candidate that adds breadth is left out.
BreadthFirst ==
    packet.at = "selected" /\ (\E c, d \in Range(packet.hits) :
            /\ c # d
            /\ \/ Corpus[c].hash = Corpus[d].hash
               \/ Corpus[c].path = Corpus[d].path /\ Corpus[c].path # NoText) =>
        \A c \in packet.from \ Range(packet.hits) :
            LET like(field) == {d \in Range(packet.hits) : Corpus[d][field] = Corpus[c][field]}
            IN  \/ like("hash") # {} \/ like("path") # {}
                \/ Cardinality(like("family")) >= 2
                \/ Cardinality(like("resource")) >= ResourceCap(packet.order, packet.k)

\* A packet holds the best of what was served while it was built.
\* (retrieval.py, context_packets.py)
RetrievalIsSound ==
    /\ EvidenceWasServed /\ StatusForetells /\ BatchIsBest
    /\ SelectionFills /\ BreadthFirst

=============================================================================
